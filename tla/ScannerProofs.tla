--------------------------- MODULE ScannerProofs ---------------------------
(***************************************************************************)
(* For every document, buffer size, option and way of feeding the scanner: *)
(* the offsets it reports are exact up to the first truncated row, it      *)
(* never computes a negative cell length, and it stays inside its buffer.  *)
(*                                                                         *)
(* And for every document whose rows fit the buffer, cut into pieces of    *)
(* any size: the rows it hands over are the rows of the document (Csv).    *)
(* That is shown by following the reading of the whole document: at every  *)
(* point of the parse the scanner is where the reading is (Tracks).        *)
(***************************************************************************)
EXTENDS ScannerRef, CommonLemmas, FiniteSetTheorems

\* Appending to a sequence, without a set the elements belong to.
LEMMA AppendToOut ==
    ASSUME NEW s, NEW x, Len(s) \in Nat, s = [k \in 1..Len(s) |-> s[k]]
    PROVE  LET t == Append(s, x) IN
           /\ Len(t) = Len(s) + 1
           /\ t = [k \in 1..Len(t) |-> t[k]]
           /\ \A k \in 1..Len(s) : t[k] = s[k]
           /\ t[Len(s) + 1] = x
           /\ DOMAIN t = 1..Len(s) + 1
           /\ DOMAIN s = 1..Len(s)
<1> DEFINE S == {s[k] : k \in 1..Len(s)} \cup {x}
<1>1. s \in Seq(S)
  <2>1. \A k \in 1..Len(s) : s[k] \in S
    OBVIOUS
  <2>2. [k \in 1..Len(s) |-> s[k]] \in Seq(S)
    BY <2>1, IsASeq
  <2> QED BY <2>2
<1>2. x \in S
  OBVIOUS
<1> HIDE DEF S
<1>3. Append(s, x) \in Seq(S) /\ Len(Append(s, x)) = Len(s) + 1
      /\ \A k \in 1..Len(s) : Append(s, x)[k] = s[k]
      /\ Append(s, x)[Len(s) + 1] = x
  BY <1>1, <1>2, AppendProperties
<1>4. DOMAIN Append(s, x) = 1..Len(s) + 1 /\ DOMAIN s = 1..Len(s)
  BY <1>1, <1>3, LenProperties
<1>5. Append(s, x) = [k \in 1..Len(s) + 1 |-> Append(s, x)[k]]
  <2>1. Append(s, x) \in [1..Len(s) + 1 -> S]
    BY <1>3, LenProperties
  <2> QED BY <2>1, Zenon
<1> QED BY <1>3, <1>4, <1>5

\* Handing over a row keeps CumIsExact if its reported end is exact.
LEMMA DeliverKeepsExact ==
    ASSUME OutIsSequence, CumIsExact, NEW d, out' = Append(out, d),
           /\ d.kind = "row"
           /\ \A k \in DOMAIN out : out[k].kind # "truncated"
           => d.end = d.at
    PROVE  (OutIsSequence /\ CumIsExact)'
<1> USE DEF OutIsSequence
<1>1. /\ Len(out') = Len(out) + 1
      /\ out' = [k \in 1..Len(out') |-> out'[k]]
      /\ \A k \in 1..Len(out) : out'[k] = out[k]
      /\ out'[Len(out) + 1] = d
      /\ DOMAIN out' = 1..Len(out) + 1
      /\ DOMAIN out = 1..Len(out)
  BY AppendToOut
<1>2. OutIsSequence'
  BY <1>1
<1>3. ASSUME NEW k \in DOMAIN out', out'[k].kind = "row",
             \A j \in 1..k : out'[j].kind # "truncated"
      PROVE  out'[k].end = out'[k].at
  <2>1. CASE k \in 1..Len(out)
    <3>1. \A j \in 1..k : out[j].kind # "truncated"
      BY <1>1, <1>3, <2>1
    <3> QED BY <1>1, <1>3, <2>1, <3>1 DEF CumIsExact
  <2>2. CASE k = Len(out) + 1
    <3>1. \A j \in DOMAIN out : out[j].kind # "truncated"
      BY <1>1, <1>3, <2>2
    <3> QED BY <1>1, <1>3, <2>2, <3>1
  <2> QED BY <1>1, <1>3, <2>1, <2>2
<1> QED BY <1>2, <1>3 DEF CumIsExact

\* A byte that only changes quote flags.
LEMMA AdvanceKeeps ==
    ASSUME IInv, pc = "scan", i < Len(buf), NEW q, Advance(q),
           skip_next_delim' => i + 1 < Len(buf)
    PROVE  IInv'
<1> USE DEF IInv, Scanning, WhileScanning
<1>1. Scanning /\ WhileScanning
  OBVIOUS
<1>2. /\ pc' = pc /\ buf' = buf /\ i' = i + 1 /\ cell_start' = cell_start
      /\ row_start' = row_start /\ pos' = pos /\ last' = last /\ doc' = doc
      /\ scanned_length' = scanned_length /\ out' = out /\ api' = api
      /\ cum_scanned_length' = cum_scanned_length
      /\ partial_row_length' = partial_row_length
      /\ old_bytes_read' = old_bytes_read
      /\ buffer_exceeded' = buffer_exceeded
  BY DEF Advance, input, count, rowv
<1>3. Len(buf) \in Nat
  BY <1>1, LenProperties
<1>4. Numbers' /\ BufferShape'
  BY <1>1, <1>2, <1>3 DEF Numbers, BufferShape
<1>5. CellShape'
  BY <1>1, <1>2, <1>3 DEF Numbers, BufferShape, CellShape
<1>6. TruncationIsRecorded' /\ CumIsBase' /\ OutIsSequence' /\ CumIsExact'
  BY <1>1, <1>2 DEF TruncationIsRecorded, CumIsBase, NoneTruncated, OutIsSequence, CumIsExact
<1> QED BY <1>1, <1>2, <1>4, <1>5, <1>6

\* A row end: the offset reported is that of buff[i], and the next cell starts
\* behind it.
LEMMA RowEndKeeps ==
    ASSUME IInv, pc = "scan", i < Len(buf), ~skip_next_delim, NEW n, RowEnd(n),
           OnlyCrlf => buf[i + 1] # CR
    PROVE  IInv'
<1> USE DEF IInv, Scanning, WhileScanning
<1>1. Scanning /\ WhileScanning
  OBVIOUS
<1>2. Len(buf) \in Nat
  BY <1>1, LenProperties
<1>3. /\ buf' = buf /\ pos' = pos /\ doc' = doc /\ api' = api /\ last' = last
      /\ cum_scanned_length' = cum_scanned_length /\ scanned_length' = i
      /\ partial_row_length' = partial_row_length
      /\ old_bytes_read' = old_bytes_read
      /\ skip_next_delim' = skip_next_delim
      /\ buffer_exceeded' = FALSE
  BY DEF RowEnd, input
<1> DEFINE kind == IF buffer_exceeded THEN "truncated" ELSE "row"
           d(cells) == Delivered(cells, kind, i, CumScanned(i, FALSE))
<1>4. ASSUME NEW cells
      PROVE  /\ d(cells).kind = kind
             /\ d(cells).end = cum_scanned_length + i
             /\ d(cells).at = pos - Len(buf) + i
  BY DEF Delivered, CumScanned, Base
<1>5. CASE api # "pull"
  <2>1. /\ CallRowHandler(WithCell(n), d(WithCell(n)))
        /\ cell_start' = i + 1 /\ row_start' = i + 1 /\ i' = i + 1 /\ pc' = pc
    BY <1>5 DEF RowEnd
  <2>2. Numbers' /\ BufferShape'
    BY <1>1, <1>2, <1>3, <2>1 DEF Numbers, BufferShape
  <2>3. CellShape'
    BY <1>1, <1>2, <1>3, <2>1 DEF Numbers, BufferShape, CellShape
  <2>4. CASE buffer_exceeded
    <3>1. out' = out
      BY <2>1, <2>4 DEF CallRowHandler
    <3>2. ~NoneTruncated'
      BY <1>1, <1>5, <2>4, <3>1 DEF NoneTruncated, TruncationIsRecorded
    <3> QED BY <1>1, <1>3, <2>1, <2>2, <2>3, <3>1, <3>2
            DEF CumIsBase, TruncationIsRecorded, OutIsSequence, CumIsExact
  <2>5. CASE ~buffer_exceeded
    <3>1. out' = Append(out, d(WithCell(n)))
      BY <1>5, <2>1, <2>5 DEF CallRowHandler
    <3>2. /\ d(WithCell(n)).kind = "row"
          /\ (\A k \in DOMAIN out : out[k].kind # "truncated")
          => d(WithCell(n)).end = d(WithCell(n)).at
      BY <1>1, <1>2, <1>4, <2>5 DEF CumIsBase, NoneTruncated, Numbers
    <3> HIDE DEF d
    <3>3. (OutIsSequence /\ CumIsExact)'
      BY <3>1, <3>2, DeliverKeepsExact
    <3>4. NoneTruncated' => NoneTruncated
      BY <2>5, <3>1, AppendToOut DEF NoneTruncated, OutIsSequence
    <3> QED BY <1>1, <1>3, <2>1, <2>2, <2>3, <3>3, <3>4
            DEF CumIsBase, TruncationIsRecorded
  <2> QED BY <2>4, <2>5
<1>6. CASE api = "pull"
  <2>1. /\ out' = Append(out, d(PulledRow(WithCell(n))))
        /\ cell_start' = cell_start /\ row_start' = row_start /\ i' = i
        /\ pc' = "row"
    BY <1>6 DEF RowEnd
  <2>2. Numbers' /\ BufferShape'
    BY <1>1, <1>2, <1>3, <2>1 DEF Numbers, BufferShape
  <2>3. CellShape'
    BY <1>1, <1>2, <1>3, <2>1 DEF Numbers, BufferShape, CellShape
  <2>4. /\ d(PulledRow(WithCell(n))).kind = "row"
        /\ (\A k \in DOMAIN out : out[k].kind # "truncated")
        => d(PulledRow(WithCell(n))).end = d(PulledRow(WithCell(n))).at
    BY <1>1, <1>2, <1>4 DEF CumIsBase, NoneTruncated, Numbers
  <2>5. d(PulledRow(WithCell(n))).kind = kind
    BY <1>4
  <2> HIDE DEF d
  <2>6. (OutIsSequence /\ CumIsExact)'
    BY <2>1, <2>4, DeliverKeepsExact
  <2>7. NoneTruncated' => NoneTruncated
    BY <2>1, <2>5, AppendToOut DEF NoneTruncated, OutIsSequence
  <2> QED BY <1>1, <1>3, <1>6, <2>1, <2>2, <2>3, <2>6, <2>7
          DEF CumIsBase, TruncationIsRecorded
<1> QED BY <1>5, <1>6

\* An empty buffer has the shape IInv asks for.
LEMMA InitEstablishesIInv == Init => IInv
<1> SUFFICES ASSUME Init PROVE IInv
  OBVIOUS
<1>1. doc \in Seq(Byte)
  BY DocsAssumption DEF Init
<1>2. buf \in Seq(Byte) /\ Len(buf) = 0 /\ Len(out) = 0
  BY EmptySeq DEF Init
<1>3. BufferShape /\ Numbers
  BY <1>2 DEF Init, BufferShape, Numbers
<1>4. CellShape
  BY <1>2 DEF Init, CellShape, NUL, CR
<1>5. OutIsSequence /\ CumIsExact /\ TruncationIsRecorded
  BY <1>2 DEF Init, OutIsSequence, CumIsExact, TruncationIsRecorded
<1>6. CumIsBase
  <2>1. pos = 0 /\ cum_scanned_length = 0
    BY DEF Init
  <2> QED BY <1>2, <2>1 DEF CumIsBase
<1> QED BY <1>1, <1>2, <1>3, <1>4, <1>5, <1>6 DEF IInv, WhileScanning

\* Moving the incomplete row moves the cell with it and counts what leaves.
LEMMA PreParseKeeps == ASSUME IInv, PreParse PROVE IInv'
<1> USE DEF IInv, Scanning, WhileScanning
<1>1. WhileScanning /\ pc = "ready" /\ pc' = "read"
  BY DEF PreParse
<1>2. Len(buf) \in Nat
  BY <1>1, LenProperties
<1>3. /\ out' = out /\ pos' = pos /\ doc' = doc /\ api' = api /\ i' = i
      /\ scanned_length' = scanned_length /\ buffer_exceeded' = buffer_exceeded
      /\ partial_row_length' = PartialLen
      /\ row_start' = 0 /\ old_bytes_read' = 0
      /\ cum_scanned_length' = cum_scanned_length + scanned_length - PartialLen
      /\ last' = IF old_bytes_read > 0 THEN buf[old_bytes_read] ELSE NUL
  BY DEF PreParse, Shift, input, rowv
<1>4. /\ buf' \in Seq(Byte) /\ Len(buf') = PartialLen
      /\ scanned_length = Len(buf)
      /\ cell_start' \in Int /\ 0 <= cell_start'
      /\ \/ cell_start' = cell_start - row_start
            /\ \A k \in 1..PartialLen : buf'[k] = buf[row_start + k]
         \/ cell_start' = 0 /\ old_bytes_read = Len(buf)
            /\ row_start = Len(buf) /\ Len(buf) > 0
  <2>1. CASE old_bytes_read = 0
    <3>1. buf' = SubSeq(buf, 1, Len(buf)) /\ PartialLen = Len(buf) /\ row_start = 0
          /\ cell_start' = cell_start - row_start /\ scanned_length = Len(buf)
      BY <1>1, <1>2, <2>1 DEF PreParse, Shift, BufferShape, PartialLen
    <3> QED BY <1>1, <1>2, <3>1, SubSeqProperties DEF Numbers, BufferShape
  <2>2. CASE old_bytes_read # 0 /\ row_start < old_bytes_read
    <3>1. buf' = SubSeq(buf, row_start + 1, Len(buf))
          /\ PartialLen = Len(buf) - row_start
          /\ cell_start' = cell_start - row_start /\ scanned_length = Len(buf)
      BY <1>1, <1>2, <2>2 DEF PreParse, Shift, BufferShape, PartialLen, Numbers
    <3> QED BY <1>1, <1>2, <2>2, <3>1, SubSeqProperties DEF Numbers, BufferShape
  <2>3. CASE old_bytes_read # 0 /\ ~(row_start < old_bytes_read)
    <3>1. buf' = <<>> /\ PartialLen = 0 /\ cell_start' = 0 /\ row_start = Len(buf)
          /\ scanned_length = Len(buf) /\ old_bytes_read = Len(buf) /\ Len(buf) > 0
      BY <1>1, <1>2, <2>3 DEF PreParse, Shift, BufferShape, PartialLen, Numbers
    <3> QED BY <3>1, EmptySeq
  <2> QED BY <2>1, <2>2, <2>3
<1>5. PartialLen \in Int /\ row_start \in Int /\ cell_start \in Int
      /\ row_start <= cell_start /\ PartialLen <= Len(buf)
      /\ (old_bytes_read # 0 => old_bytes_read = Len(buf))
  BY <1>1, <1>2 DEF PartialLen, Numbers, BufferShape
<1>6. Numbers' /\ BufferShape'
  BY <1>1, <1>2, <1>3, <1>4, <1>5 DEF Numbers, BufferShape
<1>7. CellShape'
  <2> SUFFICES ASSUME ~buffer_exceeded
               PROVE  /\ cell_start' <= Len(buf')
                      /\ OnlyCrlf => /\ cell_start' > 0 => buf'[cell_start'] # CR
                                     /\ Len(buf') = 0 => last' # CR
    BY <1>1, <1>3 DEF CellShape
  <2>1. cell_start <= Len(buf) /\ (OnlyCrlf /\ cell_start > 0 => buf[cell_start] # CR)
    BY <1>1 DEF CellShape
  <2>2. CASE cell_start' = 0 /\ old_bytes_read = Len(buf)
            /\ row_start = Len(buf) /\ Len(buf) > 0
    BY <1>2, <1>3, <1>4, <1>5, <2>1, <2>2
  <2>3. CASE cell_start' = cell_start - row_start
            /\ \A k \in 1..PartialLen : buf'[k] = buf[row_start + k]
    <3>1. PartialLen = Len(buf) - row_start
      BY <1>1, <1>2 DEF PartialLen, BufferShape, Numbers
    <3>2. cell_start' <= Len(buf')
      BY <1>2, <1>4, <1>5, <2>1, <2>3, <3>1
    <3>3. OnlyCrlf /\ cell_start' > 0 => buf'[cell_start'] # CR
      <4>1. cell_start' > 0 => cell_start' \in 1..PartialLen
                               /\ row_start + cell_start' = cell_start /\ cell_start > 0
        BY <1>1, <1>2, <1>4, <1>5, <2>3, <3>2 DEF BufferShape
      <4> QED BY <2>1, <2>3, <4>1
    <3>4. OnlyCrlf /\ Len(buf') = 0 => last' # CR
      <4>1. CASE old_bytes_read = 0
        BY <1>3, <1>1, <4>1 DEF Numbers, NUL, CR
      <4>2. CASE old_bytes_read # 0
        <5>1. Len(buf') = 0 => cell_start = Len(buf) /\ Len(buf) > 0
          BY <1>1, <1>2, <1>4, <1>5, <2>1, <3>1, <4>2 DEF BufferShape, Numbers
        <5> QED BY <1>2, <1>3, <1>5, <2>1, <4>2, <5>1
      <4> QED BY <4>1, <4>2
    <3> QED BY <3>2, <3>3, <3>4
  <2> QED BY <1>4, <2>2, <2>3
<1>8. TruncationIsRecorded' /\ OutIsSequence' /\ CumIsExact'
  BY <1>1, <1>3 DEF TruncationIsRecorded, OutIsSequence, CumIsExact
<1>9. CumIsBase'
  BY <1>1, <1>2, <1>3, <1>4, <1>5 DEF CumIsBase, NoneTruncated, Numbers
<1> QED BY <1>1, <1>3, <1>4, <1>6, <1>7, <1>8, <1>9

\* A truncation is on record, or in progress in a pull parser.
LEMMA PreParseTruncateKeeps == ASSUME IInv, PreParseTruncate PROVE IInv'
<1> USE DEF IInv, Scanning, WhileScanning
<1>1. WhileScanning /\ pc = "ready" /\ pc' = "read"
  BY DEF PreParseTruncate
<1>2. Len(buf) \in Nat
  BY <1>1, LenProperties
<1>3. /\ pos' = pos /\ doc' = doc /\ api' = api /\ i' = i /\ buf' = <<>>
      /\ scanned_length' = scanned_length /\ buffer_exceeded' = TRUE
      /\ partial_row_length' = 0 /\ row_start' = 0 /\ old_bytes_read' = 0
      /\ cell_start' = cell_start - row_start
      /\ cum_scanned_length' = cum_scanned_length + scanned_length - PartialLen
  BY DEF PreParseTruncate, input
<1>4. buf' \in Seq(Byte) /\ Len(buf') = 0
  BY <1>3, EmptySeq
<1>5. PartialLen \in Int
  BY <1>1, <1>2 DEF PartialLen, Numbers
<1>6. Numbers' /\ BufferShape'
  BY <1>1, <1>2, <1>3, <1>4, <1>5 DEF Numbers, BufferShape
<1>7. CellShape' /\ CumIsBase'
  BY <1>3 DEF CellShape, CumIsBase, NoneTruncated
<1>8. CASE buffer_exceeded \/ api = "pull"
  <2>1. out' = out
    BY <1>8 DEF PreParseTruncate, CallRowHandler
  <2> QED BY <1>1, <1>3, <1>4, <1>6, <1>7, <1>8, <2>1
          DEF TruncationIsRecorded, OutIsSequence, CumIsExact
<1>9. CASE ~buffer_exceeded /\ api # "pull"
  <2>1. PICK d : out' = Append(out, d) /\ d.kind = "truncated"
    BY <1>9 DEF PreParseTruncate, CallRowHandler
  <2>2. (OutIsSequence /\ CumIsExact)'
    BY <2>1, DeliverKeepsExact
  <2>3. TruncationIsRecorded'
    BY <2>1, AppendToOut DEF TruncationIsRecorded, OutIsSequence
  <2> QED BY <1>1, <1>3, <1>4, <1>6, <1>7, <2>2, <2>3
<1> QED BY <1>8, <1>9

\* A read appends behind the row and leaves the cell where it is.
LEMMA ReadKeeps == ASSUME IInv, NEW k \in 1..BuffSize, Read(k) PROVE IInv'
<1> USE DEF IInv, Scanning, WhileScanning
<1>1. WhileScanning /\ pc = "read" /\ pc' = "scan"
  BY DEF Read
<1>2. Len(buf) \in Nat /\ Len(doc) \in Nat
  BY <1>1, LenProperties
<1>3. /\ pos' = pos + k /\ doc' = doc /\ api' = api /\ pos + k <= Len(doc)
      /\ buf' = buf \o SubSeq(doc, pos + 1, pos + k)
      /\ scanned_length' = scanned_length /\ buffer_exceeded' = buffer_exceeded
      /\ partial_row_length' = 0 /\ row_start' = row_start
      /\ old_bytes_read' = old_bytes_read /\ cell_start' = cell_start
      /\ cum_scanned_length' = cum_scanned_length /\ out' = out /\ last' = last
      /\ skip_next_delim' = FALSE
      /\ ResolvePending(buf', partial_row_length)
  BY DEF Read, input, rowv
<1>4. /\ SubSeq(doc, pos + 1, pos + k) \in Seq(Byte)
      /\ Len(SubSeq(doc, pos + 1, pos + k)) = k
  BY <1>1, <1>2, <1>3, SubSeqProperties DEF Numbers
<1>5. /\ buf' \in Seq(Byte) /\ Len(buf') = Len(buf) + k
      /\ \A j \in 1..Len(buf) : buf'[j] = buf[j]
  BY <1>1, <1>3, <1>4, ConcatProperties
<1>6. i' = Len(buf) \/ i' = Len(buf) + 1
  BY <1>1, <1>3 DEF ResolvePending, BufferShape
<1>7. Numbers' /\ BufferShape'
  BY <1>1, <1>2, <1>3, <1>5, <1>6, BuffSizeAssumption DEF Numbers, BufferShape
<1>8. CellShape'
  BY <1>1, <1>2, <1>3, <1>5, <1>6 DEF CellShape, BufferShape, Numbers
<1>9. TruncationIsRecorded' /\ OutIsSequence' /\ CumIsExact'
  BY <1>1, <1>3 DEF TruncationIsRecorded, OutIsSequence, CumIsExact
<1>10. CumIsBase'
  BY <1>1, <1>2, <1>3, <1>5, BuffSizeAssumption DEF CumIsBase, NoneTruncated, Numbers
<1> QED BY <1>1, <1>3, <1>5, <1>7, <1>8, <1>9, <1>10

\* The steps between two calls: an empty read, the next input, the end of a
\* piece, the next row of a puller.
LEMMA BetweenCallsKeeps ==
    ASSUME IInv, ReadEof \/ SetInput \/ EndOfChunk \/ NextRow
    PROVE  IInv'
<1> USE DEF IInv, Scanning, WhileScanning
<1>1. WhileScanning /\ pc \in {"read", "eof", "scan", "row"}
  BY DEF ReadEof, SetInput, EndOfChunk, NextRow
<1>2. Len(buf) \in Nat
  BY <1>1, LenProperties
<1>3. /\ pos' = pos /\ doc' = doc /\ api' = api /\ buf' = buf /\ out' = out
      /\ buffer_exceeded' = buffer_exceeded /\ last' = last
      /\ partial_row_length' = partial_row_length
      /\ cum_scanned_length' = cum_scanned_length
      /\ skip_next_delim' = skip_next_delim
  BY DEF ReadEof, SetInput, EndOfChunk, NextRow, input, rowv, count, regs
<1>4. TruncationIsRecorded' /\ OutIsSequence' /\ CumIsExact' /\ CumIsBase'
  BY <1>1, <1>3 DEF TruncationIsRecorded, OutIsSequence, CumIsExact, CumIsBase, NoneTruncated
<1>5. CASE ReadEof
  BY <1>1, <1>2, <1>3, <1>4, <1>5
     DEF ReadEof, Numbers, BufferShape, CellShape, regs, cellv
<1>6. CASE SetInput
  BY <1>1, <1>2, <1>3, <1>4, <1>6
     DEF SetInput, Numbers, BufferShape, CellShape, regs, cellv, count
<1>7. CASE EndOfChunk
  <2>1. /\ pc = "scan" /\ pc' = "ready" /\ i >= Len(buf) /\ i' = i
        /\ scanned_length' = i /\ old_bytes_read' = Len(buf)
        /\ cell_start' = cell_start /\ row_start' = row_start
    BY <1>7 DEF EndOfChunk, regs, cellv
  <2>2. i = Len(buf) /\ row_start <= i /\ 0 < Len(buf)
    BY <1>1, <1>2, <2>1 DEF BufferShape, Numbers
  <2>3. Numbers' /\ BufferShape'
    BY <1>1, <1>2, <1>3, <2>1, <2>2 DEF Numbers, BufferShape
  <2>4. CellShape'
    BY <1>1, <1>2, <1>3, <2>1, <2>2 DEF CellShape
  <2> QED BY <1>1, <1>3, <1>4, <2>3, <2>4
<1>8. CASE NextRow
  <2>1. /\ pc = "row" /\ pc' = "scan" /\ i' = i + 1
        /\ cell_start' = i + 1 /\ row_start' = i + 1
        /\ scanned_length' = scanned_length /\ old_bytes_read' = old_bytes_read
    BY <1>8 DEF NextRow, count
  <2>2. i \in Int /\ 0 <= i /\ i < Len(buf) /\ ~buffer_exceeded /\ ~skip_next_delim
        /\ (OnlyCrlf => buf[i + 1] # CR)
    BY <1>1, <2>1 DEF BufferShape, Numbers, CellShape
  <2>3. Numbers' /\ BufferShape'
    BY <1>1, <1>2, <1>3, <2>1, <2>2 DEF Numbers, BufferShape
  <2>4. CellShape'
    BY <1>2, <1>3, <2>1, <2>2 DEF CellShape
  <2> QED BY <1>1, <1>3, <1>4, <2>1, <2>3, <2>4
<1> QED BY <1>5, <1>6, <1>7, <1>8

\* A cell or the LF of a CRLF ends at buff[i], the row does not.
LEMMA CellEndKeeps ==
    ASSUME IInv, ScanDelim \/ ScanLFofCRLF
    PROVE  IInv'
<1> USE DEF IInv, Scanning, WhileScanning
<1>1. WhileScanning /\ pc = "scan" /\ pc' = "scan" /\ i < Len(buf) /\ ~skip_next_delim
      /\ (OnlyCrlf => buf[i + 1] # CR)
  BY DEF ScanDelim, ScanLFofCRLF, AtByte, Byte0, Delim, CR
<1>2. Len(buf) \in Nat
  BY <1>1, LenProperties
<1>3. /\ pos' = pos /\ doc' = doc /\ api' = api /\ buf' = buf /\ out' = out
      /\ buffer_exceeded' = buffer_exceeded /\ last' = last
      /\ partial_row_length' = partial_row_length
      /\ old_bytes_read' = old_bytes_read
      /\ cum_scanned_length' = cum_scanned_length
      /\ skip_next_delim' = skip_next_delim
      /\ i' = i + 1 /\ cell_start' = i + 1
      /\ row_start' \in {row_start, i + 1}
      /\ scanned_length' \in {scanned_length, i}
  BY DEF ScanDelim, ScanLFofCRLF, input, rowv, count
<1>4. TruncationIsRecorded' /\ OutIsSequence' /\ CumIsExact' /\ CumIsBase'
  BY <1>1, <1>3 DEF TruncationIsRecorded, OutIsSequence, CumIsExact, CumIsBase, NoneTruncated
<1>5. Numbers' /\ BufferShape'
  BY <1>1, <1>2, <1>3 DEF Numbers, BufferShape
<1>6. CellShape'
  BY <1>1, <1>2, <1>3 DEF Numbers, BufferShape, CellShape
<1> QED BY <1>1, <1>3, <1>4, <1>5, <1>6

\* Every step of the scan loop.
LEMMA ScanKeeps == ASSUME IInv, Scan PROVE IInv'
<1> USE DEF AtByte
<1>1. CASE \/ ScanOther \/ ScanSkipped \/ ScanQuotedSpecial \/ ScanCRonlyCrlf
           \/ ScanQuoteOpen \/ ScanQuoteClose \/ ScanQuotePending \/ ScanQuoteMidCell
  <2>1. /\ pc = "scan" /\ i < Len(buf)
        /\ \E q : Advance(q)
        /\ ~skip_next_delim'
    BY <1>1 DEF ScanOther, ScanSkipped, ScanQuotedSpecial, ScanCRonlyCrlf,
                ScanQuoteOpen, ScanQuoteClose, ScanQuotePending, ScanQuoteMidCell,
                AtInnerQuote
  <2> QED BY <2>1, AdvanceKeeps
<1>2. CASE ScanQuoteDoubled
  <2>1. pc = "scan" /\ i < Len(buf) /\ i + 1 < Len(buf) /\ \E q : Advance(q)
    BY <1>2 DEF ScanQuoteDoubled, AtInnerQuote
  <2> QED BY <2>1, AdvanceKeeps
<1>3. CASE ScanCR \/ ScanLF
  <2>1. /\ pc = "scan" /\ i < Len(buf) /\ ~skip_next_delim /\ ~OnlyCrlf
        /\ RowEnd(i - cell_start)
    BY <1>3 DEF ScanCR, ScanLF
  <2> QED BY <2>1, RowEndKeeps
<1>4. CASE ScanLFonlyCrlf
  <2>1. pc = "scan" /\ i < Len(buf) /\ ~skip_next_delim /\ buf[i + 1] # CR
    BY <1>4 DEF ScanLFonlyCrlf, Byte0, CR, LF
  <2>2. CASE scanner_last = CR
    BY <1>4, <2>1, <2>2, RowEndKeeps DEF ScanLFonlyCrlf
  <2>3. CASE scanner_last # CR
    <3>1. Advance(quoted \cup {"NEEDED"}) /\ ~skip_next_delim'
      BY <1>4, <2>1, <2>3 DEF ScanLFonlyCrlf
    <3> QED BY <2>1, <3>1, AdvanceKeeps
  <2> QED BY <2>2, <2>3
<1>5. CASE ScanDelim \/ ScanLFofCRLF
  BY <1>5, CellEndKeeps
<1>6. CASE EndOfChunk
  BY <1>6, BetweenCallsKeeps
<1> QED BY <1>1, <1>2, <1>3, <1>4, <1>5, <1>6 DEF Scan

\* zsv_finish() hands over at most one row, which is not of kind "row".
LEMMA FinishKeeps ==
    ASSUME IInv, FinishFixup \/ FinishNoRoom \/ FinishLast
    PROVE  IInv'
<1>1. pc' \in {"fixed", "closing", "done"}
  BY DEF FinishFixup, FinishNoRoom, FinishLast
<1>2. CASE out' = out
  BY <1>1, <1>2 DEF IInv, Scanning, OutIsSequence, CumIsExact
<1>3. CASE out' # out
  <2>1. PICK d : out' = Append(out, d) /\ d.kind = "final"
    BY <1>3 DEF FinishFixup, FinishNoRoom, FinishLast, rowv, Delivered
  <2>2. (OutIsSequence /\ CumIsExact)'
    BY <2>1, DeliverKeepsExact DEF IInv
  <2> QED BY <1>1, <2>2 DEF IInv, Scanning
<1> QED BY <1>2, <1>3

\* A step that changes nothing.
LEMMA StutterKeeps == ASSUME IInv, UNCHANGED vars PROVE IInv'
BY DEF vars, input, regs, cellv, count, rowv, IInv, Scanning, WhileScanning,
       Numbers, BufferShape, CellShape, TruncationIsRecorded, CumIsBase,
       NoneTruncated, OutIsSequence, CumIsExact

\* The inductive invariant holds throughout every parse.
THEOREM IInvHolds == Spec => []IInv
<1>1. IInv /\ [Next]_vars => IInv'
  <2> SUFFICES ASSUME IInv, [Next]_vars PROVE IInv'
    OBVIOUS
  <2> QED BY PreParseKeeps, PreParseTruncateKeeps, ReadKeeps, BetweenCallsKeeps,
             ScanKeeps, FinishKeeps, StutterKeeps
          DEF Next, Done
<1> QED BY <1>1, InitEstablishesIInv, PTL DEF Spec

\* For every document, buffer size and sequence of pieces: up to the first
\* truncated row, zsv_cum_scanned_length() in a row handler is the offset at
\* which the row ends in the input (scanner_pre_parse() and the scan loop
\* account for every byte exactly once).
THEOREM OffsetsExact == Spec => []CumIsExact
BY IInvHolds, PTL DEF IInv

\* For every document, buffer size and sequence of pieces: the scan loop
\* never passes cell_dl() a length that underflows size_t.
THEOREM NoCellUnderflow == Spec => []CellLengthsNonNegative
<1>1. IInv => CellLengthsNonNegative
  <2> SUFFICES ASSUME IInv, pc = "scan", ~buffer_exceeded, i < Len(buf)
               PROVE  /\ cell_start <= i
                      /\ OnlyCrlf /\ Byte0 = LF /\ scanner_last = CR => cell_start <= i - 1
    BY DEF CellLengthsNonNegative
  <2>1. WhileScanning
    BY DEF IInv, Scanning
  <2>2. cell_start <= i /\ i \in Int /\ cell_start \in Int /\ 0 <= cell_start
    BY <2>1 DEF WhileScanning, CellShape, Numbers, BufferShape
  <2>3. ASSUME OnlyCrlf, scanner_last = CR, i = cell_start PROVE FALSE
    BY <2>1, <2>2, <2>3 DEF WhileScanning, CellShape, scanner_last
  <2> QED BY <2>2, <2>3
<1> QED BY <1>1, IInvHolds, PTL

\* A sequence over a set is one over a larger set.
LEMMA SeqMonotone ==
    ASSUME NEW S, NEW s \in Seq(S), NEW U, S \subseteq U
    PROVE  s \in Seq(U)
<1>1. Len(s) \in Nat /\ s = [k \in 1..Len(s) |-> s[k]] /\ \A k \in 1..Len(s) : s[k] \in U
  <2>1. s \in [1..Len(s) -> S] /\ Len(s) \in Nat
    BY LenProperties
  <2> QED BY <2>1, Zenon
<1>2. [k \in 1..Len(s) |-> s[k]] \in Seq(U)
  BY <1>1, IsASeq
<1> QED BY <1>1, <1>2

\* What IInv says of the types after a step behind which parsing goes on; the
\* other parts of TypeOK are the hypotheses.
LEMMA TypeFromShape ==
    ASSUME IInv', Scanning', doc' \in Docs, api' \in Apis, pos' <= Len(doc'),
           Len(buf') <= BuffSize, i' \in 0..BuffSize, skip_next_delim' \in BOOLEAN,
           cell_start' <= BuffSize, quoted' \subseteq Flags,
           scanned_length' \in 0..BuffSize + 1, cum_scanned_length' >= 0,
           partial_row_length' \in 0..BuffSize, old_bytes_read' \in 0..BuffSize,
           last' \in Byte \cup {NUL}, buffer_exceeded' \in BOOLEAN, pull_now' \in BOOLEAN,
           data_row_count' \in Nat
    PROVE  TypeOK'
<1>1. WhileScanning'
  BY DEF IInv
<1>2. Numbers' /\ buf' \in Seq(Byte) /\ 0 <= row_start' /\ row_start' <= cell_start'
      /\ Len(doc') \in Nat
  BY <1>1, LenProperties DEF WhileScanning, BufferShape
<1>3. buf' \in Seq(Byte \cup {NUL})
  BY <1>2, SeqMonotone
<1>4. pos' \in 0..Len(doc') /\ row_start' \in 0..BuffSize /\ cell_start' \in 0..BuffSize
      /\ cum_scanned_length' \in Nat
  BY <1>2, BuffSizeAssumption DEF Numbers
<1>5. pc' \in {"ready", "read", "scan", "row", "eof", "fixed", "closing", "done"}
  BY DEF Scanning
<1> QED BY <1>3, <1>4, <1>5 DEF TypeOK

\* A step that only moves on in the buffer: nothing is read or shifted.
LEMMA ScanKeepsTypes ==
    ASSUME IInv, IInv', Scanning, Scanning', TypeOK, Scan \/ NextRow
    PROVE  TypeOK'
<1>1. Numbers /\ BufferShape /\ buf \in Seq(Byte) /\ Len(buf) \in Nat
  BY LenProperties DEF IInv, WhileScanning
<1>2. Numbers' /\ BufferShape'
  BY DEF IInv, WhileScanning
<1>3. /\ pc \in {"scan", "row"}
      /\ doc' = doc /\ api' = api /\ pos' = pos /\ buf' = buf /\ last' = last
      /\ cum_scanned_length' = cum_scanned_length
      /\ partial_row_length' = partial_row_length
      /\ i' \in {i, i + 1} /\ cell_start' \in {cell_start, i + 1}
      /\ scanned_length' \in {scanned_length, i}
      /\ old_bytes_read' \in {old_bytes_read, Len(buf)}
      /\ i < Len(buf) \/ (i' = i /\ cell_start' = cell_start)
      /\ skip_next_delim' \in {skip_next_delim, TRUE, FALSE}
      /\ quoted' \subseteq Flags
      /\ \/ \E n : RowEnd(n)
         \/ /\ buffer_exceeded' = buffer_exceeded /\ pull_now' = pull_now
            /\ data_row_count' \in {data_row_count, data_row_count + 1}
  <2> USE DEF Scan, ScanOther, ScanSkipped, ScanDelim, ScanQuotedSpecial, ScanCR,
              ScanCRonlyCrlf, ScanLF, ScanLFofCRLF, ScanLFonlyCrlf, ScanQuoteOpen,
              ScanQuoteClose, ScanQuoteDoubled, ScanQuotePending, ScanQuoteMidCell,
              EndOfChunk, NextRow, AtInnerQuote, AtByte, Advance
  <2>1. /\ pc \in {"scan", "row"}
        /\ doc' = doc /\ api' = api /\ pos' = pos /\ buf' = buf /\ last' = last
        /\ cum_scanned_length' = cum_scanned_length
        /\ partial_row_length' = partial_row_length
    BY DEF RowEnd, input, count, regs
  <2>2. /\ i' \in {i, i + 1} /\ cell_start' \in {cell_start, i + 1}
        /\ scanned_length' \in {scanned_length, i}
        /\ old_bytes_read' \in {old_bytes_read, Len(buf)}
    BY DEF RowEnd, count, regs, cellv
  <2>3. i < Len(buf) \/ (i' = i /\ cell_start' = cell_start)
    BY <1>1 DEF regs, cellv, BufferShape
  <2>4. skip_next_delim' \in {skip_next_delim, TRUE, FALSE}
    BY DEF RowEnd, regs
  <2>5. quoted' \subseteq Flags
    BY DEF RowEnd, cellv, TypeOK, Flags
  <2>6. \/ \E n : RowEnd(n)
        \/ /\ buffer_exceeded' = buffer_exceeded /\ pull_now' = pull_now
           /\ data_row_count' \in {data_row_count, data_row_count + 1}
    BY DEF rowv
  <2> HIDE DEF Scan, NextRow
  <2> QED BY <2>1, <2>2, <2>3, <2>4, <2>5, <2>6
<1>4. buffer_exceeded' \in BOOLEAN /\ pull_now' \in BOOLEAN /\ data_row_count' \in Nat
  <2>1. CASE ~\E n : RowEnd(n)
    BY <1>3, <2>1 DEF TypeOK
  <2>2. CASE \E n : RowEnd(n)
    <3>1. /\ buffer_exceeded' = FALSE /\ pull_now' \in {pull_now, TRUE, FALSE}
          /\ data_row_count' \in {RowCountAfterHandler, RowCountAfterHandler + 1}
      BY <2>2 DEF RowEnd, CallRowHandler
    <3>2. RowCountAfterHandler \in Nat
      BY DEF RowCountAfterHandler, TypeOK
    <3>3. buffer_exceeded' \in BOOLEAN /\ pull_now' \in BOOLEAN
      BY <3>1, Zenon DEF TypeOK
    <3>4. data_row_count' \in Nat
      BY <3>1, <3>2
    <3> QED BY <3>3, <3>4
  <2> QED BY <2>1, <2>2
<1>5. skip_next_delim' \in BOOLEAN
  BY <1>3, Zenon DEF TypeOK
<1>6. i' \in 0..BuffSize /\ cell_start' <= BuffSize /\ scanned_length' \in 0..BuffSize + 1
      /\ old_bytes_read' \in 0..BuffSize
  BY <1>1, <1>2, <1>3, BuffSizeAssumption DEF TypeOK, Numbers
<1>7. /\ doc' \in Docs /\ api' \in Apis /\ pos' <= Len(doc') /\ Len(buf') <= BuffSize
      /\ last' \in Byte \cup {NUL} /\ cum_scanned_length' >= 0
      /\ partial_row_length' \in 0..BuffSize
  BY <1>3, LenProperties, DocsAssumption DEF TypeOK
<1> QED BY <1>3, <1>4, <1>5, <1>6, <1>7, TypeFromShape

\* Between two pieces the row moves to the front of a buffer it fits in.
LEMMA PreParseKeepsTypes ==
    ASSUME IInv, IInv', Scanning, Scanning', TypeOK, PreParse \/ PreParseTruncate
    PROVE  TypeOK'
<1>1. /\ Numbers /\ BufferShape /\ buf \in Seq(Byte) /\ Len(buf) \in Nat
      /\ pc = "ready" /\ pc' = "read"
  BY LenProperties DEF IInv, WhileScanning, PreParse, PreParseTruncate
<1>2. Numbers' /\ BufferShape' /\ buf' \in Seq(Byte) /\ Len(buf') \in Nat
  BY LenProperties DEF IInv, WhileScanning
<1>3. /\ doc' = doc /\ api' = api /\ pos' = pos /\ i' = i /\ old_bytes_read' = 0
      /\ skip_next_delim' = skip_next_delim /\ scanned_length' = scanned_length
      /\ cum_scanned_length' = cum_scanned_length + scanned_length - PartialLen
      /\ cell_start' \in {0, cell_start - row_start}
      /\ partial_row_length' \in {0, PartialLen}
      /\ last' = IF old_bytes_read > 0 THEN buf[old_bytes_read] ELSE NUL
  BY DEF PreParse, PreParseTruncate, Shift, input
<1>4. PartialLen \in 0..Len(buf) /\ scanned_length = Len(buf)
  BY <1>1 DEF PartialLen, BufferShape, Numbers
<1>5. Len(buf') = partial_row_length'
  BY <1>1, <1>2 DEF BufferShape
<1>6. last' \in Byte \cup {NUL}
  BY <1>1, <1>3, ElementOfSeq DEF BufferShape, Numbers
<1>7. quoted' \subseteq Flags /\ buffer_exceeded' \in BOOLEAN /\ pull_now' \in BOOLEAN
      /\ data_row_count' \in Nat
  <2>1. quoted' \in {quoted, {}} /\ data_row_count' \in {data_row_count, 0}
    BY DEF PreParse, PreParseTruncate, Shift, RowCountAfterHandler, rowv
  <2>2. buffer_exceeded' \in {buffer_exceeded, TRUE} /\ pull_now' \in {pull_now, TRUE}
    BY DEF PreParse, PreParseTruncate, CallRowHandler, rowv
  <2>3. buffer_exceeded' \in BOOLEAN /\ pull_now' \in BOOLEAN
    BY <2>2, Zenon DEF TypeOK
  <2> QED BY <2>1, <2>3 DEF TypeOK
<1>8. /\ Len(buf') <= BuffSize /\ cell_start' <= BuffSize /\ cum_scanned_length' >= 0
      /\ partial_row_length' \in 0..BuffSize /\ old_bytes_read' \in 0..BuffSize
  BY <1>1, <1>2, <1>3, <1>4, <1>5, BuffSizeAssumption DEF TypeOK, Numbers, BufferShape
<1>9. /\ doc' \in Docs /\ api' \in Apis /\ pos' <= Len(doc') /\ i' \in 0..BuffSize
      /\ skip_next_delim' \in BOOLEAN /\ scanned_length' \in 0..BuffSize + 1
  BY <1>3, LenProperties, DocsAssumption DEF TypeOK
<1> QED BY <1>6, <1>7, <1>8, <1>9, TypeFromShape

\* A read is limited to the room behind the incomplete row.
LEMMA ReadKeepsTypes ==
    ASSUME IInv, IInv', Scanning, Scanning', TypeOK, NEW k \in 1..BuffSize, Read(k)
    PROVE  TypeOK'
<1>1. /\ Numbers /\ BufferShape /\ buf \in Seq(Byte) /\ doc \in Seq(Byte)
      /\ Len(buf) \in Nat /\ Len(doc) \in Nat /\ pc = "read"
  BY LenProperties DEF IInv, WhileScanning, Read
<1>2. /\ doc' = doc /\ api' = api /\ pos' = pos + k /\ pos + k <= Len(doc)
      /\ k <= BuffSize - partial_row_length /\ last' = last
      /\ buf' = buf \o SubSeq(doc, pos + 1, pos + k)
      /\ scanned_length' = scanned_length /\ cell_start' = cell_start
      /\ cum_scanned_length' = cum_scanned_length /\ old_bytes_read' = old_bytes_read
      /\ partial_row_length' = 0 /\ skip_next_delim' = FALSE
      /\ buffer_exceeded' = buffer_exceeded /\ pull_now' = pull_now
      /\ data_row_count' = data_row_count
      /\ ResolvePending(buf', partial_row_length)
  BY DEF Read, Capacity, input, rowv
<1>3. Len(buf') = Len(buf) + k
  BY <1>1, <1>2, SubSeqProperties, ConcatProperties DEF Numbers
<1>4. quoted' \subseteq Flags /\ i' \in {partial_row_length, partial_row_length + 1}
  BY <1>2 DEF ResolvePending, TypeOK, Flags
<1>5. Len(buf') <= BuffSize /\ i' \in 0..BuffSize
  BY <1>1, <1>2, <1>3, <1>4, BuffSizeAssumption DEF BufferShape, Numbers
<1>6. skip_next_delim' \in BOOLEAN /\ buffer_exceeded' \in BOOLEAN /\ pull_now' \in BOOLEAN
  BY <1>2, Zenon DEF TypeOK
<1>7. /\ doc' \in Docs /\ api' \in Apis /\ pos' <= Len(doc')
      /\ cell_start' <= BuffSize /\ scanned_length' \in 0..BuffSize + 1
      /\ cum_scanned_length' >= 0 /\ old_bytes_read' \in 0..BuffSize
      /\ last' \in Byte \cup {NUL} /\ data_row_count' \in Nat
      /\ partial_row_length' \in 0..BuffSize
  BY <1>2, BuffSizeAssumption DEF TypeOK
<1> QED BY <1>4, <1>5, <1>6, <1>7, TypeFromShape

\* A parser starts inside its buffer.
LEMMA InitHasTypes == Init => TypeOK
<1> SUFFICES ASSUME Init PROVE TypeOK
  OBVIOUS
<1>1. buf \in Seq(Byte \cup {NUL}) /\ Len(buf) = 0
  BY EmptySeq DEF Init
<1>2. Len(doc) \in Nat
  BY DocsAssumption, LenProperties DEF Init
<1>3. skip_next_delim \in BOOLEAN /\ buffer_exceeded \in BOOLEAN /\ pull_now \in BOOLEAN
  BY Zenon DEF Init
<1> QED BY <1>1, <1>2, <1>3, BuffSizeAssumption DEF Init, TypeOK

\* For every document, buffer size and sequence of pieces: as long as the input
\* goes on, zsv_parse_more(), zsv_parse_bytes() and zsv_next_row() keep every
\* offset inside the buffer of BuffSize bytes, and never read more than fits.
THEOREM TypesWhileScanning == Spec => [](Scanning => TypeOK)
<1> DEFINE Typed == IInv /\ (Scanning => TypeOK)
<1>1. Init => TypeOK
  BY InitHasTypes
<1>2. ASSUME Typed, [Next]_vars, IInv', Scanning' PROVE TypeOK'
  <2>1. CASE UNCHANGED vars \/ Done
    BY <1>2, <2>1 DEF vars, Done, input, regs, cellv, count, rowv, TypeOK, Scanning
  <2>2. CASE PreParse \/ PreParseTruncate
    BY <1>2, <2>2, PreParseKeepsTypes DEF Scanning, PreParse, PreParseTruncate
  <2>3. CASE \E k \in 1..BuffSize : Read(k)
    <3>1. Scanning
      BY <2>3 DEF Scanning, Read
    <3> QED BY <1>2, <2>3, <3>1, ReadKeepsTypes
  <2>4. CASE ReadEof \/ SetInput
    <3>1. TypeOK /\ partial_row_length \in 0..BuffSize
      BY <1>2, <2>4 DEF ReadEof, SetInput, Scanning, TypeOK
    <3> QED BY <3>1, <2>4, BuffSizeAssumption
            DEF ReadEof, SetInput, TypeOK, input, regs, cellv, count, rowv
  <2>5. CASE Scan \/ NextRow
    <3>1. Scanning
      BY <2>5 DEF Scanning, Scan, ScanOther, ScanSkipped, ScanDelim, ScanQuotedSpecial, ScanCR,
                  ScanCRonlyCrlf, ScanLF, ScanLFofCRLF, ScanLFonlyCrlf, ScanQuoteOpen,
                  ScanQuoteClose, ScanQuoteDoubled, ScanQuotePending, ScanQuoteMidCell,
                  EndOfChunk, NextRow, AtInnerQuote, AtByte
    <3> QED BY <1>2, <2>5, <3>1, ScanKeepsTypes
  <2>6. CASE FinishFixup \/ FinishNoRoom \/ FinishLast
    BY <1>2, <2>6 DEF FinishFixup, FinishNoRoom, FinishLast, Scanning
  <2> QED BY <1>2, <2>1, <2>2, <2>3, <2>4, <2>5, <2>6 DEF Next
<1>3. Typed /\ [Next]_vars /\ IInv' => Typed'
  BY <1>2
<1> QED BY <1>1, <1>3, IInvHolds, PTL DEF Spec

\* One step of the loop that collapses doubled quotes, from the end of s: what
\* the last k bytes come to, by what fewer of them come to.
Collapsed(s, h, k) ==
    LET j == Len(s) - k + 1
    IN  CASE k = 0 -> <<>>
          [] k >= 2 /\ s[j] = Quote /\ s[j+1] = Quote -> <<Quote>> \o h[k-2]
          [] OTHER -> <<s[j]>> \o h[k-1]

\* What a suffix comes to is a string of bytes, no longer than the suffix.
IsCollapsed(h, S, k) == h[k] \in Seq(S) /\ Len(h[k]) <= k

\* One step of it keeps that.
LEMMA CollapseStep ==
    ASSUME NEW S, NEW s \in Seq(S), Quote \in S, NEW h, NEW k \in 0..Len(s),
           \A m \in 0..k-1 : IsCollapsed(h, S, m)
    PROVE  Collapsed(s, h, k) \in Seq(S) /\ Len(Collapsed(s, h, k)) <= k
<1> DEFINE j == Len(s) - k + 1
           c == Collapsed(s, h, k)
<1>1. Len(s) \in Nat /\ s \in [1..Len(s) -> S]
  BY LenProperties
<1>2. CASE k = 0
  <2>1. k = 0 /\ ~(k >= 2)
    BY <1>2
  <2>2. c = <<>>
    BY <2>1, Zenon DEF Collapsed
  <2>3. <<>> \in Seq(S) /\ Len(<<>>) = 0
    BY EmptySeq
  <2> HIDE DEF c
  <2>4. c \in Seq(S) /\ Len(c) <= k
    BY <2>1, <2>2, <2>3
  <2> QED BY <2>4 DEF c
<1>3. CASE k > 0 /\ k >= 2 /\ s[j] = Quote /\ s[j+1] = Quote
  <2>1. k # 0
    BY <1>3, <1>1
  <2>2. c = <<Quote>> \o h[k-2]
    BY <1>3, <2>1, Zenon DEF Collapsed
  <2>3. k-2 \in 0..k-1
    BY <1>3, <1>1
  <2>4. h[k-2] \in Seq(S) /\ Len(h[k-2]) <= k-2
    BY <2>3 DEF IsCollapsed
  <2>5. <<Quote>> \in Seq(S) /\ Len(<<Quote>>) = 1
    OBVIOUS
  <2>6. c \in Seq(S) /\ Len(c) = 1 + Len(h[k-2]) /\ Len(h[k-2]) \in Nat
    BY <2>2, <2>4, <2>5, ConcatProperties, LenProperties
  <2> QED BY <2>4, <2>6, <1>1
<1>4. CASE k > 0 /\ ~(k >= 2 /\ s[j] = Quote /\ s[j+1] = Quote)
  <2>1. k # 0
    BY <1>4, <1>1
  <2>2. c = <<s[j]>> \o h[k-1]
    BY <1>4, <2>1, Zenon DEF Collapsed
  <2>3. k-1 \in 0..k-1 /\ j \in 1..Len(s)
    BY <1>4, <1>1
  <2>4. h[k-1] \in Seq(S) /\ Len(h[k-1]) <= k-1
    BY <2>3 DEF IsCollapsed
  <2>5. <<s[j]>> \in Seq(S) /\ Len(<<s[j]>>) = 1
    BY <1>1, <2>3
  <2> HIDE DEF j
  <2>6. c \in Seq(S) /\ Len(c) = 1 + Len(h[k-1]) /\ Len(h[k-1]) \in Nat
    BY <2>2, <2>4, <2>5, ConcatProperties, LenProperties
  <2> QED BY <2>4, <2>6, <1>1
<1> QED BY <1>1, <1>2, <1>3, <1>4

\* The recursive definition has a solution: a shortest suffix without one would
\* get it from those of the shorter ones.
LEMMA CollapseDefined ==
    ASSUME NEW S, NEW s \in Seq(S), Quote \in S
    PROVE  \E g : g = [k \in 0..Len(s) |-> Collapsed(s, g, k)]
<1> DEFINE Upto(n) == \E g : g = [k \in 0..n |-> Collapsed(s, g, k)]
           none == {n \in Nat : ~Upto(n)}
<1>1. Len(s) \in Nat
  BY LenProperties
<1>2. Upto(0)
  <2> DEFINE g == [k \in 0..0 |-> <<>>]
  <2>1. \A k \in 0..0 : k = 0 /\ ~(k >= 2)
    OBVIOUS
  <2>2. \A k \in 0..0 : Collapsed(s, g, k) = <<>>
    BY <2>1, Zenon DEF Collapsed
  <2>3. g = [k \in 0..0 |-> Collapsed(s, g, k)]
    BY <2>2, Zenon
  <2> QED BY <2>3
<1>3. ASSUME NEW n \in Nat, Upto(n) PROVE Upto(n + 1)
  <2>1. PICK g : g = [k \in 0..n |-> Collapsed(s, g, k)]
    BY <1>3
  <2> DEFINE h == [k \in 0..n+1 |-> IF k = n + 1 THEN Collapsed(s, g, k) ELSE g[k]]
  <2>2. \A k \in 0..n : h[k] = g[k]
    OBVIOUS
  <2> HIDE DEF h
  <2>3. ASSUME NEW k \in 0..n+1 PROVE Collapsed(s, h, k) = Collapsed(s, g, k)
    <3>1. CASE k = 0
      <4>1. k = 0 /\ ~(k >= 2)
        BY <3>1
      <4> QED BY <4>1, Zenon DEF Collapsed
    <3>2. CASE k # 0
      <4>1. h[k-1] = g[k-1]
        BY <2>2, <3>2
      <4>2. k >= 2 => h[k-2] = g[k-2]
        BY <2>2, <3>2
      <4> QED BY <4>1, <4>2, Zenon DEF Collapsed
    <3> QED BY <3>1, <3>2
  <2>4. \A k \in 0..n : g[k] = Collapsed(s, g, k)
    BY <2>1
  <2>5. h = [k \in 0..n+1 |-> Collapsed(s, g, k)]
    BY <2>4 DEF h
  <2>6. h = [k \in 0..n+1 |-> Collapsed(s, h, k)]
    BY <2>5, <2>3, Zenon
  <2> QED BY <2>6
<1> HIDE DEF Upto
<1>4. \A n \in Nat : Upto(n)
  <2> SUFFICES ASSUME none # {} PROVE FALSE
    OBVIOUS
  <2>1. PICK n \in none : \A m \in none : n <= m
    BY LeastNatural
  <2>2. n # 0 /\ n - 1 \in Nat
    BY <1>2
  <2>3. Upto(n - 1)
    BY <2>1, <2>2
  <2> QED BY <1>3, <2>2, <2>3
<1> QED BY <1>1, <1>4 DEF Upto

\* Collapsing doubled quotes gives bytes of the same kind, and no more of them.
LEMMA DeDoubleShrinks ==
    ASSUME NEW S, NEW s \in Seq(S), Quote \in S
    PROVE  DeDouble(s) \in Seq(S) /\ Len(DeDouble(s)) <= Len(s)
<1>1. Len(s) \in Nat
  BY LenProperties
<1>2. PICK g : g = [k \in 0..Len(s) |-> Collapsed(s, g, k)] /\ DeDouble(s) = g[Len(s)]
  BY CollapseDefined DEF DeDouble, Collapsed
<1> DEFINE long == {k \in 0..Len(s) : ~IsCollapsed(g, S, k)}
<1>3. long = {}
  <2> SUFFICES ASSUME long # {} PROVE FALSE
    OBVIOUS
  <2> HIDE DEF long
  <2>0. long \subseteq Nat
    BY <1>1 DEF long
  <2>1. PICK k \in long : \A m \in long : k <= m
    BY <2>0, LeastNatural
  <2>2. \A m \in 0..k-1 : IsCollapsed(g, S, m)
    BY <1>1, <2>1 DEF long
  <2>3. g[k] = Collapsed(s, g, k) /\ k \in 0..Len(s)
    BY <1>2 DEF long
  <2>4. g[k] \in Seq(S) /\ Len(g[k]) <= k
    BY <2>2, <2>3, CollapseStep
  <2> QED BY <2>4 DEF IsCollapsed, long
<1>4. IsCollapsed(g, S, Len(s))
  BY <1>1, <1>3
<1> QED BY <1>2, <1>4 DEF IsCollapsed

\* What zsv_finish() does to the buffer before it hands over the last row.
FixedShape ==
    pc = "fixed" =>
        /\ row_start <= cell_start /\ row_start <= Len(buf)
        /\ row_start > 0 => old_bytes_read > 0 /\ partial_row_length = 0
        /\ ~VirtualQuoteFits => old_bytes_read <= Len(buf) /\ old_bytes_read <= scanned_length

\* Closing an open quoted cell, virtually, adds no byte to the buffer.
LEMMA FixupKeepsTypes ==
    ASSUME IInv, TypeOK, FinishFixup
    PROVE  TypeOK' /\ FixedShape'
<1>1. /\ Numbers /\ BufferShape /\ buf \in Seq(Byte) /\ Len(buf) \in Nat
      /\ pc \in {"eof", "ready"} /\ pc' = "fixed"
  BY LenProperties DEF IInv, WhileScanning, FinishFixup, CallsFinish, Scanning
<1>2. /\ doc' = doc /\ api' = api /\ pos' = pos /\ i' = i /\ skip_next_delim' = skip_next_delim
      /\ cell_start' = cell_start /\ row_start' = row_start
      /\ cum_scanned_length' = cum_scanned_length /\ old_bytes_read' = old_bytes_read
      /\ partial_row_length' = partial_row_length /\ last' = last
      /\ buffer_exceeded' = buffer_exceeded /\ pull_now' = pull_now
      /\ data_row_count' = data_row_count
  BY DEF FinishFixup, input, rowv
<1>3. /\ scanned_length = Len(buf) /\ row_start <= cell_start /\ row_start <= Len(buf)
      /\ 0 <= row_start /\ old_bytes_read <= Len(buf)
      /\ row_start > 0 => old_bytes_read > 0 /\ partial_row_length = 0
      /\ PendingLen > 1 => cell_start + PendingLen = Len(buf)
  BY <1>1 DEF BufferShape, Numbers, PendingLen
<1>4. /\ buf' \in Seq(Byte \cup {NUL}) /\ Len(buf') <= BuffSize /\ row_start' <= Len(buf')
      /\ scanned_length' \in 0..BuffSize + 1 /\ quoted' \subseteq Flags
      /\ ~VirtualQuoteFits' => old_bytes_read <= Len(buf') /\ old_bytes_read <= scanned_length'
  <2>1. CASE buf' = buf /\ scanned_length' \in {scanned_length, scanned_length + 1}
             /\ quoted' \subseteq quoted \cup {"CLOSED"}
    <3>1. buf \in Seq(Byte \cup {NUL})
      BY DEF TypeOK
    <3>2. Len(buf) <= BuffSize /\ quoted' \subseteq Flags /\ BuffSize \in Nat
      BY <2>1, BuffSizeAssumption DEF TypeOK, Flags
    <3>3. scanned_length' \in 0..BuffSize + 1 /\ old_bytes_read <= scanned_length'
      BY <1>1, <1>3, <2>1, <3>2 DEF Numbers
    <3> QED BY <1>2, <1>3, <2>1, <3>1, <3>2, <3>3
  <2>2. CASE PendingLen > 1 /\ "EMBEDDED" \in quoted /\ ~(~Open \/ PendingLen = 0)
    <3> DEFINE raw == SubSeq(buf, cell_start + 2, cell_start + PendingLen)
               inner == DeDouble(raw)
               before == SubSeq(buf, 1, cell_start + 1)
    <3>0. /\ PendingLen # 1 /\ PendingLen # 0 /\ PendingLen \in Int /\ cell_start \in Nat
          /\ cell_start + PendingLen = Len(buf) /\ PendingLen > 1
      BY <1>1, <1>3, <2>2 DEF Numbers, PendingLen
    <3>1. /\ buf' = before \o inner /\ scanned_length' = cell_start + 2 + Len(inner)
          /\ quote_close_position' = 1 + Len(inner)
          /\ quoted' = (quoted \cup {"CLOSED", "NEEDED"}) \ {"UNCLOSED", "PENDING", "EMBEDDED"}
      BY <2>2, <3>0, Zenon DEF FinishFixup
    <3>2. raw \in Seq(Byte) /\ Len(raw) = PendingLen - 1
      <4>1. cell_start + 2 \in Int /\ cell_start + PendingLen \in Int
            /\ \A k \in cell_start + 2 .. cell_start + PendingLen : buf[k] \in Byte
        BY <1>1, <3>0, ElementOfSeq
      <4> QED BY <4>1, <3>0, SubSeqProperties
    <3>3. before \in Seq(Byte) /\ Len(before) = cell_start + 1
      <4>1. cell_start + 1 \in Int /\ \A k \in 1 .. cell_start + 1 : buf[k] \in Byte
        BY <1>1, <3>0, ElementOfSeq
      <4> QED BY <4>1, <3>0, SubSeqProperties
    <3> HIDE DEF raw, before
    <3>4. inner \in Seq(Byte) /\ Len(inner) <= PendingLen - 1 /\ Len(inner) \in Nat
      BY <3>2, DeDoubleShrinks, LenProperties DEF Byte
    <3> HIDE DEF inner
    <3>5. buf' \in Seq(Byte) /\ Len(buf') = cell_start + 1 + Len(inner)
      BY <3>1, <3>3, <3>4, ConcatProperties
    <3>6. Len(buf') <= BuffSize /\ scanned_length' \in 0..BuffSize + 1 /\ row_start' <= Len(buf')
      <4>1. /\ Len(buf) <= BuffSize /\ row_start \in Int
            /\ row_start <= cell_start /\ row_start' = row_start
        BY <1>1, <1>2, <1>3 DEF TypeOK, Numbers
      <4> QED BY <4>1, <3>0, <3>1, <3>4, <3>5, BuffSizeAssumption
    <3>7. quoted' \subseteq Flags
      BY <3>1 DEF TypeOK, Flags
    <3>8. ASSUME ~VirtualQuoteFits'
          PROVE  old_bytes_read <= Len(buf') /\ old_bytes_read <= scanned_length'
      <4>1. cell_start + (1 + Len(inner)) >= BuffSize
        BY <3>8, <3>1, <1>2 DEF VirtualQuoteFits
      <4> QED BY <4>1, <1>1, <3>1, <3>4, <3>5, BuffSizeAssumption DEF TypeOK, Numbers
    <3>9. buf' \in Seq(Byte \cup {NUL})
      BY <3>5, SeqMonotone
    <3> QED BY <3>6, <3>7, <3>8, <3>9
  <2> QED BY <2>1, <2>2, <1>1, <1>3 DEF FinishFixup, PendingLen, Numbers
<1>5. FixedShape'
  BY <1>2, <1>3, <1>4 DEF FixedShape
<1>6. pc' \in {"ready", "read", "scan", "row", "eof", "fixed", "closing", "done"}
  BY <1>1
<1>7. skip_next_delim' \in BOOLEAN /\ buffer_exceeded' \in BOOLEAN /\ pull_now' \in BOOLEAN
  BY <1>2, Zenon DEF TypeOK
<1>8. TypeOK'
  BY <1>2, <1>4, <1>6, <1>7 DEF TypeOK
<1> QED BY <1>5, <1>8

\* Making room for the closing quote, or cutting the cell, leaves it the last
\* byte of the buffer.
LEMMA NoRoomKeepsTypes ==
    ASSUME TypeOK, FixedShape, FinishNoRoom
    PROVE  TypeOK'
<1> DEFINE room == row_start > 0
           new_end == IF room THEN BuffSize - row_start ELSE BuffSize - 1
           kept == IF room THEN SubSeq(buf, row_start + 1, Len(buf)) ELSE buf
<1>1. /\ buf \in Seq(Byte \cup {NUL}) /\ Len(buf) \in Nat /\ Len(buf) <= BuffSize
      /\ row_start \in 0..BuffSize /\ cell_start \in 0..BuffSize
      /\ scanned_length \in 0..BuffSize + 1 /\ cum_scanned_length \in Nat
      /\ partial_row_length \in 0..BuffSize /\ old_bytes_read \in 0..BuffSize
      /\ last \in Byte \cup {NUL}
  BY LenProperties DEF TypeOK
<1>2. /\ row_start <= cell_start /\ row_start <= Len(buf)
      /\ room => old_bytes_read > 0 /\ partial_row_length = 0
      /\ old_bytes_read <= Len(buf) /\ old_bytes_read <= scanned_length
  BY DEF FixedShape, FinishNoRoom
<1>3. /\ buf' = Put(kept, new_end, Quote)
      /\ cell_start' = IF room THEN cell_start - row_start ELSE cell_start
      /\ scanned_length' = IF scanned_length > new_end + 1 THEN new_end + 1 ELSE scanned_length
      /\ room => /\ row_start' = 0 /\ old_bytes_read' = 0 /\ partial_row_length' = PartialLen
                 /\ cum_scanned_length' = cum_scanned_length + scanned_length - PartialLen
                 /\ last' = buf[old_bytes_read]
      /\ ~room => /\ row_start' = row_start /\ old_bytes_read' = old_bytes_read
                  /\ partial_row_length' = partial_row_length /\ last' = last
                  /\ cum_scanned_length' = cum_scanned_length
  BY DEF FinishNoRoom
<1>4. /\ doc' = doc /\ api' = api /\ pos' = pos /\ i' = i /\ skip_next_delim' = skip_next_delim
      /\ quoted' = quoted /\ buffer_exceeded' = buffer_exceeded /\ pull_now' = pull_now
      /\ data_row_count' = data_row_count /\ pc' = "closing"
  BY DEF FinishNoRoom, input, rowv
<1>5. new_end \in 0..BuffSize-1
  BY <1>1, BuffSizeAssumption
<1>6. kept \in Seq(Byte \cup {NUL})
  <2>1. room => /\ row_start + 1 \in Int
                /\ \A k \in row_start + 1 .. Len(buf) : buf[k] \in Byte \cup {NUL}
    BY <1>1, ElementOfSeq
  <2> QED BY <1>1, <2>1, SubSeqProperties
<1> HIDE DEF new_end, kept
<1>7. buf' \in Seq(Byte \cup {NUL}) /\ Len(buf') <= BuffSize
  <2>1. \A k \in 1..Len(kept) : kept[k] \in Byte \cup {NUL}
    BY <1>6, ElementOfSeq
  <2>2. buf' = [k \in 1..new_end+1 |-> IF k = new_end + 1 THEN Quote
                                       ELSE IF k <= Len(kept) THEN kept[k] ELSE NUL]
    BY <1>3, Zenon DEF Put
  <2>3. \A k \in 1..new_end+1 :
          (IF k = new_end + 1 THEN Quote ELSE IF k <= Len(kept) THEN kept[k] ELSE NUL)
            \in Byte \cup {NUL}
    BY <2>1, <1>5, <1>6, LenProperties DEF Byte
  <2>4. buf' \in [1..new_end+1 -> Byte \cup {NUL}] /\ new_end + 1 \in Nat
    BY <2>2, <2>3, <1>5
  <2>5. buf' \in Seq(Byte \cup {NUL}) /\ Len(buf') = new_end + 1
    BY <2>4
  <2> QED BY <2>5, <1>5, BuffSizeAssumption
<1>8. /\ cell_start' \in 0..BuffSize /\ row_start' \in 0..BuffSize
      /\ old_bytes_read' \in 0..BuffSize /\ scanned_length' \in 0..BuffSize + 1
  BY <1>1, <1>2, <1>3, <1>5, BuffSizeAssumption
<1>9. /\ partial_row_length' \in 0..BuffSize /\ cum_scanned_length' \in Nat
      /\ last' \in Byte \cup {NUL}
  <2>1. CASE room
    <3>1. PartialLen \in 0..BuffSize /\ PartialLen <= scanned_length
      BY <2>1, <1>1, <1>2, BuffSizeAssumption DEF PartialLen
    <3>2. old_bytes_read \in 1..Len(buf)
      BY <2>1, <1>1, <1>2
    <3>3. buf[old_bytes_read] \in Byte \cup {NUL}
      BY <1>1, <3>2, ElementOfSeq
    <3> QED BY <2>1, <1>1, <1>3, <3>1, <3>3
  <2>2. CASE ~room
    BY <2>2, <1>1, <1>3
  <2> QED BY <2>1, <2>2
<1>10. skip_next_delim' \in BOOLEAN /\ buffer_exceeded' \in BOOLEAN /\ pull_now' \in BOOLEAN
  BY <1>4, Zenon DEF TypeOK
<1>11. /\ doc' \in Docs /\ api' \in Apis /\ pos' \in 0..Len(doc') /\ i' \in 0..BuffSize
       /\ quoted' \subseteq Flags /\ data_row_count' \in Nat
       /\ pc' \in {"ready", "read", "scan", "row", "eof", "fixed", "closing", "done"}
  BY <1>4 DEF TypeOK
<1> QED BY <1>7, <1>8, <1>9, <1>10, <1>11 DEF TypeOK

\* The last row moves no offset.
LEMMA LastKeepsTypes ==
    ASSUME TypeOK, FinishLast
    PROVE  TypeOK'
<1>1. /\ doc' = doc /\ api' = api /\ pos' = pos /\ buf' = buf /\ i' = i
      /\ skip_next_delim' = skip_next_delim /\ cell_start' = cell_start /\ row_start' = row_start
      /\ scanned_length' = scanned_length /\ cum_scanned_length' = cum_scanned_length
      /\ partial_row_length' = partial_row_length /\ old_bytes_read' = old_bytes_read
      /\ last' = last /\ quoted' \in {quoted, {}} /\ pc' = "done" /\ pull_now' = FALSE
      /\ buffer_exceeded' \in {buffer_exceeded, FALSE}
      /\ data_row_count' \in {data_row_count, 0}
  BY DEF FinishLast, input, regs, count, RowCountAfterHandler
<1>2. skip_next_delim' \in BOOLEAN /\ buffer_exceeded' \in BOOLEAN /\ pull_now' \in BOOLEAN
  BY <1>1, Zenon DEF TypeOK
<1> QED BY <1>1, <1>2 DEF TypeOK

\* For every document, buffer size and sequence of pieces, to the end of
\* zsv_finish(): every offset and counter stays inside the buffer of BuffSize
\* bytes, also where doubled quotes are collapsed and a closing quote is put
\* behind the data, and no read exceeds the room behind the incomplete row.
THEOREM ParserHasItsTypes == Spec => []TypeOK
<1> DEFINE Typed == TypeOK /\ FixedShape
<1>1. Init => Typed
  <2>1. Init => TypeOK
    BY InitHasTypes
  <2>2. Init => FixedShape
    BY DEF Init, FixedShape
  <2> QED BY <2>1, <2>2
<1>2. ASSUME IInv, (Scanning => TypeOK)', Typed, [Next]_vars
      PROVE  Typed'
  <2>1. CASE FinishFixup
    BY <1>2, <2>1, FixupKeepsTypes
  <2>2. CASE FinishNoRoom
    BY <1>2, <2>2, NoRoomKeepsTypes DEF FixedShape, FinishNoRoom
  <2>3. CASE FinishLast
    BY <1>2, <2>3, LastKeepsTypes DEF FixedShape, FinishLast
  <2>4. CASE Done \/ UNCHANGED vars
    BY <1>2, <2>4 DEF Done, vars, input, regs, cellv, count, rowv, TypeOK, FixedShape,
                      VirtualQuoteFits
  <2>5. CASE PreParse \/ PreParseTruncate \/ (\E k \in 1..BuffSize : Read(k)) \/ ReadEof
             \/ SetInput \/ Scan \/ NextRow
    <3>1. pc' \in {"ready", "read", "scan", "row", "eof"}
      BY <2>5 DEF PreParse, PreParseTruncate, Read, ReadEof, SetInput, Scan, ScanOther,
                  ScanSkipped, ScanDelim, ScanQuotedSpecial, ScanCR, ScanCRonlyCrlf, ScanLF,
                  ScanLFofCRLF, ScanLFonlyCrlf, ScanQuoteOpen, ScanQuoteClose,
                  ScanQuoteDoubled, ScanQuotePending, ScanQuoteMidCell, EndOfChunk, NextRow,
                  AtInnerQuote, AtByte, Advance, RowEnd
    <3> QED BY <1>2, <3>1 DEF Scanning, FixedShape
  <2> QED BY <1>2, <2>1, <2>2, <2>3, <2>4, <2>5 DEF Next
<1> QED BY <1>1, <1>2, IInvHolds, TypesWhileScanning, PTL DEF Spec

\* The row count counts the rows handed over; a puller's is raised when it asks
\* for the next one.
NumbersInv ==
    /\ RowNumbersAreSequential
    /\ NoneTruncated /\ pc # "done" =>
         data_row_count = IF pc = "row" THEN Len(out) - 1 ELSE Len(out)

\* Handing over one more row keeps the numbers in order.
LEMMA DeliverKeepsNumbers ==
    ASSUME OutIsSequence, RowNumbersAreSequential, NEW d, out' = Append(out, d),
           /\ d.kind # "truncated"
           /\ \A k \in DOMAIN out : out[k].kind # "truncated"
           => d.num = Len(out)
    PROVE  /\ RowNumbersAreSequential' /\ Len(out') = Len(out) + 1
           /\ (\A k \in DOMAIN out' : out'[k].kind # "truncated")
                <=> d.kind # "truncated" /\ \A k \in DOMAIN out : out[k].kind # "truncated"
<1> USE DEF OutIsSequence
<1>1. /\ Len(out') = Len(out) + 1 /\ Len(out) \in Nat
      /\ \A k \in 1..Len(out) : out'[k] = out[k]
      /\ out'[Len(out) + 1] = d
      /\ DOMAIN out' = 1..Len(out) + 1
      /\ DOMAIN out = 1..Len(out)
  BY AppendToOut
<1>2. ASSUME NEW k \in DOMAIN out', \A j \in 1..k : out'[j].kind # "truncated"
      PROVE  out'[k].num = k - 1
  <2>1. CASE k \in 1..Len(out)
    <3>1. \A j \in 1..k : out[j].kind # "truncated"
      BY <1>1, <1>2, <2>1
    <3> QED BY <1>1, <2>1, <3>1 DEF RowNumbersAreSequential
  <2>2. CASE k = Len(out) + 1
    <3>1. d.kind # "truncated" /\ \A j \in DOMAIN out : out[j].kind # "truncated"
      BY <1>1, <1>2, <2>2
    <3> QED BY <1>1, <2>2, <3>1
  <2> QED BY <1>1, <1>2, <2>1, <2>2
<1>3. (\A k \in DOMAIN out' : out'[k].kind # "truncated")
        <=> d.kind # "truncated" /\ \A k \in DOMAIN out : out[k].kind # "truncated"
  BY <1>1
<1> QED BY <1>1, <1>2, <1>3 DEF RowNumbersAreSequential

\* A complete row gets the next number.
LEMMA RowEndKeepsNumbers ==
    ASSUME IInv, NumbersInv, pc = "scan", NEW n, RowEnd(n)
    PROVE  NumbersInv'
<1>1. OutIsSequence /\ TruncationIsRecorded /\ pc # "done" /\ pc # "row"
  BY DEF IInv, Scanning, WhileScanning
<1>2. CASE api # "pull" /\ buffer_exceeded
  <2>1. out' = out /\ ~NoneTruncated'
    BY <1>1, <1>2 DEF RowEnd, CallRowHandler, TruncationIsRecorded, NoneTruncated
  <2> QED BY <2>1 DEF NumbersInv, RowNumbersAreSequential
<1>3. CASE api # "pull" /\ ~buffer_exceeded
  <2>1. PICK d : out' = Append(out, d) /\ d.num = data_row_count /\ d.kind = "row"
    BY <1>3 DEF RowEnd, CallRowHandler, Delivered
  <2>2. data_row_count' = data_row_count + 1 /\ pc' = pc
    BY <1>3 DEF RowEnd, RowCountAfterHandler
  <2>3. (\A k \in DOMAIN out : out[k].kind # "truncated") => data_row_count = Len(out)
    BY <1>1, <1>3 DEF NumbersInv, NoneTruncated
  <2>4. RowNumbersAreSequential' /\ Len(out') = Len(out) + 1
        /\ ((\A k \in DOMAIN out' : out'[k].kind # "truncated")
              => \A k \in DOMAIN out : out[k].kind # "truncated")
    BY <1>1, <2>1, <2>3, DeliverKeepsNumbers DEF NumbersInv
  <2> QED BY <1>1, <2>2, <2>3, <2>4 DEF NumbersInv, NoneTruncated
<1>4. CASE api = "pull"
  <2>1. PICK d : /\ out' = Append(out, d) /\ d.num = data_row_count
                 /\ d.kind = IF buffer_exceeded THEN "truncated" ELSE "row"
    BY <1>4 DEF RowEnd, Delivered
  <2>2. data_row_count' = RowCountAfterHandler /\ pc' = "row"
    BY <1>4 DEF RowEnd
  <2>3. ~buffer_exceeded /\ (\A k \in DOMAIN out : out[k].kind # "truncated")
          => data_row_count = Len(out)
    BY <1>1 DEF NumbersInv, NoneTruncated
  <2>4. buffer_exceeded <=> d.kind = "truncated"
    BY <2>1
  <2>5. RowNumbersAreSequential' /\ Len(out') = Len(out) + 1
        /\ ((\A k \in DOMAIN out' : out'[k].kind # "truncated")
              <=> d.kind # "truncated" /\ \A k \in DOMAIN out : out[k].kind # "truncated")
    BY <1>1, <2>1, <2>3, <2>4, DeliverKeepsNumbers DEF NumbersInv
  <2>6. NoneTruncated' => data_row_count' = Len(out') - 1
    <3>1. ASSUME NoneTruncated' PROVE data_row_count' = data_row_count /\ data_row_count = Len(out)
      BY <3>1, <2>2, <2>3, <2>4, <2>5 DEF NoneTruncated, RowCountAfterHandler
    <3> QED BY <3>1, <2>5, <1>1 DEF OutIsSequence
  <2> QED BY <2>2, <2>5, <2>6 DEF NumbersInv
<1> QED BY <1>2, <1>3, <1>4

\* What hands over no complete row.
LEMMA OthersKeepNumbers ==
    ASSUME IInv, NumbersInv, pc # "row" \/ NextRow,
           out' = out, buffer_exceeded' = buffer_exceeded,
           data_row_count' = IF NextRow THEN data_row_count + 1 ELSE data_row_count,
           pc' # "row"
    PROVE  pc # "done" => NumbersInv'
<1>1. ASSUME NextRow PROVE pc = "row"
  BY <1>1 DEF NextRow
<1>2. Len(out) \in Nat
  BY DEF IInv, OutIsSequence
<1>3. RowNumbersAreSequential'
  BY DEF NumbersInv, RowNumbersAreSequential
<1>4. NoneTruncated' => NoneTruncated
  BY DEF NoneTruncated
<1>5. ASSUME pc # "done", NoneTruncated PROVE data_row_count' = Len(out')
  <2>1. CASE NextRow
    BY <1>1, <1>2, <1>5, <2>1 DEF NumbersInv
  <2>2. CASE ~NextRow
    BY <1>5, <2>2 DEF NumbersInv
  <2> QED BY <2>1, <2>2
<1> QED BY <1>3, <1>4, <1>5 DEF NumbersInv

\* A truncated row ends the claim.
LEMMA TruncateKeepsNumbers ==
    ASSUME IInv, NumbersInv, PreParseTruncate
    PROVE  NumbersInv'
<1>1. OutIsSequence /\ ~NoneTruncated'
  BY DEF IInv, PreParseTruncate, NoneTruncated
<1>2. CASE out' = out
  BY <1>1, <1>2 DEF NumbersInv, RowNumbersAreSequential
<1>3. CASE out' # out
  <2>1. PICK d : out' = Append(out, d) /\ d.kind = "truncated"
    BY <1>3 DEF PreParseTruncate, CallRowHandler
  <2>2. RowNumbersAreSequential'
    BY <1>1, <2>1, DeliverKeepsNumbers DEF NumbersInv
  <2> QED BY <1>1, <2>2 DEF NumbersInv
<1> QED BY <1>2, <1>3

\* The last row has the number of its place, too.
LEMMA FinishKeepsNumbers ==
    ASSUME IInv, NumbersInv, FinishFixup \/ FinishNoRoom \/ FinishLast
    PROVE  NumbersInv'
<1>1. CASE FinishFixup \/ FinishNoRoom
  BY <1>1 DEF FinishFixup, FinishNoRoom, CallsFinish, rowv, NumbersInv,
              RowNumbersAreSequential, NoneTruncated
<1>2. CASE FinishLast
  <2>1. pc' = "done" /\ pc \in {"fixed", "closing"} /\ OutIsSequence
    BY <1>2 DEF FinishLast, IInv
  <2>2. CASE out' = out
    BY <2>1, <2>2 DEF NumbersInv, RowNumbersAreSequential
  <2>3. CASE out' # out
    <3>1. PICK d : out' = Append(out, d) /\ d.num = data_row_count
      BY <1>2, <2>3 DEF FinishLast, Delivered
    <3>2. ~buffer_exceeded
      BY <1>2, <2>3 DEF FinishLast
    <3>3. (\A k \in DOMAIN out : out[k].kind # "truncated") => data_row_count = Len(out)
      BY <2>1, <3>2 DEF NumbersInv, NoneTruncated
    <3>4. RowNumbersAreSequential'
      BY <2>1, <3>1, <3>3, DeliverKeepsNumbers DEF NumbersInv
    <3> QED BY <2>1, <3>4 DEF NumbersInv
  <2> QED BY <2>2, <2>3
<1> QED BY <1>1, <1>2

\* For every document, buffer size and way of feeding: the rows handed over are
\* numbered 0, 1, 2, ... up to the first truncated one.
THEOREM RowsKeepTheirNumbers == Spec => []RowNumbersAreSequential
<1>1. Init => NumbersInv
  BY DEF Init, NumbersInv, RowNumbersAreSequential, NoneTruncated
<1>2. ASSUME IInv, NumbersInv, [Next]_vars PROVE NumbersInv'
  <2>1. CASE PreParseTruncate
    BY <1>2, <2>1, TruncateKeepsNumbers
  <2>2. CASE FinishFixup \/ FinishNoRoom \/ FinishLast
    BY <1>2, <2>2, FinishKeepsNumbers
  <2>3. CASE pc = "scan" /\ \E n : RowEnd(n)
    BY <1>2, <2>3, RowEndKeepsNumbers
  <2>4. CASE Done \/ UNCHANGED vars
    BY <1>2, <2>4 DEF Done, vars, rowv, NumbersInv, RowNumbersAreSequential, NoneTruncated
  <2>5. CASE NextRow
    <3>1. pc' # "row" /\ pc # "done" /\ out' = out /\ buffer_exceeded' = buffer_exceeded
          /\ data_row_count' = data_row_count + 1
      BY <2>5 DEF NextRow
    <3> QED BY <1>2, <2>5, <3>1, OthersKeepNumbers
  <2>6. CASE PreParse \/ (\E k \in 1..BuffSize : Read(k)) \/ ReadEof \/ SetInput
    <3>1. /\ pc \in {"ready", "read", "eof"} /\ pc' \in {"read", "scan", "eof", "ready"}
          /\ out' = out /\ buffer_exceeded' = buffer_exceeded /\ data_row_count' = data_row_count
      BY <2>6 DEF PreParse, Read, ReadEof, SetInput, rowv
    <3> QED BY <1>2, <3>1, OthersKeepNumbers DEF NextRow
  <2>7. CASE Scan /\ ~(pc = "scan" /\ \E n : RowEnd(n))
    <3>1. /\ pc = "scan" /\ pc' \in {"scan", "ready"}
          /\ out' = out /\ buffer_exceeded' = buffer_exceeded /\ data_row_count' = data_row_count
      BY <2>7 DEF Scan, ScanOther, ScanSkipped, ScanDelim, ScanQuotedSpecial, ScanCR,
                  ScanCRonlyCrlf, ScanLF, ScanLFofCRLF, ScanLFonlyCrlf, ScanQuoteOpen,
                  ScanQuoteClose, ScanQuoteDoubled, ScanQuotePending, ScanQuoteMidCell,
                  EndOfChunk, AtInnerQuote, AtByte, Advance, rowv
    <3> QED BY <1>2, <3>1, OthersKeepNumbers DEF NextRow
  <2> QED BY <1>2, <2>1, <2>2, <2>3, <2>4, <2>5, <2>6, <2>7 DEF Next
<1>3. NumbersInv => RowNumbersAreSequential
  BY DEF NumbersInv
<1> QED BY <1>1, <1>2, <1>3, IInvHolds, PTL DEF Spec

-----------------------------------------------------------------------------
(* The reading of a document, one byte at a time *)

\* The reading of a document, as an equation of its states.
RefNext(f, d, k) ==
    IF k = 0 THEN [cell |-> 0, start |-> 0, row |-> <<>>, rows |-> <<>>]
    ELSE CHOOSE t \in {RefStep(s, d, k) : s \in {f[k - 1]}} : TRUE

\* It has a solution.
LEMMA ReadingExists ==
    ASSUME NEW d, NEW n \in Nat
    PROVE  \E f : f = [k \in 0..n |-> RefNext(f, d, k)]
<1> DEFINE Upto(m) == \E f : f = [k \in 0..m |-> RefNext(f, d, k)]
           W == {m \in 0..n : Upto(m)}
<1>1. 0 \in W
  <2> DEFINE f == [k \in 0..0 |-> RefNext(<<>>, d, 0)]
  <2>1. RefNext(<<>>, d, 0) = RefNext(f, d, 0)
    BY DEF RefNext
  <2>2. \A k \in 0..0 : k = 0
    OBVIOUS
  <2>3. f = [k \in 0..0 |-> RefNext(f, d, k)]
    BY <2>1, <2>2, Zenon
  <2>4. Upto(0)
    BY <2>3
  <2> QED BY <2>4
<1>2. ASSUME NEW k \in 1..n, k - 1 \in W PROVE k \in W
  <2>1. PICK g : g = [m \in 0..(k - 1) |-> RefNext(g, d, m)]
    BY <1>2
  <2> DEFINE h == [m \in 0..k |-> IF m = k THEN RefNext(g, d, k) ELSE g[m]]
  <2>2. \A m \in 0..(k - 1) : h[m] = g[m]
    OBVIOUS
  <2>3. h = [m \in 0..k |-> IF m = k THEN RefNext(g, d, k) ELSE g[m]]
    OBVIOUS
  <2> HIDE DEF h
  <2>4. ASSUME NEW m \in 0..k PROVE RefNext(h, d, m) = RefNext(g, d, m)
    <3>1. CASE m = 0
      BY <3>1 DEF RefNext
    <3>2. CASE m # 0
      <4>1. h[m - 1] = g[m - 1]
        BY <2>2, <3>2
      <4> QED BY <4>1 DEF RefNext
    <3> QED BY <3>1, <3>2
  <2>5. \A m \in 0..(k - 1) : g[m] = RefNext(g, d, m)
    BY <2>1
  <2>6. \A m \in 0..k : (IF m = k THEN RefNext(g, d, k) ELSE g[m]) = RefNext(h, d, m)
    BY <2>4, <2>5
  <2>7. h = [m \in 0..k |-> RefNext(h, d, m)]
    BY <2>3, <2>6, Zenon
  <2>8. Upto(k)
    BY <2>7, Zenon
  <2> QED BY <2>8
<1> HIDE DEF W
<1>3. 0..n \subseteq W
  BY <1>1, <1>2, UpTo
<1> QED BY <1>3 DEF W

\* The states of the reading, one byte after the other.
LEMMA ReadingSteps ==
    ASSUME NEW d, Len(d) \in Nat
    PROVE  /\ RefStates(d)[0] = [cell |-> 0, start |-> 0, row |-> <<>>, rows |-> <<>>]
           /\ \A k \in 1..Len(d) : RefStates(d)[k] = RefStep(RefStates(d)[k - 1], d, k)
<1> DEFINE f == RefStates(d)
<1>1. f = [k \in 0..Len(d) |-> RefNext(f, d, k)]
  <2>1. PICK g : g = [k \in 0..Len(d) |-> RefNext(g, d, k)]
    BY ReadingExists
  <2>2. f = (CHOOSE h : h = [k \in 0..Len(d) |-> RefNext(h, d, k)])
    BY Zenon DEF RefStates, RefNext
  <2> QED BY <2>1, <2>2, Zenon
<1> HIDE DEF f
<1>2. f[0] = RefNext(f, d, 0)
  BY <1>1
<1>3. ASSUME NEW k \in 1..Len(d) PROVE f[k] = RefStep(f[k - 1], d, k)
  <2>1. f[k] = RefNext(f, d, k) /\ k # 0
    BY <1>1
  <2>2. {RefStep(s, d, k) : s \in {f[k - 1]}} = {RefStep(f[k - 1], d, k)}
    OBVIOUS
  <2>3. f[k] = CHOOSE t \in {RefStep(f[k - 1], d, k)} : TRUE
    BY <2>1, <2>2, Zenon DEF RefNext
  <2> QED BY <2>3
<1> QED BY <1>2, <1>3 DEF RefNext, f

\* Quotes are counted byte by byte.
LEMMA QuotesOneByOne ==
    ASSUME NEW raw
    PROVE  /\ QuotesIn(raw, 0) = 0
           /\ \A m \in Nat : /\ QuotesIn(raw, m) \in Nat
                             /\ QuotesIn(raw, m + 1)
                                  = QuotesIn(raw, m) + (IF raw[m + 1] = Quote THEN 1 ELSE 0)
<1>1. QuotesIn(raw, 0) = 0
  <2>1. {k \in 1..0 : raw[k] = Quote} = {}
    OBVIOUS
  <2> QED BY <2>1, FS_EmptySet DEF QuotesIn
<1>2. ASSUME NEW m \in Nat
      PROVE  /\ QuotesIn(raw, m) \in Nat
             /\ QuotesIn(raw, m + 1)
                  = QuotesIn(raw, m) + (IF raw[m + 1] = Quote THEN 1 ELSE 0)
  <2> DEFINE A == {k \in 1..m : raw[k] = Quote}
             B == {k \in 1..(m + 1) : raw[k] = Quote}
  <2>1. IsFiniteSet(1..m)
    BY FS_Interval
  <2>2. IsFiniteSet(A)
    BY <2>1, FS_Subset
  <2>3. Cardinality(A) \in Nat
    BY <2>2, FS_CardinalityType
  <2>4. CASE raw[m + 1] = Quote
    <3>1. B = A \cup {m + 1} /\ m + 1 \notin A
      BY <2>4
    <3> HIDE DEF A, B
    <3>2. Cardinality(B) = Cardinality(A) + 1
      BY <2>2, <3>1, FS_AddElement
    <3> QED BY <2>3, <2>4, <3>2 DEF QuotesIn, A, B
  <2>5. CASE raw[m + 1] # Quote
    <3>1. B = A
      BY <2>5
    <3> HIDE DEF A, B
    <3> QED BY <2>3, <2>5, <3>1 DEF QuotesIn, A, B
  <2> QED BY <2>4, <2>5
<1> QED BY <1>1, <1>2

\* How many of the first m bytes after c are quotes.
QuoteCount(d, c, m) == QuotesIn(SubSeq(d, c + 1, Len(d)), m)

\* The m-th byte after c closes the cell that starts there.
ClosesAt(d, c, m) ==
    /\ d[c + m] = Quote /\ QuoteCount(d, c, m) % 2 = 0
    /\ c + m < Len(d) => d[c + m + 1] # Quote

NoCloserBefore(d, c, m) == \A x \in 2..(m - 1) : ~ClosesAt(d, c, x)

\* The bytes of a cell that has been read up to p.
LEMMA CellBytes ==
    ASSUME NEW S, NEW d \in Seq(S), NEW c \in Nat, NEW p \in c..Len(d)
    PROVE  /\ SubSeq(d, c + 1, p) \in Seq(S)
           /\ Len(SubSeq(d, c + 1, p)) = p - c
           /\ \A x \in 1..(p - c) : SubSeq(d, c + 1, p)[x] = d[c + x] /\ d[c + x] \in S
<1>0. Len(d) \in Nat /\ d \in [1..Len(d) -> S]
  BY LenProperties
<1>1. \A x \in (c + 1)..p : d[x] \in S
  BY <1>0
<1>2. /\ SubSeq(d, c + 1, p) \in Seq(S)
      /\ Len(SubSeq(d, c + 1, p)) = IF c + 1 <= p THEN p - (c + 1) + 1 ELSE 0
      /\ \A x \in 1..(p - (c + 1) + 1) : SubSeq(d, c + 1, p)[x] = d[c + 1 + x - 1]
  BY <1>0, <1>1, SubSeqProperties
<1>3. \A x \in 1..(p - c) : /\ c + 1 + x - 1 = c + x
                           /\ x \in 1..(p - (c + 1) + 1) /\ c + x \in 1..Len(d)
  BY <1>0
<1> QED BY <1>0, <1>2, <1>3

\* Quotes of a cell are counted byte by byte, whatever follows the cell.
LEMMA QuoteCounts ==
    ASSUME NEW S, NEW d \in Seq(S), NEW c \in Nat, c <= Len(d)
    PROVE  /\ QuoteCount(d, c, 0) = 0
           /\ \A m \in Nat : QuoteCount(d, c, m) \in Nat
           /\ \A m \in Nat : c + m + 1 <= Len(d) =>
                QuoteCount(d, c, m + 1)
                  = QuoteCount(d, c, m) + (IF d[c + m + 1] = Quote THEN 1 ELSE 0)
           /\ \A p \in c..Len(d) : \A m \in 0..(p - c) :
                QuotesIn(SubSeq(d, c + 1, p), m) = QuoteCount(d, c, m)
<1>0. Len(d) \in Nat /\ Len(d) \in c..Len(d)
  BY LenProperties
<1> DEFINE raw == SubSeq(d, c + 1, Len(d))
<1>1. \A x \in 1..(Len(d) - c) : raw[x] = d[c + x]
  BY <1>0, CellBytes
<1>2. /\ QuotesIn(raw, 0) = 0
      /\ \A m \in Nat : /\ QuotesIn(raw, m) \in Nat
                        /\ QuotesIn(raw, m + 1)
                             = QuotesIn(raw, m) + (IF raw[m + 1] = Quote THEN 1 ELSE 0)
  BY QuotesOneByOne
<1>3. ASSUME NEW m \in Nat, c + m + 1 <= Len(d)
      PROVE  raw[m + 1] = d[c + m + 1]
  BY <1>0, <1>1, <1>3
<1>4. ASSUME NEW p \in c..Len(d), NEW m \in 0..(p - c)
      PROVE  QuotesIn(SubSeq(d, c + 1, p), m) = QuotesIn(raw, m)
  <2>1. \A x \in 1..m : SubSeq(d, c + 1, p)[x] = d[c + x]
    BY <1>0, CellBytes
  <2>2. \A x \in 1..m : raw[x] = d[c + x]
    BY <1>0, <1>1
  <2> HIDE DEF raw
  <2>3. {k \in 1..m : SubSeq(d, c + 1, p)[k] = Quote} = {k \in 1..m : raw[k] = Quote}
    BY <2>1, <2>2
  <2> QED BY <2>3 DEF QuotesIn
<1> HIDE DEF raw
<1>5. \A m \in Nat : QuoteCount(d, c, m) = QuotesIn(raw, m)
  BY DEF QuoteCount, raw
<1>6. QuoteCount(d, c, 0) = 0 /\ \A m \in Nat : QuoteCount(d, c, m) \in Nat
  BY <1>2, <1>5
<1>7. ASSUME NEW m \in Nat, c + m + 1 <= Len(d)
      PROVE  QuoteCount(d, c, m + 1)
               = QuoteCount(d, c, m) + (IF d[c + m + 1] = Quote THEN 1 ELSE 0)
  <2>1. m + 1 \in Nat
    OBVIOUS
  <2>2. raw[m + 1] = d[c + m + 1]
    BY <1>3, <1>7
  <2>3. QuotesIn(raw, m + 1) = QuotesIn(raw, m) + (IF raw[m + 1] = Quote THEN 1 ELSE 0)
    BY <1>2
  <2> QED BY <1>5, <2>1, <2>2, <2>3, Zenon
<1>8. ASSUME NEW p \in c..Len(d), NEW m \in 0..(p - c)
      PROVE  QuotesIn(SubSeq(d, c + 1, p), m) = QuoteCount(d, c, m)
  <2>1. m \in Nat
    BY <1>0
  <2> QED BY <1>4, <1>5, <2>1
<1> QED BY <1>6, <1>7, <1>8

\* A cell that has been read up to p is closed by the quotes that close it in
\* the document, and by a quote at p.
LEMMA ClosersOfCell ==
    ASSUME NEW S, NEW d \in Seq(S), NEW c \in Nat, NEW p \in c..Len(d)
    PROVE  Closers(SubSeq(d, c + 1, p)) =
             {x \in 2..(p - c) : /\ d[c + x] = Quote /\ QuoteCount(d, c, x) % 2 = 0
                                 /\ x = p - c \/ d[c + x + 1] # Quote}
<1> DEFINE raw == SubSeq(d, c + 1, p)
<1>1. Len(raw) = p - c /\ \A x \in 1..(p - c) : raw[x] = d[c + x]
  BY CellBytes
<1>2. \A m \in 0..(p - c) : QuotesIn(raw, m) = QuoteCount(d, c, m)
  <2>1. c <= Len(d)
    BY LenProperties
  <2> QED BY <2>1, QuoteCounts
<1> HIDE DEF raw
<1>3. p - c \in Nat /\ c \in Int /\ p \in Int
  BY LenProperties
<1>4. Closers(raw) = {x \in 2..(p - c) : /\ raw[x] = Quote /\ QuotesIn(raw, x) % 2 = 0
                                         /\ x = p - c \/ raw[x + 1] # Quote}
  BY <1>1 DEF Closers
<1>5. ASSUME NEW x \in 2..(p - c)
      PROVE  /\ raw[x] = d[c + x] /\ QuotesIn(raw, x) = QuoteCount(d, c, x)
             /\ x # p - c => raw[x + 1] = d[c + x + 1]
  <2>1. x \in 1..(p - c) /\ x \in 0..(p - c) /\ (x # p - c => x + 1 \in 1..(p - c))
    BY <1>3
  <2>2. c + (x + 1) = c + x + 1
    BY <1>3
  <2> QED BY <1>1, <1>2, <2>1, <2>2
<1> QED BY <1>4, <1>5 DEF raw

\* When such a cell is open.
LEMMA OpenOfCell ==
    ASSUME NEW S, NEW d \in Seq(S), NEW c \in Nat, NEW p \in c..Len(d)
    PROVE  OpenCell(SubSeq(d, c + 1, p)) <=>
             /\ p > c /\ d[c + 1] = Quote
             /\ \A x \in 2..(p - c) : ~(/\ d[c + x] = Quote /\ QuoteCount(d, c, x) % 2 = 0
                                        /\ x = p - c \/ d[c + x + 1] # Quote)
<1> DEFINE raw == SubSeq(d, c + 1, p)
<1>1. Len(raw) = p - c /\ raw \in Seq(S) /\ \A x \in 1..(p - c) : raw[x] = d[c + x]
  BY CellBytes
<1>2. Closers(raw) =
        {x \in 2..(p - c) : /\ d[c + x] = Quote /\ QuoteCount(d, c, x) % 2 = 0
                            /\ x = p - c \/ d[c + x + 1] # Quote}
  BY ClosersOfCell
<1> HIDE DEF raw
<1>3. p - c \in Nat /\ c \in Int /\ p \in Int
  BY LenProperties
<1>4. raw # <<>> <=> p > c
  BY <1>1, <1>3, EmptySeq
<1>5. p > c => raw[1] = d[c + 1]
  BY <1>1, <1>3
<1> QED BY <1>2, <1>4, <1>5 DEF OpenCell, raw

\* What a state of the reading is made of.
IsReading(s, k) ==
    /\ s = [cell |-> s.cell, start |-> s.start, row |-> s.row, rows |-> s.rows]
    /\ s.cell \in 0..k /\ s.start \in 0..s.cell
    /\ IsSequence(s.row) /\ Len(s.row) <= MaxCols /\ IsSequence(s.rows)
    /\ s.start = s.cell => s.row = <<>>

ReadsOpen(s, d, k) == OpenCell(SubSeq(d, s.cell + 1, k - 1))
AfterCr(d, k) == k > 1 /\ d[k - 1] = CR
RowEnded(s, d, k, to) ==
    [cell |-> k, start |-> k, row |-> <<>>,
     rows |-> Append(s.rows, [cells |-> RefAddCell(s, d, to), start |-> s.start, at |-> k - 1])]

\* A step of the reading, by the byte that is read.
LEMMA ReadingByByte ==
    ASSUME NEW d, NEW k, NEW s,
           s = [cell |-> s.cell, start |-> s.start, row |-> s.row, rows |-> s.rows]
    PROVE  /\ ~ReadsOpen(s, d, k) /\ d[k] = Delim =>
                RefStep(s, d, k) = [cell |-> k, start |-> s.start,
                                    row |-> RefAddCell(s, d, k - 1), rows |-> s.rows]
           /\ ~ReadsOpen(s, d, k) /\ d[k] = LF /\ OnlyCrlf /\ AfterCr(d, k) =>
                RefStep(s, d, k) = RowEnded(s, d, k, k - 2)
           /\ ~ReadsOpen(s, d, k) /\ d[k] = LF /\ ~OnlyCrlf /\ AfterCr(d, k) =>
                RefStep(s, d, k) = [cell |-> k, start |-> k, row |-> s.row, rows |-> s.rows]
           /\ ~ReadsOpen(s, d, k) /\ ~OnlyCrlf /\ (d[k] = CR \/ (d[k] = LF /\ ~AfterCr(d, k))) =>
                RefStep(s, d, k) = RowEnded(s, d, k, k - 1)
           /\ \/ ReadsOpen(s, d, k)
              \/ d[k] \notin {Delim, LF, CR}
              \/ OnlyCrlf /\ (d[k] = CR \/ (d[k] = LF /\ ~AfterCr(d, k)))
              => RefStep(s, d, k) = s
<1> DEFINE open == ReadsOpen(s, d, k)
           crlf == AfterCr(d, k)
<1>0. Delim # LF /\ Delim # CR /\ LF # CR
  BY DEF Delim, LF, CR
<1>1. /\ [s EXCEPT !.cell = k, !.row = RefAddCell(s, d, k - 1)]
           = [cell |-> k, start |-> s.start, row |-> RefAddCell(s, d, k - 1), rows |-> s.rows]
      /\ [s EXCEPT !.cell = k, !.start = k]
           = [cell |-> k, start |-> k, row |-> s.row, rows |-> s.rows]
  <2> DEFINE v == RefAddCell(s, d, k - 1)
             x == [s EXCEPT !.cell = k, !.row = v]
             y == [s EXCEPT !.cell = k, !.start = k]
             names == {"cell", "start", "row", "rows"}
  <2>1. PICK a, b, c, e : s = [cell |-> a, start |-> b, row |-> c, rows |-> e]
    OBVIOUS
  <2> HIDE DEF v
  <2>2. s.start = b /\ s.row = c /\ s.rows = e
    BY <2>1
  <2>3. x = [f \in names |-> IF f = "row" THEN v ELSE IF f = "cell" THEN k ELSE s[f]]
    BY <2>1
  <2>4. y = [f \in names |-> IF f = "start" THEN k ELSE IF f = "cell" THEN k ELSE s[f]]
    BY <2>1
  <2>5. x.cell = k /\ x.row = v /\ x.start = b /\ x.rows = e
    BY <2>1, <2>3
  <2>6. y.cell = k /\ y.row = c /\ y.start = k /\ y.rows = e
    BY <2>1, <2>4
  <2>7. x = [cell |-> k, start |-> b, row |-> v, rows |-> e]
    BY <2>3, <2>5
  <2>8. y = [cell |-> k, start |-> k, row |-> c, rows |-> e]
    BY <2>4, <2>6
  <2>9. /\ x = [cell |-> k, start |-> s.start, row |-> v, rows |-> s.rows]
        /\ y = [cell |-> k, start |-> k, row |-> s.row, rows |-> s.rows]
    BY <2>2, <2>7, <2>8
  <2> QED BY <2>9 DEF v
<1>2. RefStep(s, d, k) =
        CASE ~open /\ d[k] = Delim -> [s EXCEPT !.cell = k, !.row = RefAddCell(s, d, k - 1)]
          [] ~open /\ d[k] = LF /\ OnlyCrlf /\ crlf -> RowEnded(s, d, k, k - 2)
          [] ~open /\ d[k] = LF /\ ~OnlyCrlf /\ crlf -> [s EXCEPT !.cell = k, !.start = k]
          [] ~open /\ ~OnlyCrlf /\ (d[k] = CR \/ (d[k] = LF /\ ~crlf)) -> RowEnded(s, d, k, k - 1)
          [] OTHER -> s
  BY Zenon DEF RefStep, ReadsOpen, AfterCr, RowEnded
<1> HIDE DEF open, crlf
<1>3. ~open /\ d[k] = Delim =>
        RefStep(s, d, k) = [s EXCEPT !.cell = k, !.row = RefAddCell(s, d, k - 1)]
  BY <1>0, <1>2
<1>4. ~open /\ d[k] = LF /\ OnlyCrlf /\ crlf => RefStep(s, d, k) = RowEnded(s, d, k, k - 2)
  BY <1>0, <1>2
<1>5. ~open /\ d[k] = LF /\ ~OnlyCrlf /\ crlf =>
        RefStep(s, d, k) = [s EXCEPT !.cell = k, !.start = k]
  BY <1>0, <1>2
<1>6. ~open /\ ~OnlyCrlf /\ (d[k] = CR \/ (d[k] = LF /\ ~crlf)) =>
        RefStep(s, d, k) = RowEnded(s, d, k, k - 1)
  BY <1>0, <1>2
<1>7. \/ open
      \/ d[k] \notin {Delim, LF, CR}
      \/ OnlyCrlf /\ (d[k] = CR \/ (d[k] = LF /\ ~crlf))
      => RefStep(s, d, k) = s
  BY <1>0, <1>2
<1> QED BY <1>1, <1>3, <1>4, <1>5, <1>6, <1>7 DEF open, crlf

\* A row takes another cell unless it is full.
LEMMA CellAdded ==
    ASSUME NEW s, NEW d, NEW to, IsSequence(s.row), Len(s.row) <= MaxCols, MaxCols \in Nat \ {0}
    PROVE  /\ IsSequence(RefAddCell(s, d, to)) /\ Len(s.row) \in Nat
           /\ Len(RefAddCell(s, d, to)) =
                IF Len(s.row) < MaxCols THEN Len(s.row) + 1 ELSE Len(s.row)
           /\ Len(RefAddCell(s, d, to)) \in 1..MaxCols
<1> DEFINE v == RefValue(SubSeq(d, s.cell + 1, to))
<1>1. /\ IsSequence(Append(s.row, v)) /\ Len(Append(s.row, v)) = Len(s.row) + 1
      /\ Len(s.row) \in Nat
  BY AppendIsSequence
<1>2. RefAddCell(s, d, to) = IF Len(s.row) < MaxCols THEN Append(s.row, v) ELSE s.row
  BY DEF RefAddCell
<1> HIDE DEF v
<1> QED BY <1>1, <1>2

\* The reading keeps its shape; a byte after a CR that ended a row finds the row
\* empty.
LEMMA ReadingKeepsShape ==
    ASSUME NEW d, NEW k \in Nat \ {0}, NEW s, IsReading(s, k - 1), MaxCols \in Nat \ {0},
           ~ReadsOpen(s, d, k) /\ d[k] = LF /\ ~OnlyCrlf /\ AfterCr(d, k) => s.row = <<>>
    PROVE  IsReading(RefStep(s, d, k), k)
<1> DEFINE t == RefStep(s, d, k)
<1>1. /\ s = [cell |-> s.cell, start |-> s.start, row |-> s.row, rows |-> s.rows]
      /\ s.cell \in 0..(k - 1) /\ s.start \in 0..s.cell
      /\ IsSequence(s.row) /\ Len(s.row) <= MaxCols /\ IsSequence(s.rows)
      /\ s.start = s.cell => s.row = <<>>
  BY DEF IsReading
<1>2. ASSUME NEW to PROVE IsReading(RowEnded(s, d, k, to), k)
  <2>1. IsSequence(Append(s.rows, [cells |-> RefAddCell(s, d, to), start |-> s.start,
                                   at |-> k - 1]))
    BY <1>1, AppendIsSequence
  <2>2. Len(<<>>) = 0
    OBVIOUS
  <2> QED BY <1>1, <2>1, <2>2, EmptyIsSequence DEF IsReading, RowEnded
<1>3. IsReading([cell |-> k, start |-> s.start, row |-> RefAddCell(s, d, k - 1),
                 rows |-> s.rows], k)
  <2>1. IsSequence(RefAddCell(s, d, k - 1)) /\ Len(RefAddCell(s, d, k - 1)) <= MaxCols
    BY <1>1, CellAdded
  <2> QED BY <1>1, <2>1 DEF IsReading
<1>4. s.row = <<>> =>
        IsReading([cell |-> k, start |-> k, row |-> s.row, rows |-> s.rows], k)
  BY <1>1 DEF IsReading
<1>5. IsReading(s, k)
  <2>1. s.cell \in 0..k
    BY <1>1
  <2> QED BY <1>1, <2>1 DEF IsReading
<1>6. \/ ~ReadsOpen(s, d, k) /\ d[k] = Delim
      \/ ~ReadsOpen(s, d, k) /\ d[k] = LF /\ OnlyCrlf /\ AfterCr(d, k)
      \/ ~ReadsOpen(s, d, k) /\ d[k] = LF /\ ~OnlyCrlf /\ AfterCr(d, k)
      \/ ~ReadsOpen(s, d, k) /\ ~OnlyCrlf /\ (d[k] = CR \/ (d[k] = LF /\ ~AfterCr(d, k)))
      \/ \/ ReadsOpen(s, d, k)
         \/ d[k] \notin {Delim, LF, CR}
         \/ OnlyCrlf /\ (d[k] = CR \/ (d[k] = LF /\ ~AfterCr(d, k)))
  OBVIOUS
<1> QED BY <1>1, <1>2, <1>3, <1>4, <1>5, <1>6, ReadingByByte

\* Where a CR has been read outside quotes a row has just ended.
RowStartsAfterCr(d, s, k) ==
    k > 0 /\ d[k] = CR /\ ~OnlyCrlf /\ ~OpenCell(SubSeq(d, s.cell + 1, k)) => s.start = k

\* Every state of the reading has its shape.
LEMMA ReadingShape ==
    ASSUME NEW S, NEW d \in Seq(S), MaxCols \in Nat \ {0}
    PROVE  \A k \in 0..Len(d) : /\ IsReading(RefStates(d)[k], k)
                                /\ RowStartsAfterCr(d, RefStates(d)[k], k)
<1> DEFINE W == {k \in 0..Len(d) : /\ IsReading(RefStates(d)[k], k)
                                   /\ RowStartsAfterCr(d, RefStates(d)[k], k)}
<1>0. Len(d) \in Nat
  BY LenProperties
<1>1. 0 \in W
  <2>1. RefStates(d)[0] = [cell |-> 0, start |-> 0, row |-> <<>>, rows |-> <<>>]
    BY <1>0, ReadingSteps
  <2>2. Len(<<>>) = 0 /\ IsSequence(<<>>)
    BY EmptyIsSequence
  <2>3. IsReading(RefStates(d)[0], 0)
    BY <2>1, <2>2 DEF IsReading
  <2>4. RowStartsAfterCr(d, RefStates(d)[0], 0)
    BY DEF RowStartsAfterCr
  <2> QED BY <1>0, <2>3, <2>4
<1>2. ASSUME NEW k \in 1..Len(d), k - 1 \in W PROVE k \in W
  <2> DEFINE s == RefStates(d)[k - 1]
             t == RefStates(d)[k]
  <2>1. t = RefStep(s, d, k)
    BY <1>0, ReadingSteps
  <2>2. IsReading(s, k - 1) /\ RowStartsAfterCr(d, s, k - 1)
    BY <1>2
  <2> HIDE DEF s, t
  <2>3. /\ s = [cell |-> s.cell, start |-> s.start, row |-> s.row, rows |-> s.rows]
        /\ s.cell \in 0..(k - 1) /\ s.start \in 0..s.cell
        /\ s.start = s.cell => s.row = <<>>
    BY <2>2 DEF IsReading
  <2>4. ~ReadsOpen(s, d, k) /\ d[k] = LF /\ ~OnlyCrlf /\ AfterCr(d, k) => s.row = <<>>
    <3> SUFFICES ASSUME ~ReadsOpen(s, d, k), ~OnlyCrlf, AfterCr(d, k) PROVE s.row = <<>>
      OBVIOUS
    <3>1. s.start = k - 1
      BY <2>2 DEF RowStartsAfterCr, ReadsOpen, AfterCr
    <3> QED BY <2>3, <3>1
  <2>5. k \in Nat \ {0}
    OBVIOUS
  <2>6. IsReading(t, k)
    BY <2>1, <2>2, <2>4, <2>5, ReadingKeepsShape
  <2>7. RowStartsAfterCr(d, t, k)
    <3> SUFFICES ASSUME d[k] = CR, ~OnlyCrlf, ~OpenCell(SubSeq(d, t.cell + 1, k))
                 PROVE  t.start = k
      BY DEF RowStartsAfterCr
    <3>1. CASE ReadsOpen(s, d, k)
      <4>1. t = s
        BY <2>1, <2>3, <3>1, ReadingByByte
      <4> DEFINE c == s.cell
      <4>2. c \in Nat /\ k - 1 \in c..Len(d) /\ k \in c..Len(d) /\ (k - 1) - c \in Nat
        BY <1>0, <2>3
      <4> HIDE DEF c
      <4>3. /\ k - 1 > c /\ d[c + 1] = Quote
            /\ \A x \in 2..((k - 1) - c) :
                 ~(/\ d[c + x] = Quote /\ QuoteCount(d, c, x) % 2 = 0
                   /\ x = (k - 1) - c \/ d[c + x + 1] # Quote)
        BY <3>1, <4>2, OpenOfCell DEF ReadsOpen, c
      <4>4. ASSUME NEW x \in 2..(k - c), d[c + x] = Quote, QuoteCount(d, c, x) % 2 = 0,
                   x = k - c \/ d[c + x + 1] # Quote
            PROVE  FALSE
        <5>1. CASE x = k - c
          <6>1. d[k] = Quote
            BY <4>2, <4>4, <5>1
          <6> QED BY <6>1 DEF CR, Quote
        <5>2. CASE x # k - c
          <6>1. x \in 2..((k - 1) - c)
            BY <4>2, <5>2
          <6>2. d[c + x + 1] # Quote
            BY <4>4, <5>2
          <6> QED BY <4>3, <4>4, <6>1, <6>2
        <5> QED BY <5>1, <5>2
      <4>5. OpenCell(SubSeq(d, c + 1, k))
        <5>1. k > c
          BY <4>2, <4>3
        <5>2. \A x \in 2..(k - c) : ~(/\ d[c + x] = Quote /\ QuoteCount(d, c, x) % 2 = 0
                                      /\ x = k - c \/ d[c + x + 1] # Quote)
          BY <4>4
        <5> QED BY <4>2, <4>3, <5>1, <5>2, OpenOfCell
      <4> QED BY <4>1, <4>5 DEF c
    <3>2. CASE ~ReadsOpen(s, d, k)
      <4>1. t = RowEnded(s, d, k, k - 1)
        BY <2>1, <2>3, <3>2, ReadingByByte
      <4> QED BY <4>1 DEF RowEnded
    <3> QED BY <3>1, <3>2
  <2> QED BY <2>6, <2>7 DEF t
<1> HIDE DEF W
<1>3. 0..Len(d) \subseteq W
  BY <1>0, <1>1, <1>2, UpTo
<1> QED BY <1>3 DEF W

\* A step of the reading adds at most one row, at the end.
LEMMA ReadingAddsARow ==
    ASSUME NEW d, NEW k \in Nat \ {0}, NEW s, IsReading(s, k - 1)
    PROVE  LET t == RefStep(s, d, k) IN
           \/ t.rows = s.rows
           \/ \E cells : t.rows = Append(s.rows, [cells |-> cells, start |-> s.start, at |-> k - 1])
<1>1. s = [cell |-> s.cell, start |-> s.start, row |-> s.row, rows |-> s.rows]
  BY DEF IsReading
<1>2. ASSUME NEW to
      PROVE  RowEnded(s, d, k, to).rows
               = Append(s.rows, [cells |-> RefAddCell(s, d, to), start |-> s.start, at |-> k - 1])
  BY DEF RowEnded
<1>3. \/ ~ReadsOpen(s, d, k) /\ d[k] = Delim
      \/ ~ReadsOpen(s, d, k) /\ d[k] = LF /\ OnlyCrlf /\ AfterCr(d, k)
      \/ ~ReadsOpen(s, d, k) /\ d[k] = LF /\ ~OnlyCrlf /\ AfterCr(d, k)
      \/ ~ReadsOpen(s, d, k) /\ ~OnlyCrlf /\ (d[k] = CR \/ (d[k] = LF /\ ~AfterCr(d, k)))
      \/ \/ ReadsOpen(s, d, k)
         \/ d[k] \notin {Delim, LF, CR}
         \/ OnlyCrlf /\ (d[k] = CR \/ (d[k] = LF /\ ~AfterCr(d, k)))
  OBVIOUS
<1>4. \/ RefStep(s, d, k).rows = s.rows
      \/ RefStep(s, d, k) = RowEnded(s, d, k, k - 2)
      \/ RefStep(s, d, k) = RowEnded(s, d, k, k - 1)
  BY <1>1, <1>3, ReadingByByte
<1> QED BY <1>2, <1>4

\* The rows that have been read stay.
LEMMA RowsStay ==
    ASSUME NEW S, NEW d \in Seq(S), MaxCols \in Nat \ {0}, NEW k \in 0..Len(d)
    PROVE  \A n \in k..Len(d) :
             LET a == RefStates(d)[k].rows
                 b == RefStates(d)[n].rows
             IN  /\ IsSequence(b) /\ Len(a) \in Nat /\ Len(b) \in Nat /\ Len(a) <= Len(b)
                 /\ \A j \in 1..Len(a) : b[j] = a[j]
<1> DEFINE a == RefStates(d)[k].rows
           b(n) == RefStates(d)[n].rows
           P(n) == Len(a) <= Len(b(n)) /\ \A j \in 1..Len(a) : b(n)[j] = a[j]
           W == {m \in 0..(Len(d) - k) : P(k + m)}
<1>0. Len(d) \in Nat /\ Len(d) - k \in Nat
  BY LenProperties
<1>1. \A n \in 0..Len(d) : IsReading(RefStates(d)[n], n)
  BY ReadingShape
<1>2. \A n \in 0..Len(d) : IsSequence(b(n)) /\ Len(b(n)) \in Nat
  <2>1. \A n \in 0..Len(d) : IsSequence(b(n))
    BY <1>1 DEF IsReading
  <2> QED BY <2>1, AppendIsSequence
<1>3. 0 \in W
  BY <1>0, <1>2
<1>4. ASSUME NEW m \in 1..(Len(d) - k), m - 1 \in W PROVE m \in W
  <2> DEFINE n == k + m
             s == RefStates(d)[n - 1]
  <2>1. n \in 1..Len(d) /\ n \in Nat \ {0} /\ n - 1 \in 0..Len(d) /\ k + (m - 1) = n - 1
    BY <1>0
  <2>2. P(n - 1)
    BY <1>4, <2>1
  <2> HIDE DEF n
  <2>3. RefStates(d)[n] = RefStep(s, d, n) /\ IsReading(s, n - 1)
    BY <1>0, <1>1, <2>1, ReadingSteps
  <2>4. b(n - 1) = s.rows
    OBVIOUS
  <2> HIDE DEF s
  <2>5. \/ b(n) = s.rows
        \/ \E x : b(n) = Append(s.rows, x)
    <3>1. \/ RefStep(s, d, n).rows = s.rows
          \/ \E cells : RefStep(s, d, n).rows
                = Append(s.rows, [cells |-> cells, start |-> s.start, at |-> n - 1])
      BY <2>1, <2>3, ReadingAddsARow
    <3>2. b(n) = RefStep(s, d, n).rows
      BY <2>3
    <3> HIDE DEF b
    <3> QED BY <3>1, <3>2, Zenon
  <2>6. IsSequence(s.rows)
    BY <1>2, <2>1, <2>4
  <2>7. \/ b(n) = s.rows
        \/ Len(b(n)) = Len(s.rows) + 1 /\ \A j \in DOMAIN s.rows : b(n)[j] = s.rows[j]
    BY <2>5, <2>6, AppendIsSequence
  <2>8. DOMAIN s.rows = 1..Len(s.rows) /\ Len(s.rows) \in Nat
    BY <2>6, AppendIsSequence
  <2>9. Len(a) \in Nat
    BY <1>2
  <2>10. P(n)
    <3> HIDE DEF a, b
    <3>1. Len(a) <= Len(s.rows) /\ \A j \in 1..Len(a) : s.rows[j] = a[j]
      BY <2>2, <2>4
    <3>2. \A j \in 1..Len(a) : j \in DOMAIN s.rows
      BY <2>8, <2>9, <3>1
    <3> QED BY <2>7, <2>8, <2>9, <3>1, <3>2
  <2> QED BY <1>0, <2>10 DEF n
<1> HIDE DEF W
<1>5. 0..(Len(d) - k) \subseteq W
  BY <1>0, <1>3, <1>4, UpTo
<1>6. ASSUME NEW n \in k..Len(d) PROVE P(n)
  <2>1. n - k \in W /\ k + (n - k) = n
    BY <1>0, <1>5
  <2> QED BY <2>1 DEF W
<1>7. \A n \in k..Len(d) : n \in 0..Len(d)
  BY <1>0
<1> QED BY <1>2, <1>6, <1>7

\* The rows of a document: those that a row end completes, and what is left.
LEMMA RowsOfDocument ==
    ASSUME NEW S, NEW d \in Seq(S), MaxCols \in Nat \ {0}
    PROVE  LET e == RefStates(d)[Len(d)] IN
           /\ IsReading(e, Len(d)) /\ IsSequence(RefRows(d)) /\ Len(e.rows) \in Nat
           /\ e.start = Len(d) => RefRows(d) = e.rows
           /\ e.start # Len(d) =>
                /\ Len(RefRows(d)) = Len(e.rows) + 1
                /\ \A j \in 1..Len(e.rows) : RefRows(d)[j] = e.rows[j]
                /\ RefRows(d)[Len(e.rows) + 1]
                     = [cells |-> RefAddCell(e, d, Len(d)), start |-> e.start, at |-> Len(d)]
<1> DEFINE e == RefStates(d)[Len(d)]
           x == [cells |-> RefAddCell(e, d, Len(d)), start |-> e.start, at |-> Len(d)]
<1>1. Len(d) \in 0..Len(d)
  BY LenProperties
<1>2. IsReading(e, Len(d))
  BY <1>1, ReadingShape
<1>3. RefRows(d) = IF e.start = Len(d) THEN e.rows ELSE Append(e.rows, x)
  BY DEF RefRows, RefState
<1> HIDE DEF e, x
<1>4. IsSequence(e.rows)
  BY <1>2 DEF IsReading
<1>5. /\ IsSequence(Append(e.rows, x)) /\ Len(Append(e.rows, x)) = Len(e.rows) + 1
      /\ Append(e.rows, x)[Len(e.rows) + 1] = x
      /\ \A j \in DOMAIN e.rows : Append(e.rows, x)[j] = e.rows[j]
      /\ DOMAIN e.rows = 1..Len(e.rows) /\ Len(e.rows) \in Nat
  BY <1>4, AppendIsSequence
<1>6. e.start # Len(d) =>
        /\ Len(RefRows(d)) = Len(e.rows) + 1
        /\ \A j \in 1..Len(e.rows) : RefRows(d)[j] = e.rows[j]
        /\ RefRows(d)[Len(e.rows) + 1] = x
  BY <1>3, <1>5
<1>7. IsSequence(RefRows(d))
  BY <1>3, <1>4, <1>5
<1> QED BY <1>2, <1>3, <1>5, <1>6, <1>7 DEF e, x

\* The rows that have been read are the first of the document.
LEMMA RowsReadAreTheDocuments ==
    ASSUME NEW S, NEW d \in Seq(S), MaxCols \in Nat \ {0}, NEW k \in 0..Len(d)
    PROVE  LET a == RefStates(d)[k].rows IN
           /\ Len(a) \in Nat /\ Len(RefRows(d)) \in Nat /\ Len(a) <= Len(RefRows(d))
           /\ DOMAIN RefRows(d) = 1..Len(RefRows(d))
           /\ \A j \in 1..Len(a) : RefRows(d)[j] = a[j]
<1> DEFINE a == RefStates(d)[k].rows
           b == RefStates(d)[Len(d)].rows
<1>0. Len(d) \in Nat /\ Len(d) \in k..Len(d)
  BY LenProperties
<1>1. Len(a) \in Nat /\ Len(b) \in Nat /\ Len(a) <= Len(b) /\ \A j \in 1..Len(a) : b[j] = a[j]
  BY <1>0, RowsStay
<1>2. /\ IsSequence(RefRows(d))
      /\ \/ RefRows(d) = b
         \/ Len(RefRows(d)) = Len(b) + 1 /\ \A j \in 1..Len(b) : RefRows(d)[j] = b[j]
  BY RowsOfDocument
<1>3. DOMAIN RefRows(d) = 1..Len(RefRows(d)) /\ Len(RefRows(d)) \in Nat
  BY <1>2, AppendIsSequence
<1> HIDE DEF a, b
<1>4. Len(a) <= Len(RefRows(d)) /\ \A j \in 1..Len(a) : RefRows(d)[j] = a[j]
  BY <1>1, <1>2
<1> QED BY <1>1, <1>3, <1>4 DEF a

\* A row of which some bytes have been read is one of the document's, and ends
\* no sooner.
LEMMA RowContinues ==
    ASSUME NEW S, NEW d \in Seq(S), MaxCols \in Nat \ {0}, NEW k \in 0..Len(d),
           RefStates(d)[k].start < k
    PROVE  \E j \in DOMAIN RefRows(d) :
             /\ RefRows(d)[j].start = RefStates(d)[k].start
             /\ RefRows(d)[j].at \in k..Len(d)
<1> DEFINE r == RefStates(d)[k].start
           Ended(n) == \E j \in DOMAIN RefStates(d)[n].rows :
                         /\ RefStates(d)[n].rows[j].start = r
                         /\ RefStates(d)[n].rows[j].at \in k..Len(d)
           P(n) == RefStates(d)[n].start = r \/ Ended(n)
           W == {m \in 0..(Len(d) - k) : P(k + m)}
<1>0. Len(d) \in Nat /\ Len(d) - k \in Nat
  BY LenProperties
<1>1. \A n \in 0..Len(d) : /\ IsReading(RefStates(d)[n], n)
                           /\ RowStartsAfterCr(d, RefStates(d)[n], n)
  BY ReadingShape
<1>2. 0 \in W
  BY <1>0
<1>3. ASSUME NEW m \in 1..(Len(d) - k), m - 1 \in W PROVE m \in W
  <2> DEFINE n == k + m
             s == RefStates(d)[n - 1]
             t == RefStates(d)[n]
  <2>1. n \in 1..Len(d) /\ n \in Nat \ {0} /\ n - 1 \in 0..Len(d) /\ k + (m - 1) = n - 1
        /\ n - 1 \in k..Len(d)
    BY <1>0
  <2>2. P(n - 1)
    BY <1>3, <2>1
  <2>3. t = RefStep(s, d, n) /\ IsReading(s, n - 1) /\ RowStartsAfterCr(d, s, n - 1)
    BY <1>0, <1>1, <2>1, ReadingSteps
  <2>4. IsSequence(s.rows) /\ DOMAIN s.rows = 1..Len(s.rows) /\ Len(s.rows) \in Nat
        /\ s = [cell |-> s.cell, start |-> s.start, row |-> s.row, rows |-> s.rows]
        /\ s.start \in Nat
    <3>1. IsSequence(s.rows) /\ s.start \in 0..s.cell /\ s.cell \in 0..(n - 1)
          /\ s = [cell |-> s.cell, start |-> s.start, row |-> s.row, rows |-> s.rows]
      BY <2>3 DEF IsReading
    <3> QED BY <3>1, AppendIsSequence
  <2>5. CASE Ended(n - 1)
    <3>1. PICK j \in DOMAIN s.rows : s.rows[j].start = r /\ s.rows[j].at \in k..Len(d)
      BY <2>5
    <3>2. \/ t.rows = s.rows
          \/ \E x : t.rows = Append(s.rows, x)
      <4> HIDE DEF s, t, n
      <4>1. \/ RefStep(s, d, n).rows = s.rows
            \/ \E cells : RefStep(s, d, n).rows
                  = Append(s.rows, [cells |-> cells, start |-> s.start, at |-> n - 1])
        BY <2>1, <2>3, ReadingAddsARow
      <4> QED BY <2>3, <4>1, Zenon
    <3>3. j \in DOMAIN t.rows /\ t.rows[j] = s.rows[j]
      <4> HIDE DEF s, t
      <4>1. ASSUME NEW x, t.rows = Append(s.rows, x)
            PROVE  j \in DOMAIN t.rows /\ t.rows[j] = s.rows[j]
        <5>1. DOMAIN Append(s.rows, x) = 1..(Len(s.rows) + 1)
              /\ \A q \in DOMAIN s.rows : Append(s.rows, x)[q] = s.rows[q]
          BY <2>4, AppendIsSequence
        <5> QED BY <2>4, <4>1, <5>1
      <4> QED BY <3>2, <4>1
    <3>4. Ended(n)
      BY <3>1, <3>3
    <3> HIDE DEF n, t, s
    <3> QED BY <1>0, <3>4 DEF n
  <2>6. CASE s.start = r
    <3>1. CASE t.start = s.start
      <4> HIDE DEF Ended
      <4> QED BY <1>0, <2>6, <3>1
    <3>2. CASE \E to : t = RowEnded(s, d, n, to)
      <4>1. PICK to : t = RowEnded(s, d, n, to)
        BY <3>2
      <4> DEFINE x == [cells |-> RefAddCell(s, d, to), start |-> s.start, at |-> n - 1]
      <4> HIDE DEF s, t
      <4>2. t.rows = Append(s.rows, x)
        BY <4>1 DEF RowEnded
      <4>3. x.start = r /\ x.at \in k..Len(d)
        BY <2>1, <2>6
      <4> HIDE DEF x
      <4>4. DOMAIN t.rows = 1..(Len(s.rows) + 1) /\ t.rows[Len(s.rows) + 1] = x
        BY <2>4, <4>2, AppendIsSequence
      <4>5. Len(s.rows) + 1 \in DOMAIN t.rows
        BY <2>4, <4>4
      <4>6. Ended(n)
        BY <4>3, <4>4, <4>5 DEF t
      <4> HIDE DEF n
      <4> QED BY <1>0, <4>6 DEF n
    <3>3. CASE ~ReadsOpen(s, d, n) /\ d[n] = LF /\ ~OnlyCrlf /\ AfterCr(d, n)
      <4>1. s.start = n - 1
        BY <2>3, <3>3 DEF RowStartsAfterCr, ReadsOpen, AfterCr
      <4> QED BY <1>0, <2>1, <2>6, <4>1
    <3>4. \/ ~ReadsOpen(s, d, n) /\ d[n] = Delim
          \/ ~ReadsOpen(s, d, n) /\ d[n] = LF /\ OnlyCrlf /\ AfterCr(d, n)
          \/ ~ReadsOpen(s, d, n) /\ d[n] = LF /\ ~OnlyCrlf /\ AfterCr(d, n)
          \/ ~ReadsOpen(s, d, n) /\ ~OnlyCrlf /\ (d[n] = CR \/ (d[n] = LF /\ ~AfterCr(d, n)))
          \/ \/ ReadsOpen(s, d, n)
             \/ d[n] \notin {Delim, LF, CR}
             \/ OnlyCrlf /\ (d[n] = CR \/ (d[n] = LF /\ ~AfterCr(d, n)))
      OBVIOUS
    <3> HIDE DEF s, t, n, W
    <3>5. \/ t.start = s.start
          \/ \E to : t = RowEnded(s, d, n, to)
          \/ ~ReadsOpen(s, d, n) /\ d[n] = LF /\ ~OnlyCrlf /\ AfterCr(d, n)
      BY <2>3, <2>4, <3>4, ReadingByByte
    <3> QED BY <3>1, <3>2, <3>3, <3>5
  <2> HIDE DEF Ended, W
  <2> QED BY <2>2, <2>5, <2>6
<1> HIDE DEF W
<1>4. 0..(Len(d) - k) \subseteq W
  BY <1>0, <1>2, <1>3, UpTo
<1>5. P(Len(d))
  <2>1. Len(d) - k \in W /\ k + (Len(d) - k) = Len(d)
    BY <1>0, <1>4
  <2> QED BY <2>1 DEF W
<1> DEFINE e == RefStates(d)[Len(d)]
<1>6. /\ e.start = Len(d) => RefRows(d) = e.rows
      /\ e.start # Len(d) =>
           /\ Len(RefRows(d)) = Len(e.rows) + 1
           /\ \A j \in 1..Len(e.rows) : RefRows(d)[j] = e.rows[j]
           /\ RefRows(d)[Len(e.rows) + 1]
                = [cells |-> RefAddCell(e, d, Len(d)), start |-> e.start, at |-> Len(d)]
      /\ Len(e.rows) \in Nat /\ IsReading(e, Len(d))
  BY RowsOfDocument
<1>7. DOMAIN RefRows(d) = 1..Len(RefRows(d))
  BY RowsReadAreTheDocuments
<1>8. IsSequence(e.rows) /\ DOMAIN e.rows = 1..Len(e.rows)
  <2>1. IsSequence(e.rows)
    BY <1>6 DEF IsReading
  <2> QED BY <2>1, AppendIsSequence
<1>9. CASE e.start = r
  <2>1. e.start # Len(d)
    BY <1>0, <1>9
  <2> DEFINE n == Len(e.rows) + 1
  <2> HIDE DEF e
  <2>3. Len(RefRows(d)) = n /\ n \in 1..n
    BY <1>6, <2>1
  <2>4. RefRows(d)[n]
          = [cells |-> RefAddCell(e, d, Len(d)), start |-> e.start, at |-> Len(d)]
    BY <1>6, <2>1
  <2>2. n \in DOMAIN RefRows(d) /\ RefRows(d)[n].start = r /\ RefRows(d)[n].at = Len(d)
    BY <1>7, <1>9, <2>3, <2>4
  <2> QED BY <1>0, <2>2
<1>10. CASE Ended(Len(d))
  <2>1. PICK j \in DOMAIN e.rows : e.rows[j].start = r /\ e.rows[j].at \in k..Len(d)
    BY <1>10
  <2>2. j \in DOMAIN RefRows(d) /\ RefRows(d)[j] = e.rows[j]
    <3> HIDE DEF e
    <3>1. j \in 1..Len(e.rows)
      BY <1>8, <2>1
    <3>2. CASE e.start = Len(d)
      BY <1>6, <2>1, <3>2
    <3>3. CASE e.start # Len(d)
      <4>1. Len(RefRows(d)) = Len(e.rows) + 1 /\ RefRows(d)[j] = e.rows[j]
        BY <1>6, <3>1, <3>3
      <4> QED BY <1>6, <1>7, <3>1, <4>1
    <3> QED BY <3>2, <3>3
  <2> QED BY <2>1, <2>2
<1> QED BY <1>5, <1>9, <1>10

-----------------------------------------------------------------------------
(* The quote flags follow the quotes of the open cell *)

\* What the scanner knows of the m bytes of the cell that starts at c, by its
\* quote flags q and quote_close_position z: no opening quote,
PlainCell(d, c, m, q, z) ==
    /\ "UNCLOSED" \notin q /\ "CLOSED" \notin q
    /\ m > 0 => d[c + 1] # Quote
    /\ m = 0 => q = {}
    /\ ~OnlyCrlf /\ q # {} => z = 0 /\ m >= 2

\* inside its quotes,
OpenedCell(d, c, m, q, z) ==
    /\ "UNCLOSED" \in q /\ "CLOSED" \notin q /\ m >= 1
    /\ d[c + 1] = Quote /\ QuoteCount(d, c, m) % 2 = 1 /\ NoCloserBefore(d, c, m)
    /\ z = 0
    /\ IF "EMBEDDED" \in q THEN QuoteCount(d, c, m) > 2 ELSE QuoteCount(d, c, m) = 1

\* behind a quote of which the next byte decides what it is,
UndecidedCell(d, c, m, q, z, skip) ==
    /\ "UNCLOSED" \in q /\ "CLOSED" \notin q /\ m >= 2
    /\ d[c + 1] = Quote /\ d[c + m] = Quote
    /\ QuoteCount(d, c, m) % 2 = 0 /\ NoCloserBefore(d, c, m)
    /\ z = 0
    /\ "EMBEDDED" \notin q => QuoteCount(d, c, m) = 2
    /\ "EMBEDDED" \in q => QuoteCount(d, c, m) >= 2
    /\ "EMBEDDED" \in q /\ ~skip => QuoteCount(d, c, m) > 2
    /\ skip => "EMBEDDED" \in q /\ "PENDING" \notin q
               /\ c + m < Len(d) /\ d[c + m + 1] = Quote

\* or behind the quote that closes it.
ClosedCell(d, c, m, q, z) ==
    /\ "UNCLOSED" \notin q /\ "CLOSED" \in q
    /\ z \in 1..(m - 1) /\ d[c + 1] = Quote
    /\ ClosesAt(d, c, z + 1) /\ NoCloserBefore(d, c, z + 1) /\ c + (z + 1) < Len(d)
    /\ "EMBEDDED" \notin q => QuoteCount(d, c, m) = 2

QuotesTrack(d, c, m, q, z, skip) ==
    IF skip \/ "PENDING" \in q
    THEN UndecidedCell(d, c, m, q, z, skip)
    ELSE PlainCell(d, c, m, q, z) \/ OpenedCell(d, c, m, q, z) \/ ClosedCell(d, c, m, q, z)

\* The flag UNCLOSED says whether the cell is open in the document.
LEMMA FlagsTellOpen ==
    ASSUME NEW S, NEW d \in Seq(S), NEW c \in Nat, NEW m \in Nat, c + m <= Len(d),
           NEW q, NEW z, QuotesTrack(d, c, m, q, z, FALSE), "PENDING" \notin q
    PROVE  OpenCell(SubSeq(d, c + 1, c + m)) <=> "UNCLOSED" \in q
<1>0. Len(d) \in Nat /\ c + m \in c..Len(d) /\ (c + m) - c = m /\ c + m \in Nat
  BY LenProperties
<1> DEFINE closer(x) == /\ d[c + x] = Quote /\ QuoteCount(d, c, x) % 2 = 0
                        /\ x = m \/ d[c + x + 1] # Quote
<1>1. OpenCell(SubSeq(d, c + 1, c + m)) <=>
        /\ c + m > c /\ d[c + 1] = Quote
        /\ \A x \in 2..((c + m) - c) : ~(/\ d[c + x] = Quote /\ QuoteCount(d, c, x) % 2 = 0
                                         /\ x = (c + m) - c \/ d[c + x + 1] # Quote)
  BY <1>0, OpenOfCell
<1>2. OpenCell(SubSeq(d, c + 1, c + m)) <=>
        /\ m > 0 /\ d[c + 1] = Quote
        /\ \A x \in 2..m : ~closer(x)
  <2>1. c + m > c <=> m > 0
    OBVIOUS
  <2> QED BY <1>0, <1>1, <2>1
<1>3. PlainCell(d, c, m, q, z) \/ OpenedCell(d, c, m, q, z) \/ ClosedCell(d, c, m, q, z)
  BY DEF QuotesTrack
<1>4. CASE PlainCell(d, c, m, q, z)
  BY <1>2, <1>4 DEF PlainCell
<1>5. CASE OpenedCell(d, c, m, q, z)
  <2>1. ASSUME NEW x \in 2..m PROVE ~closer(x)
    <3>1. CASE x = m
      <4>1. QuoteCount(d, c, x) % 2 = 1
        BY <1>5, <3>1 DEF OpenedCell
      <4> QED BY <4>1
    <3>2. CASE x # m
      <4>1. x \in 2..(m - 1) /\ c + x < Len(d)
        BY <1>0, <3>2
      <4>2. ~ClosesAt(d, c, x)
        BY <1>5, <4>1 DEF OpenedCell, NoCloserBefore
      <4> QED BY <3>2, <4>1, <4>2 DEF ClosesAt
    <3> QED BY <3>1, <3>2
  <2> QED BY <1>2, <1>5, <2>1 DEF OpenedCell
<1>6. CASE ClosedCell(d, c, m, q, z)
  <2>1. z + 1 \in 2..m
    BY <1>6 DEF ClosedCell
  <2>2. closer(z + 1)
    BY <1>6 DEF ClosedCell, ClosesAt
  <2> QED BY <1>2, <1>6, <2>1, <2>2 DEF ClosedCell
<1> QED BY <1>3, <1>4, <1>5, <1>6

\* No closing quote among the first bytes, by one byte more.
LEMMA NoCloserYet ==
    ASSUME NEW d, NEW c, NEW m \in Nat, NoCloserBefore(d, c, m), m >= 2 => ~ClosesAt(d, c, m)
    PROVE  NoCloserBefore(d, c, m + 1)
<1>1. ASSUME NEW x \in 2..((m + 1) - 1) PROVE ~ClosesAt(d, c, x)
  <2>1. x = m \/ x \in 2..(m - 1)
    OBVIOUS
  <2> QED BY <2>1 DEF NoCloserBefore
<1> QED BY <1>1 DEF NoCloserBefore

\* A byte that is no quote leaves the cell as it was.
LEMMA OtherByteTracks ==
    ASSUME NEW S, NEW d \in Seq(S), NEW c \in Nat, NEW m \in Nat, c + m + 1 <= Len(d),
           NEW q, NEW z, QuotesTrack(d, c, m, q, z, FALSE), "PENDING" \notin q,
           d[c + m + 1] # Quote,
           NEW r, q \subseteq r, r \subseteq q \cup {"NEEDED", "PENDING_LF"},
           r = q \/ OnlyCrlf \/ "UNCLOSED" \in q
    PROVE  QuotesTrack(d, c, m + 1, r, z, FALSE) /\ "PENDING" \notin r
<1>0. c <= Len(d) /\ Len(d) \in Nat /\ m + 1 \in Nat
  BY LenProperties
<1>1. QuoteCount(d, c, m + 1) = QuoteCount(d, c, m) /\ QuoteCount(d, c, m) \in Nat
  <2>1. QuoteCount(d, c, m) \in Nat
    BY <1>0, QuoteCounts
  <2>2. QuoteCount(d, c, m + 1)
          = QuoteCount(d, c, m) + (IF d[c + m + 1] = Quote THEN 1 ELSE 0)
    BY <1>0, QuoteCounts
  <2> QED BY <2>1, <2>2
<1>2. /\ "PENDING" \notin r /\ ("UNCLOSED" \in r <=> "UNCLOSED" \in q)
      /\ ("CLOSED" \in r <=> "CLOSED" \in q) /\ ("EMBEDDED" \in r <=> "EMBEDDED" \in q)
  OBVIOUS
<1>3. PlainCell(d, c, m, q, z) \/ OpenedCell(d, c, m, q, z) \/ ClosedCell(d, c, m, q, z)
  BY DEF QuotesTrack
<1>4. CASE PlainCell(d, c, m, q, z)
  <2>1. d[c + 1] # Quote
    <3>1. CASE m = 0
      <4>1. c + m + 1 = c + 1
        BY <3>1
      <4> QED BY <4>1
    <3>2. CASE m > 0
      BY <1>4, <3>2 DEF PlainCell
    <3> QED BY <3>1, <3>2
  <2>2. ~OnlyCrlf /\ r # {} => z = 0 /\ m + 1 >= 2
    BY <1>4 DEF PlainCell
  <2>3. PlainCell(d, c, m + 1, r, z)
    BY <1>2, <1>4, <2>1, <2>2 DEF PlainCell
  <2> QED BY <1>2, <2>3 DEF QuotesTrack
<1>5. CASE OpenedCell(d, c, m, q, z)
  <2>1. ~ClosesAt(d, c, m)
    BY <1>5 DEF OpenedCell, ClosesAt
  <2>2. NoCloserBefore(d, c, m + 1)
    BY <1>5, <2>1, NoCloserYet DEF OpenedCell
  <2>3. OpenedCell(d, c, m + 1, r, z)
    BY <1>1, <1>2, <1>5, <2>2 DEF OpenedCell
  <2> QED BY <1>2, <2>3 DEF QuotesTrack
<1>6. CASE ClosedCell(d, c, m, q, z)
  <2>1. z \in 1..((m + 1) - 1)
    BY <1>6 DEF ClosedCell
  <2>2. ClosedCell(d, c, m + 1, r, z)
    BY <1>1, <1>2, <1>6, <2>1 DEF ClosedCell
  <2> QED BY <1>2, <2>2 DEF QuotesTrack
<1> QED BY <1>2, <1>3, <1>4, <1>5, <1>6

\* A quote at the start of a cell opens it.
LEMMA OpeningQuoteTracks ==
    ASSUME NEW S, NEW d \in Seq(S), NEW c \in Nat, c + 1 <= Len(d), d[c + 1] = Quote
    PROVE  QuotesTrack(d, c, 1, {"UNCLOSED"}, 0, FALSE)
<1>0. c <= Len(d) /\ c + 0 + 1 <= Len(d) /\ c + 0 + 1 = c + 1 /\ 0 + 1 = 1
  BY LenProperties
<1>1. QuoteCount(d, c, 1) = 1
  <2>1. QuoteCount(d, c, 0) = 0
    BY <1>0, QuoteCounts
  <2>2. \A m \in Nat : c + m + 1 <= Len(d) =>
          QuoteCount(d, c, m + 1)
            = QuoteCount(d, c, m) + (IF d[c + m + 1] = Quote THEN 1 ELSE 0)
    BY <1>0, QuoteCounts
  <2>3. QuoteCount(d, c, 0 + 1) = QuoteCount(d, c, 0) + (IF d[c + 0 + 1] = Quote THEN 1 ELSE 0)
    <3>1. 0 \in Nat
      OBVIOUS
    <3> HIDE DEF QuoteCount
    <3> QED BY <1>0, <2>2, <3>1
  <2>4. (IF d[c + 0 + 1] = Quote THEN 1 ELSE 0) = 1
    BY <1>0
  <2>5. QuoteCount(d, c, 0 + 1) = 0 + 1
    BY <2>1, <2>3, <2>4
  <2> QED BY <2>5
<1>2. NoCloserBefore(d, c, 1)
  BY DEF NoCloserBefore
<1> QED BY <1>1, <1>2 DEF QuotesTrack, OpenedCell

\* An inner quote before another byte closes the cell, before a quote it is
\* skipped, at the end of a piece it is left pending.
LEMMA InnerQuoteTracks ==
    ASSUME NEW S, NEW d \in Seq(S), NEW c \in Nat, NEW m \in Nat, c + m + 1 <= Len(d),
           NEW q, NEW z, QuotesTrack(d, c, m, q, z, FALSE), "PENDING" \notin q,
           "UNCLOSED" \in q, d[c + m + 1] = Quote
    PROVE  /\ m >= 1 /\ z = 0
           /\ c + m + 1 < Len(d) /\ d[c + (m + 1) + 1] # Quote =>
                /\ QuotesTrack(d, c, m + 1, (q \cup {"CLOSED"}) \ {"UNCLOSED"}, m, FALSE)
                /\ "PENDING" \notin (q \cup {"CLOSED"}) \ {"UNCLOSED"}
           /\ c + m + 1 < Len(d) /\ d[c + (m + 1) + 1] = Quote =>
                QuotesTrack(d, c, m + 1, q \cup {"NEEDED", "EMBEDDED"}, z, TRUE)
           /\ QuotesTrack(d, c, m + 1, q \cup {"PENDING"}, z, FALSE)
<1>0. c <= Len(d) /\ Len(d) \in Nat /\ m + 1 \in Nat /\ c + (m + 1) = c + m + 1
  BY LenProperties
<1>1. QuoteCount(d, c, m + 1) = QuoteCount(d, c, m) + 1 /\ QuoteCount(d, c, m) \in Nat
  BY <1>0, QuoteCounts
<1>2. OpenedCell(d, c, m, q, z)
  BY DEF QuotesTrack, PlainCell, ClosedCell
<1>3. /\ "CLOSED" \notin q /\ m >= 1 /\ z = 0
      /\ d[c + 1] = Quote /\ QuoteCount(d, c, m) % 2 = 1 /\ NoCloserBefore(d, c, m)
      /\ "EMBEDDED" \notin q => QuoteCount(d, c, m) = 1
      /\ "EMBEDDED" \in q => QuoteCount(d, c, m) > 2
  BY <1>2 DEF OpenedCell
<1>4. QuoteCount(d, c, m + 1) % 2 = 0
  BY <1>1, <1>3
<1>5. NoCloserBefore(d, c, m + 1)
  <2>1. ~ClosesAt(d, c, m)
    BY <1>3 DEF ClosesAt
  <2> QED BY <1>3, <2>1, NoCloserYet
<1>6. /\ "EMBEDDED" \notin q => QuoteCount(d, c, m + 1) = 2
      /\ "EMBEDDED" \in q => QuoteCount(d, c, m + 1) > 2
      /\ QuoteCount(d, c, m + 1) >= 2
  BY <1>1, <1>3
<1>7. d[c + (m + 1)] = Quote
  BY <1>0
<1>8. ASSUME c + m + 1 < Len(d), d[c + (m + 1) + 1] # Quote
      PROVE  /\ QuotesTrack(d, c, m + 1, (q \cup {"CLOSED"}) \ {"UNCLOSED"}, m, FALSE)
             /\ "PENDING" \notin (q \cup {"CLOSED"}) \ {"UNCLOSED"}
  <2> DEFINE r == (q \cup {"CLOSED"}) \ {"UNCLOSED"}
  <2>1. /\ "PENDING" \notin r /\ "CLOSED" \in r /\ "UNCLOSED" \notin r
        /\ ("EMBEDDED" \in r <=> "EMBEDDED" \in q)
    OBVIOUS
  <2>2. ClosesAt(d, c, m + 1)
    BY <1>4, <1>7, <1>8 DEF ClosesAt
  <2>3. m \in 1..((m + 1) - 1) /\ c + (m + 1) < Len(d)
    BY <1>0, <1>3, <1>8
  <2> HIDE DEF r
  <2>4. ClosedCell(d, c, m + 1, r, m)
    BY <1>3, <1>5, <1>6, <2>1, <2>2, <2>3 DEF ClosedCell
  <2>5. QuotesTrack(d, c, m + 1, r, m, FALSE) /\ "PENDING" \notin r
    BY <2>1, <2>4 DEF QuotesTrack
  <2> QED BY <2>5 DEF r
<1>9. ASSUME NEW r, NEW skip \in BOOLEAN, "UNCLOSED" \in r, "CLOSED" \notin r,
             "EMBEDDED" \notin r => "EMBEDDED" \notin q, skip \/ "PENDING" \in r,
             ~skip /\ "EMBEDDED" \in r => "EMBEDDED" \in q,
             skip => "EMBEDDED" \in r /\ "PENDING" \notin r
                     /\ c + m + 1 < Len(d) /\ d[c + (m + 1) + 1] = Quote
      PROVE  QuotesTrack(d, c, m + 1, r, z, skip)
  <2>1. m + 1 >= 2
    BY <1>3
  <2>2. UndecidedCell(d, c, m + 1, r, z, skip)
    BY <1>0, <1>3, <1>4, <1>5, <1>6, <1>7, <1>9, <2>1 DEF UndecidedCell
  <2> QED BY <1>9, <2>2 DEF QuotesTrack
<1>10. c + m + 1 < Len(d) /\ d[c + (m + 1) + 1] = Quote =>
         QuotesTrack(d, c, m + 1, q \cup {"NEEDED", "EMBEDDED"}, z, TRUE)
  <2> DEFINE r == q \cup {"NEEDED", "EMBEDDED"}
  <2>1. "UNCLOSED" \in r /\ "CLOSED" \notin r /\ "EMBEDDED" \in r /\ "PENDING" \notin r
    BY <1>3
  <2> HIDE DEF r
  <2>2. c + m + 1 < Len(d) /\ d[c + (m + 1) + 1] = Quote => QuotesTrack(d, c, m + 1, r, z, TRUE)
    BY <1>9, <2>1
  <2> QED BY <2>2 DEF r
<1>11. QuotesTrack(d, c, m + 1, q \cup {"PENDING"}, z, FALSE)
  <2> DEFINE r == q \cup {"PENDING"}
  <2>1. "UNCLOSED" \in r /\ "CLOSED" \notin r /\ ("EMBEDDED" \in r <=> "EMBEDDED" \in q)
        /\ "PENDING" \in r
    BY <1>3
  <2> HIDE DEF r
  <2>2. QuotesTrack(d, c, m + 1, r, z, FALSE)
    BY <1>9, <2>1
  <2> QED BY <2>2 DEF r
<1> QED BY <1>3, <1>8, <1>10, <1>11

\* The second of two doubled quotes: whether the scanner skips it, or finds it
\* at the start of the next piece.
LEMMA SecondQuoteTracks ==
    ASSUME NEW S, NEW d \in Seq(S), NEW c \in Nat, NEW m \in Nat, c + m + 1 <= Len(d),
           NEW q, NEW z, NEW skip \in BOOLEAN, UndecidedCell(d, c, m, q, z, skip),
           d[c + m + 1] = Quote,
           NEW r, "UNCLOSED" \in r, "CLOSED" \notin r, "EMBEDDED" \in r, "PENDING" \notin r
    PROVE  QuotesTrack(d, c, m + 1, r, z, FALSE)
<1>0. c <= Len(d) /\ Len(d) \in Nat /\ m + 1 \in Nat
  BY LenProperties
<1>1. QuoteCount(d, c, m + 1) = QuoteCount(d, c, m) + 1 /\ QuoteCount(d, c, m) \in Nat
  BY <1>0, QuoteCounts
<1>2. /\ m >= 2 /\ d[c + 1] = Quote /\ QuoteCount(d, c, m) % 2 = 0 /\ NoCloserBefore(d, c, m)
      /\ z = 0
      /\ QuoteCount(d, c, m) >= 2
  BY DEF UndecidedCell
<1>3. NoCloserBefore(d, c, m + 1)
  <2>1. ~ClosesAt(d, c, m)
    BY <1>0 DEF ClosesAt
  <2> QED BY <1>2, <2>1, NoCloserYet
<1>4. QuoteCount(d, c, m + 1) % 2 = 1 /\ QuoteCount(d, c, m + 1) > 2
  BY <1>1, <1>2
<1>5. OpenedCell(d, c, m + 1, r, z)
  BY <1>2, <1>3, <1>4 DEF OpenedCell
<1> QED BY <1>5 DEF QuotesTrack

\* A pending quote turns out to close the cell.
LEMMA PendingQuoteCloses ==
    ASSUME NEW S, NEW d \in Seq(S), NEW c \in Nat, NEW m \in Nat, c + m + 1 <= Len(d),
           NEW q, NEW z, UndecidedCell(d, c, m, q, z, FALSE), d[c + m + 1] # Quote,
           NEW r, "UNCLOSED" \notin r, "CLOSED" \in r, "PENDING" \notin r,
           "EMBEDDED" \in r <=> "EMBEDDED" \in q
    PROVE  QuotesTrack(d, c, m, r, m - 1, FALSE)
<1>1. /\ m >= 2 /\ d[c + 1] = Quote /\ d[c + m] = Quote
      /\ QuoteCount(d, c, m) % 2 = 0 /\ NoCloserBefore(d, c, m)
      /\ "EMBEDDED" \notin q => QuoteCount(d, c, m) = 2
  BY DEF UndecidedCell
<1>2. (m - 1) + 1 = m /\ m - 1 \in 1..(m - 1) /\ c + m < Len(d)
  BY <1>1, LenProperties
<1>3. ClosesAt(d, c, m)
  BY <1>1 DEF ClosesAt
<1>4. ClosedCell(d, c, m, r, m - 1)
  BY <1>1, <1>2, <1>3 DEF ClosedCell
<1> QED BY <1>4 DEF QuotesTrack

\* A quote inside a cell that is not open.
LEMMA StrayQuoteTracks ==
    ASSUME NEW S, NEW d \in Seq(S), NEW c \in Nat, NEW m \in Nat \ {0}, c + m + 1 <= Len(d),
           NEW q, NEW z, QuotesTrack(d, c, m, q, z, FALSE), "PENDING" \notin q,
           "UNCLOSED" \notin q, NEW y, y = IF "CLOSED" \in q THEN z ELSE 0
    PROVE  /\ QuotesTrack(d, c, m + 1, q \cup {"EMBEDDED"}, y, FALSE)
           /\ "PENDING" \notin q \cup {"EMBEDDED"}
<1> DEFINE r == q \cup {"EMBEDDED"}
<1>0. /\ "EMBEDDED" \in r /\ "PENDING" \notin r /\ "UNCLOSED" \notin r
      /\ ("CLOSED" \in r <=> "CLOSED" \in q)
  OBVIOUS
<1> HIDE DEF r
<1>1. PlainCell(d, c, m, q, z) \/ ClosedCell(d, c, m, q, z)
  BY DEF QuotesTrack, OpenedCell
<1>2. CASE PlainCell(d, c, m, q, z)
  <2>1. PlainCell(d, c, m + 1, r, y)
    BY <1>0, <1>2 DEF PlainCell
  <2> QED BY <1>0, <2>1 DEF QuotesTrack, r
<1>3. CASE ClosedCell(d, c, m, q, z)
  <2>1. z \in 1..((m + 1) - 1) /\ y = z
    BY <1>3 DEF ClosedCell
  <2>2. ClosedCell(d, c, m + 1, r, y)
    BY <1>0, <1>3, <2>1 DEF ClosedCell
  <2> QED BY <1>0, <2>2 DEF QuotesTrack, r
<1> QED BY <1>1, <1>2, <1>3

-----------------------------------------------------------------------------
(* Collapsing doubled quotes, whole or in parts *)

\* g says what every suffix of s comes to.
Collapses(g, s) == \A k \in 0..Len(s) : g[k] = Collapsed(s, g, k)

\* What the loops collapse a string to is a solution of their equation.
LEMMA DeDoubleIs ==
    ASSUME NEW S, NEW s \in Seq(S), Quote \in S
    PROVE  \E g : Collapses(g, s) /\ DeDouble(s) = g[Len(s)]
<1>1. PICK g : g = [k \in 0..Len(s) |-> Collapsed(s, g, k)] /\ DeDouble(s) = g[Len(s)]
  BY CollapseDefined DEF DeDouble, Collapsed
<1>2. \A k \in 0..Len(s) : g[k] = Collapsed(s, g, k)
  BY <1>1, Zenon
<1> QED BY <1>1, <1>2 DEF Collapses

Prefixed(x, t) == <<x>> \o t

\* A suffix of k bytes that starts at j: a doubled quote first, or any other byte.
ByByte(s, g, k, j) ==
    /\ k >= 2 /\ s[j] = Quote /\ s[j + 1] = Quote => g[k] = Prefixed(Quote, g[k - 2])
    /\ ~(k >= 2 /\ s[j] = Quote /\ s[j + 1] = Quote) => g[k] = Prefixed(s[j], g[k - 1])

\* What it comes to, by what shorter ones do.
LEMMA CollapseByByte ==
    ASSUME NEW S, NEW s \in Seq(S), NEW g, Collapses(g, s)
    PROVE  g[0] = <<>> /\ \A k \in 1..Len(s) : ByByte(s, g, k, Len(s) - k + 1)
<1>0. Len(s) \in Nat
  BY LenProperties
<1>1. g[0] = <<>>
  <2>1. 0 \in 0..Len(s) /\ ~(0 >= 2)
    BY <1>0
  <2>2. Collapsed(s, g, 0) = <<>>
    BY <2>1, Zenon DEF Collapsed
  <2> QED BY <2>1, <2>2, Zenon DEF Collapses
<1>2. ASSUME NEW k \in 1..Len(s) PROVE ByByte(s, g, k, Len(s) - k + 1)
  <2> DEFINE j == Len(s) - k + 1
  <2>1. k \in 0..Len(s) /\ k # 0
    BY <1>0
  <2>2. g[k] = Collapsed(s, g, k)
    BY <2>1, Zenon DEF Collapses
  <2>3. CASE k >= 2 /\ s[j] = Quote /\ s[j + 1] = Quote
    <3>1. g[k] = Prefixed(Quote, g[k - 2])
      BY <2>1, <2>2, <2>3, Zenon DEF Collapsed, Prefixed
    <3> QED BY <2>3, <3>1 DEF ByByte
  <2>4. CASE ~(k >= 2 /\ s[j] = Quote /\ s[j + 1] = Quote)
    <3>1. g[k] = Prefixed(s[j], g[k - 1])
      BY <2>1, <2>2, <2>4, Zenon DEF Collapsed, Prefixed
    <3> QED BY <2>4, <3>1 DEF ByByte
  <2> QED BY <2>3, <2>4
<1> QED BY <1>1, <1>2

\* One byte before a string.
LEMMA OneByteBefore ==
    ASSUME NEW S, NEW e \in Seq(S), Len(e) = 1, NEW b \in Seq(S)
    PROVE  /\ e \o b \in Seq(S) /\ Len(e \o b) = Len(b) + 1 /\ (e \o b)[1] = e[1]
           /\ \A x \in 1..Len(b) : (e \o b)[x + 1] = b[x]
<1>1. /\ e \o b \in Seq(S) /\ Len(e \o b) = Len(e) + Len(b)
      /\ \A x \in 1..(Len(e) + Len(b)) :
           (e \o b)[x] = IF x <= Len(e) THEN e[x] ELSE b[x - Len(e)]
  BY ConcatProperties
<1>2. Len(b) \in Nat
  BY LenProperties
<1>3. (e \o b)[1] = e[1]
  BY <1>1, <1>2
<1>4. ASSUME NEW x \in 1..Len(b) PROVE (e \o b)[x + 1] = b[x]
  <2>1. x + 1 \in 1..(Len(e) + Len(b)) /\ ~(x + 1 <= Len(e)) /\ (x + 1) - Len(e) = x
    BY <1>2
  <2> QED BY <1>1, <2>1
<1> QED BY <1>1, <1>2, <1>3, <1>4

\* The last k bytes of a string, by the last k - 1.
LEMMA TailSteps ==
    ASSUME NEW S, NEW s \in Seq(S), NEW k \in 1..Len(s), NEW j, j = Len(s) - k + 1
    PROVE  SubSeq(s, j, Len(s)) = <<s[j]>> \o SubSeq(s, j + 1, Len(s))
<1>0. Len(s) \in Nat /\ s \in [1..Len(s) -> S] /\ j \in 1..Len(s)
  BY LenProperties
<1>1. PICK a : a = SubSeq(s, j, Len(s))
  OBVIOUS
<1>2. PICK b : b = SubSeq(s, j + 1, Len(s))
  OBVIOUS
<1>3. PICK e : e = <<s[j]>>
  OBVIOUS
<1>4. a \in Seq(S) /\ Len(a) = k /\ \A x \in 1..k : a[x] = s[j + x - 1]
  BY <1>0, <1>1, SubSeqProperties
<1>5. b \in Seq(S) /\ Len(b) = k - 1 /\ \A x \in 1..(k - 1) : b[x] = s[j + 1 + x - 1]
  BY <1>0, <1>2, SubSeqProperties
<1>6. e \in Seq(S) /\ Len(e) = 1 /\ e[1] = s[j]
  BY <1>0, <1>3
<1>7. /\ e \o b \in Seq(S) /\ Len(e \o b) = Len(b) + 1 /\ (e \o b)[1] = e[1]
      /\ \A x \in 1..Len(b) : (e \o b)[x + 1] = b[x]
  BY <1>5, <1>6, OneByteBefore
<1>8. ASSUME NEW x \in 1..Len(a) PROVE a[x] = (e \o b)[x]
  <2>1. CASE x = 1
    <3>1. j + x - 1 = j /\ x \in 1..k
      BY <1>0, <1>4, <2>1
    <3> QED BY <1>4, <1>6, <1>7, <2>1, <3>1
  <2>2. CASE x # 1
    <3> DEFINE y == x - 1
    <3>1. /\ y \in 1..(k - 1) /\ y \in 1..Len(b) /\ x \in 1..k /\ y + 1 = x
          /\ j + 1 + y - 1 = j + x - 1
      BY <1>0, <1>4, <1>5, <2>2
    <3> HIDE DEF y
    <3>2. b[y] = s[j + x - 1]
      BY <1>5, <3>1
    <3>3. (e \o b)[y + 1] = b[y]
      BY <1>7, <3>1
    <3> QED BY <1>4, <3>1, <3>2, <3>3
  <2> QED BY <2>1, <2>2
<1>9. Len(a) = Len(e \o b)
  BY <1>4, <1>5, <1>7
<1>10. a = e \o b
  BY <1>4, <1>7, <1>8, <1>9, SeqEqual
<1> QED BY <1>1, <1>2, <1>3, <1>10

\* A string without a doubled quote is left as it is.
LEMMA NothingToCollapse ==
    ASSUME NEW S, NEW s \in Seq(S), Quote \in S,
           \A j \in 1..(Len(s) - 1) : ~(s[j] = Quote /\ s[j + 1] = Quote)
    PROVE  DeDouble(s) = s
<1>0. Len(s) \in Nat
  BY LenProperties
<1>1. PICK g : Collapses(g, s) /\ DeDouble(s) = g[Len(s)]
  BY DeDoubleIs
<1> DEFINE W == {k \in 0..Len(s) : g[k] = SubSeq(s, Len(s) - k + 1, Len(s))}
<1>2. 0 \in W
  <2>1. SubSeq(s, Len(s) - 0 + 1, Len(s)) = <<>>
    <3>1. Len(s) - 0 + 1 \in Int /\ Len(s) < Len(s) - 0 + 1 /\ Len(s) \in Int
      BY <1>0
    <3> QED BY <3>1, SubSeqEmpty
  <2>2. 0 \in 0..Len(s) /\ ~(0 >= 2)
    BY <1>0
  <2>3. Collapsed(s, g, 0) = <<>>
    BY <2>2, Zenon DEF Collapsed
  <2>4. g[0] = <<>>
    BY <1>1, <2>2, <2>3, Zenon DEF Collapses
  <2>5. g[0] = SubSeq(s, Len(s) - 0 + 1, Len(s))
    BY <2>1, <2>4, Zenon
  <2> QED BY <2>2, <2>5, Zenon
<1>3. ASSUME NEW k \in 1..Len(s), k - 1 \in W PROVE k \in W
  <2> DEFINE j == Len(s) - k + 1
  <2>1. Len(s) - (k - 1) + 1 = j + 1 /\ k \in 0..Len(s) /\ j \in 1..Len(s)
    BY <1>0
  <2>2. ~(k >= 2 /\ s[j] = Quote /\ s[j + 1] = Quote)
    <3>1. k >= 2 => j \in 1..(Len(s) - 1)
      BY <1>0
    <3> QED BY <3>1
  <2>3. g[k - 1] = SubSeq(s, j + 1, Len(s))
    BY <1>3, <2>1
  <2>4. g[k] = <<s[j]>> \o g[k - 1]
    <3>1. \A x \in 1..Len(s) : ByByte(s, g, x, Len(s) - x + 1)
      BY <1>1, CollapseByByte
    <3>2. ByByte(s, g, k, j)
      BY <3>1
    <3> HIDE DEF W, j
    <3> QED BY <2>2, <3>2, Zenon DEF ByByte, Prefixed
  <2> HIDE DEF W
  <2>5. SubSeq(s, j, Len(s)) = <<s[j]>> \o SubSeq(s, j + 1, Len(s))
    BY TailSteps
  <2>6. g[k] = SubSeq(s, j, Len(s))
    BY <2>3, <2>4, <2>5
  <2> QED BY <2>1, <2>6 DEF W
<1>4. 0..Len(s) \subseteq W
  <2> HIDE DEF W
  <2> QED BY <1>0, <1>2, <1>3, UpTo
<1>5. g[Len(s)] = SubSeq(s, 1, Len(s))
  <2>1. Len(s) \in 0..Len(s) /\ Len(s) - Len(s) + 1 = 1
    BY <1>0
  <2>2. g[Len(s)] = SubSeq(s, Len(s) - Len(s) + 1, Len(s))
    BY <1>4, <2>1
  <2> QED BY <2>1, <2>2
<1>6. SubSeq(s, 1, Len(s)) = s
  BY <1>0, SubSeqProperties, SeqEqual, LenProperties
<1> QED BY <1>1, <1>5, <1>6

\* Every suffix comes to a string of bytes.
LEMMA SuffixesAreBytes ==
    ASSUME NEW S, NEW s \in Seq(S), Quote \in S,
           NEW g, Collapses(g, s)
    PROVE  \A k \in 0..Len(s) : g[k] \in Seq(S)
<1>0. Len(s) \in Nat
  BY LenProperties
<1> DEFINE long == {k \in 0..Len(s) : ~IsCollapsed(g, S, k)}
<1>1. long = {}
  <2> SUFFICES ASSUME long # {} PROVE FALSE
    OBVIOUS
  <2> HIDE DEF long
  <2>0. long \subseteq Nat
    BY <1>0 DEF long
  <2>1. PICK k \in long : \A m \in long : k <= m
    BY <2>0, LeastNatural
  <2>2. \A m \in 0..k-1 : IsCollapsed(g, S, m)
    BY <1>0, <2>1 DEF long
  <2>3. k \in 0..Len(s) /\ g[k] = Collapsed(s, g, k)
    BY DEF long, Collapses
  <2>4. g[k] \in Seq(S) /\ Len(g[k]) <= k
    BY <2>2, <2>3, CollapseStep
  <2> QED BY <2>4 DEF IsCollapsed, long
<1> QED BY <1>1 DEF IsCollapsed

\* The bytes of two strings, one behind the other.
AreParts(s, a, b) ==
    /\ Len(s) = Len(a) + Len(b)
    /\ \A j \in 1..Len(a) : s[j] = a[j]
    /\ \A j \in 1..Len(b) : s[Len(a) + j] = b[j]

\* A concatenation consists of its two parts.
LEMMA BytesOfParts ==
    ASSUME NEW S, NEW a \in Seq(S), NEW b \in Seq(S)
    PROVE  a \o b \in Seq(S) /\ AreParts(a \o b, a, b)
<1>1. Len(a) \in Nat /\ Len(b) \in Nat
  BY LenProperties
<1>2. /\ a \o b \in Seq(S) /\ Len(a \o b) = Len(a) + Len(b)
      /\ \A j \in 1..(Len(a) + Len(b)) :
           (a \o b)[j] = IF j <= Len(a) THEN a[j] ELSE b[j - Len(a)]
  BY ConcatProperties
<1>3. ASSUME NEW j \in 1..Len(a) PROVE (a \o b)[j] = a[j]
  BY <1>1, <1>2
<1>4. ASSUME NEW j \in 1..Len(b) PROVE (a \o b)[Len(a) + j] = b[j]
  <2>1. Len(a) + j \in 1..(Len(a) + Len(b)) /\ ~(Len(a) + j <= Len(a)) /\ (Len(a) + j) - Len(a) = j
    BY <1>1
  <2> QED BY <1>2, <2>1
<1> QED BY <1>2, <1>3, <1>4 DEF AreParts

\* The suffixes that lie in the second of two parts come to what they come to
\* there.
LEMMA CollapseSecondPart ==
    ASSUME NEW S, NEW s \in Seq(S), NEW a \in Seq(S), NEW b \in Seq(S), AreParts(s, a, b),
           NEW g, Collapses(g, s), NEW f, Collapses(f, b)
    PROVE  \A k \in 0..Len(b) : g[k] = f[k]
<1>0. Len(a) \in Nat /\ Len(b) \in Nat /\ Len(s) \in Nat
  BY LenProperties
<1> DEFINE Same(k) == \A x \in 0..k : g[x] = f[x]
           W == {k \in 0..Len(b) : Same(k)}
<1>1. 0 \in W
  <2>1. 0 \in 0..Len(s) /\ 0 \in 0..Len(b) /\ ~(0 >= 2)
    BY <1>0
  <2>2. Collapsed(s, g, 0) = <<>> /\ Collapsed(b, f, 0) = <<>>
    BY <2>1, Zenon DEF Collapsed
  <2>3. g[0] = f[0]
    BY <2>1, <2>2, Zenon DEF Collapses
  <2>4. \A x \in 0..0 : x = 0
    OBVIOUS
  <2>5. \A x \in 0..0 : g[x] = f[x]
    BY <2>3, <2>4, Zenon
  <2> QED BY <2>1, <2>5
<1>2. ASSUME NEW k \in 1..Len(b), k - 1 \in W PROVE k \in W
  <2>1. PICK j : j = Len(b) - k + 1
    OBVIOUS
  <2>2. PICK l : l = Len(s) - k + 1
    OBVIOUS
  <2>3. \A x \in 0..(k - 1) : g[x] = f[x]
    BY <1>2
  <2> HIDE DEF W, Same
  <2>4. /\ l = Len(a) + j /\ k \in 1..Len(s) /\ j \in 1..Len(b) /\ k \in 0..Len(b)
        /\ k >= 2 => l + 1 = Len(a) + (j + 1) /\ j + 1 \in 1..Len(b)
    BY <1>0, <2>1, <2>2 DEF AreParts
  <2>5. s[l] = b[j] /\ (k >= 2 => s[l + 1] = b[j + 1])
    BY <2>4 DEF AreParts
  <2>6. g[k - 1] = f[k - 1] /\ (k >= 2 => g[k - 2] = f[k - 2])
    BY <1>0, <2>3
  <2>7. ByByte(s, g, k, l)
    <3>1. \A x \in 1..Len(s) : ByByte(s, g, x, Len(s) - x + 1)
      BY CollapseByByte
    <3> QED BY <2>2, <2>4, <3>1
  <2>8. ByByte(b, f, k, j)
    <3>1. \A x \in 1..Len(b) : ByByte(b, f, x, Len(b) - x + 1)
      BY CollapseByByte
    <3> QED BY <2>1, <3>1
  <2>9. g[k] = f[k]
    BY <2>5, <2>6, <2>7, <2>8, Zenon DEF ByByte
  <2>10. \A x \in 0..k : x = k \/ x \in 0..(k - 1)
    BY <2>4
  <2>11. \A x \in 0..k : g[x] = f[x]
    BY <2>3, <2>9, <2>10, Zenon
  <2> QED BY <2>4, <2>11 DEF W, Same
<1>3. 0..Len(b) \subseteq W
  <2> HIDE DEF W
  <2> QED BY <1>0, <1>1, <1>2, UpTo
<1>4. ASSUME NEW k \in 0..Len(b) PROVE g[k] = f[k]
  <2>1. Same(k) /\ k \in 0..k
    BY <1>0, <1>3
  <2> QED BY <2>1
<1> QED BY <1>4

\* The loop, started on a string, goes through the positions P of it, comes to
\* its end, and does not find there one quote of a pair.
LoopsThrough(P, a, b) ==
    /\ 1 \in P
    /\ \A j \in 1..Len(a) : j \in P =>
         IF j < Len(a) /\ a[j] = Quote /\ a[j + 1] = Quote
         THEN j + 2 \in P
         ELSE j + 1 \in P /\ (j = Len(a) /\ a[j] = Quote /\ Len(b) > 0 => b[1] # Quote)

\* It takes the same bytes of the first part whether or not the second follows.
SameByte(g, h, a, P, m, k, j) ==
    \/ /\ k >= 2 /\ j + 2 \in P
       /\ g[m + k] = Prefixed(Quote, g[m + (k - 2)]) /\ h[k] = Prefixed(Quote, h[k - 2])
    \/ /\ j + 1 \in P
       /\ g[m + k] = Prefixed(a[j], g[m + (k - 1)]) /\ h[k] = Prefixed(a[j], h[k - 1])

\* The loop over the whole does in the first part what the loop over that part
\* alone does.
LEMMA CollapseFirstPart ==
    ASSUME NEW S, NEW s \in Seq(S), NEW a \in Seq(S), NEW b \in Seq(S), AreParts(s, a, b),
           NEW P, LoopsThrough(P, a, b), NEW g, Collapses(g, s), NEW h, Collapses(h, a)
    PROVE  \A k \in 1..Len(a) : Len(a) - k + 1 \in P =>
             SameByte(g, h, a, P, Len(b), k, Len(a) - k + 1)
<1> SUFFICES ASSUME NEW n, n = Len(a), NEW m, m = Len(b),
                    NEW k \in 1..n, NEW j, j = n - k + 1, j \in P
             PROVE  SameByte(g, h, a, P, m, k, j)
  OBVIOUS
<1>0. n \in Nat /\ m \in Nat /\ Len(s) = n + m
  BY LenProperties DEF AreParts
<1>1. /\ j \in 1..n /\ (k >= 2 <=> j < n) /\ m + k \in 1..Len(s)
      /\ j = Len(s) - (m + k) + 1 /\ j = Len(a) - k + 1 /\ k \in 1..Len(a)
      /\ (j < n => j + 1 \in 1..n)
      /\ (m + k) - 1 = m + (k - 1) /\ (m + k) - 2 = m + (k - 2)
  BY <1>0
<1>2. PICK y : y = m + k
  OBVIOUS
<1>3. ByByte(s, g, y, j)
  <2>1. y \in 1..Len(s) /\ j = Len(s) - y + 1
    BY <1>1, <1>2
  <2>2. \A x \in 1..Len(s) : ByByte(s, g, x, Len(s) - x + 1)
    BY CollapseByByte
  <2> QED BY <2>1, <2>2
<1>4. ByByte(a, h, k, j)
  <2>1. \A x \in 1..Len(a) : ByByte(a, h, x, Len(a) - x + 1)
    BY CollapseByByte
  <2> QED BY <1>1, <2>1
<1>5. s[j] = a[j] /\ (j < n => s[j + 1] = a[j + 1])
  BY <1>1 DEF AreParts
<1>6. CASE k >= 2 /\ a[j] = Quote /\ a[j + 1] = Quote
  <2>1. j + 2 \in P
    BY <1>1, <1>6 DEF LoopsThrough
  <2>2. y >= 2 /\ s[j] = Quote /\ s[j + 1] = Quote
    BY <1>0, <1>1, <1>2, <1>5, <1>6
  <2>3. g[y] = Prefixed(Quote, g[y - 2]) /\ h[k] = Prefixed(Quote, h[k - 2])
    BY <1>3, <1>4, <1>6, <2>2, Zenon DEF ByByte
  <2>4. g[m + k] = Prefixed(Quote, g[m + (k - 2)])
    BY <1>1, <1>2, <2>3
  <2> QED BY <1>6, <2>1, <2>3, <2>4, Zenon DEF SameByte
<1>7. CASE ~(k >= 2 /\ a[j] = Quote /\ a[j + 1] = Quote)
  <2>1. j + 1 \in P /\ (j = n /\ a[j] = Quote /\ m > 0 => b[1] # Quote)
    BY <1>1, <1>7 DEF LoopsThrough
  <2>2. ~(y >= 2 /\ s[j] = Quote /\ s[j + 1] = Quote)
    <3>1. CASE j < n
      BY <1>1, <1>5, <1>7, <3>1
    <3>2. CASE j = n
      <4>1. k = 1 /\ (y >= 2 => m > 0)
        BY <1>0, <1>1, <1>2, <3>2
      <4>2. m > 0 => s[j + 1] = b[1]
        <5>1. m > 0 => 1 \in 1..Len(b) /\ j + 1 = Len(a) + 1
          BY <1>0, <3>2
        <5> QED BY <5>1 DEF AreParts
      <4> QED BY <1>5, <2>1, <3>2, <4>1, <4>2
    <3>3. j < n \/ j = n
      BY <1>0, <1>1
    <3> QED BY <3>1, <3>2, <3>3
  <2>3. g[y] = Prefixed(s[j], g[y - 1]) /\ h[k] = Prefixed(a[j], h[k - 1])
    BY <1>3, <1>4, <1>7, <2>2, Zenon DEF ByByte
  <2>4. g[m + k] = Prefixed(a[j], g[m + (k - 1)])
    BY <1>1, <1>2, <1>5, <2>3
  <2> QED BY <2>1, <2>3, <2>4, Zenon DEF SameByte
<1> QED BY <1>6, <1>7

\* A byte before two strings.
LEMMA PrefixedParts ==
    ASSUME NEW S, NEW u \in Seq(S)
    PROVE  \A x \in S : \A t \in Seq(S) : Prefixed(x, t) \o u = Prefixed(x, t \o u)
<1> SUFFICES ASSUME NEW x \in S, NEW t \in Seq(S)
             PROVE  Prefixed(x, t) \o u = Prefixed(x, t \o u)
  OBVIOUS
<1>1. <<x>> \in Seq(S)
  OBVIOUS
<1>2. (<<x>> \o t) \o u = <<x>> \o (t \o u)
  BY <1>1, ConcatAssociative
<1> QED BY <1>2 DEF Prefixed

\* Two such parts collapse apart.
LEMMA CollapseOfParts ==
    ASSUME NEW S, NEW a \in Seq(S), NEW b \in Seq(S), Quote \in S, NEW P, LoopsThrough(P, a, b)
    PROVE  DeDouble(a \o b) = DeDouble(a) \o DeDouble(b)
<1>1. PICK s : s = a \o b
  OBVIOUS
<1>2. s \in Seq(S) /\ AreParts(s, a, b) /\ Len(a) \in Nat /\ Len(b) \in Nat
  BY <1>1, BytesOfParts, LenProperties
<1>3. PICK g : Collapses(g, s) /\ DeDouble(s) = g[Len(s)]
  BY <1>2, DeDoubleIs
<1>4. PICK h : Collapses(h, a) /\ DeDouble(a) = h[Len(a)]
  BY DeDoubleIs
<1>5. PICK f : Collapses(f, b) /\ DeDouble(b) = f[Len(b)]
  BY DeDoubleIs
<1>6. PICK n : n = Len(a)
  OBVIOUS
<1>7. PICK m : m = Len(b)
  OBVIOUS
<1>8. f[m] \in Seq(S) /\ g[m] = f[m]
  <2>1. \A k \in 0..Len(b) : f[k] \in Seq(S)
    BY <1>5, SuffixesAreBytes
  <2>2. \A k \in 0..Len(b) : g[k] = f[k]
    BY <1>2, <1>3, <1>5, CollapseSecondPart
  <2>3. m \in 0..Len(b)
    BY <1>2, <1>7
  <2> QED BY <2>1, <2>2, <2>3
<1>9. \A k \in 0..n : h[k] \in Seq(S)
  BY <1>4, <1>6, SuffixesAreBytes
<1>10. n \in Nat /\ m \in Nat /\ Len(s) = n + m
  BY <1>2, <1>6, <1>7 DEF AreParts
<1> DEFINE Apart(x) == n - x + 1 \in P => g[m + x] = h[x] \o f[m]
           W == {k \in 0..n : \A x \in 0..k : Apart(x)}
<1>11. h[0] = <<>>
  <2>1. 0 \in 0..Len(a) /\ ~(0 >= 2)
    BY <1>2
  <2>2. Collapsed(a, h, 0) = <<>>
    BY <2>1, Zenon DEF Collapsed
  <2> QED BY <1>4, <2>1, <2>2, Zenon DEF Collapses
<1>12. 0 \in W
  <2>1. \A x \in 0..0 : x = 0
    OBVIOUS
  <2>2. m + 0 = m /\ 0 \in 0..n
    BY <1>10
  <2>3. h[0] \o f[m] = f[m]
    BY <1>8, <1>11, ConcatEmptySeq
  <2>4. g[m + 0] = h[0] \o f[m]
    BY <1>8, <2>2, <2>3
  <2>5. Apart(0)
    BY <2>4
  <2> HIDE DEF Apart
  <2>6. \A x \in 0..0 : Apart(x)
    BY <2>1, <2>5, Zenon
  <2> QED BY <2>2, <2>6
<1>13. ASSUME NEW k \in 1..n, k - 1 \in W PROVE k \in W
  <2>1. \A x \in 0..(k - 1) : Apart(x)
    BY <1>13
  <2>2. Apart(k)
    <3> SUFFICES ASSUME n - k + 1 \in P PROVE g[m + k] = h[k] \o f[m]
      OBVIOUS
    <3>1. PICK j : j = n - k + 1
      OBVIOUS
    <3>2. /\ n - (k - 1) + 1 = j + 1 /\ n - (k - 2) + 1 = j + 2 /\ j \in 1..n
          /\ k - 1 \in 0..(k - 1) /\ k - 1 \in 0..n
          /\ k >= 2 => k - 2 \in 0..(k - 1) /\ k - 2 \in 0..n
      BY <1>10, <3>1
    <3>3. j + 1 \in P => g[m + (k - 1)] = h[k - 1] \o f[m]
      BY <2>1, <3>2
    <3>4. k >= 2 /\ j + 2 \in P => g[m + (k - 2)] = h[k - 2] \o f[m]
      BY <2>1, <3>2
    <3>5. SameByte(g, h, a, P, m, k, j)
      <4>1. \A x \in 1..Len(a) : Len(a) - x + 1 \in P =>
              SameByte(g, h, a, P, Len(b), x, Len(a) - x + 1)
        BY <1>2, <1>3, <1>4, CollapseFirstPart
      <4> HIDE DEF W, Apart
      <4> QED BY <1>6, <1>7, <3>1, <4>1
    <3>6. h[k - 1] \in Seq(S) /\ (k >= 2 => h[k - 2] \in Seq(S)) /\ a[j] \in S
      BY <1>6, <1>9, <3>2, LenProperties
    <3> HIDE DEF W, Apart
    <3>7. \A x \in S : \A t \in Seq(S) : Prefixed(x, t) \o f[m] = Prefixed(x, t \o f[m])
      BY <1>8, PrefixedParts, Zenon
    <3>8. /\ Prefixed(a[j], h[k - 1]) \o f[m] = Prefixed(a[j], h[k - 1] \o f[m])
          /\ k >= 2 => Prefixed(Quote, h[k - 2]) \o f[m] = Prefixed(Quote, h[k - 2] \o f[m])
      BY <3>6, <3>7, Zenon
    <3> QED BY <3>3, <3>4, <3>5, <3>8, Zenon DEF SameByte
  <2>3. \A x \in 0..k : x = k \/ x \in 0..(k - 1)
    OBVIOUS
  <2> HIDE DEF Apart
  <2>4. \A x \in 0..k : Apart(x)
    BY <2>1, <2>2, <2>3, Zenon
  <2>5. k \in 0..n
    BY <1>10
  <2> QED BY <2>4, <2>5
<1>14. 0..n \subseteq W
  <2> HIDE DEF W
  <2> QED BY <1>10, <1>12, <1>13, UpTo
<1>15. Apart(n)
  <2>1. n \in 0..n
    BY <1>10
  <2> QED BY <1>14, <2>1
<1>16. n - n + 1 = 1 /\ m + n = Len(s) /\ 1 \in P
  BY <1>10 DEF LoopsThrough
<1>17. g[Len(s)] = h[n] \o f[m]
  BY <1>15, <1>16
<1> QED BY <1>1, <1>3, <1>4, <1>5, <1>6, <1>7, <1>17

\* What cell_dl() makes of the raw bytes of a cell.
CellText(raw, n, q, z) ==
    LET emb == "EMBEDDED" \in q
    IN  CASE q = {} -> raw
          [] q # {} /\ z + 1 = n /\ ~emb -> SubSeq(raw, 2, n - 1)
          [] q # {} /\ z + 1 = n /\ emb ->
               LET t == DeDouble(SubSeq(raw, 2, Len(raw))) IN SubSeq(t, 1, Len(t) - 1)
          [] q # {} /\ z + 1 # n /\ z > 0 ->
               LET t == SubSeq(SubSeq(raw, 2, z) \o SubSeq(raw, z + 2, Len(raw)), 1, n - 2)
               IN  IF emb THEN DeDouble(t) ELSE t
          [] OTHER -> raw

\* A piece of a string.
LEMMA Piece ==
    ASSUME NEW S, NEW s \in Seq(S), NEW x \in Nat \ {0}, NEW y \in Nat, y <= Len(s), x <= y + 1
    PROVE  /\ SubSeq(s, x, y) \in Seq(S) /\ Len(SubSeq(s, x, y)) = y - x + 1
           /\ \A k \in 1..(y - x + 1) : SubSeq(s, x, y)[k] = s[x + k - 1]
<1>1. Len(s) \in Nat /\ s \in [1..Len(s) -> S]
  BY LenProperties
<1>2. \A k \in x..y : s[k] \in S
  BY <1>1
<1>3. /\ SubSeq(s, x, y) \in Seq(S)
      /\ Len(SubSeq(s, x, y)) = IF x <= y THEN y - x + 1 ELSE 0
      /\ \A k \in 1..(y - x + 1) : SubSeq(s, x, y)[k] = s[x + k - 1]
  BY <1>2, SubSeqProperties
<1>4. x > y => y - x + 1 = 0
  OBVIOUS
<1> QED BY <1>3, <1>4

\* Of the parts of a closed cell, before and behind the closing quote, the first
\* is made of doubled quotes and other bytes.
LEMMA InnerPartLoops ==
    ASSUME NEW S, NEW raw \in Seq(S), NEW p \in 2..Len(raw), raw[1] = Quote,
           p \in Closers(raw), \A x \in Closers(raw) : p <= x,
           NEW a \in Seq(S), Len(a) = p - 2, \A x \in 1..(p - 2) : a[x] = raw[x + 1], NEW b
    PROVE  LoopsThrough({j \in 1..(p - 1) : QuotesIn(raw, j) % 2 = 1}, a, b)
<1> DEFINE P == {j \in 1..(p - 1) : QuotesIn(raw, j) % 2 = 1}
<1>0. Len(raw) \in Nat
  BY LenProperties
<1>1. /\ QuotesIn(raw, 0) = 0
      /\ \A m \in Nat : /\ QuotesIn(raw, m) \in Nat
                        /\ QuotesIn(raw, m + 1)
                             = QuotesIn(raw, m) + (IF raw[m + 1] = Quote THEN 1 ELSE 0)
  BY QuotesOneByOne
<1>2. ASSUME NEW m \in Nat
      PROVE  /\ QuotesIn(raw, m) \in Nat
             /\ raw[m + 1] = Quote => QuotesIn(raw, m + 1) = QuotesIn(raw, m) + 1
             /\ raw[m + 1] # Quote => QuotesIn(raw, m + 1) = QuotesIn(raw, m)
  <2>1. /\ QuotesIn(raw, m) \in Nat
        /\ QuotesIn(raw, m + 1) = QuotesIn(raw, m) + (IF raw[m + 1] = Quote THEN 1 ELSE 0)
    BY <1>1
  <2> QED BY <2>1
<1>3. QuotesIn(raw, 1) = 1
  <2>1. 0 + 1 = 1 /\ 0 \in Nat
    OBVIOUS
  <2>2. QuotesIn(raw, 0 + 1) = QuotesIn(raw, 0) + 1
    BY <1>2, <2>1
  <2> QED BY <1>1, <2>1, <2>2
<1>4. 1 \in P
  BY <1>0, <1>3
<1>5. QuotesIn(raw, p) % 2 = 0 /\ raw[p] = Quote
  BY DEF Closers
<1>6. ASSUME NEW j \in 1..Len(a), j \in P
      PROVE  IF j < Len(a) /\ a[j] = Quote /\ a[j + 1] = Quote
             THEN j + 2 \in P
             ELSE j + 1 \in P /\ (j = Len(a) /\ a[j] = Quote /\ Len(b) > 0 => b[1] # Quote)
  <2>1. /\ j \in Nat /\ j + 1 \in Nat /\ j + 1 \in 2..(p - 1) /\ (j + 1) + 1 = j + 2
        /\ j + 1 \in 1..(p - 1) /\ j < Len(raw) /\ j + 1 # Len(raw) /\ j + 1 \in 2..Len(raw)
        /\ (j < Len(a) <=> j + 2 < p) /\ (j = Len(a) <=> j + 2 = p)
        /\ (j < Len(a) => j + 2 \in 1..(p - 1))
    BY <1>0
  <2>2. QuotesIn(raw, j) % 2 = 1 /\ a[j] = raw[j + 1] /\ (j < Len(a) => a[j + 1] = raw[j + 2])
    BY <1>6, <2>1
  <2>3. /\ QuotesIn(raw, j) \in Nat /\ QuotesIn(raw, j + 1) \in Nat
        /\ raw[j + 1] = Quote => QuotesIn(raw, j + 1) = QuotesIn(raw, j) + 1
        /\ raw[j + 1] # Quote => QuotesIn(raw, j + 1) = QuotesIn(raw, j)
        /\ raw[j + 2] = Quote => QuotesIn(raw, j + 2) = QuotesIn(raw, j + 1) + 1
    BY <1>2, <2>1
  <2>4. CASE a[j] # Quote
    <3>1. j + 1 \in P
      BY <2>1, <2>2, <2>3, <2>4
    <3> QED BY <2>4, <3>1
  <2>5. CASE a[j] = Quote
    <3>1. QuotesIn(raw, j + 1) % 2 = 0
      BY <2>2, <2>3, <2>5
    <3>2. raw[j + 2] = Quote
      <4>1. j + 1 \notin Closers(raw)
        BY <2>1
      <4> QED BY <2>1, <2>2, <2>5, <3>1, <4>1 DEF Closers
    <3>3. QuotesIn(raw, j + 2) % 2 = 1
      <4>1. QuotesIn(raw, j + 2) = QuotesIn(raw, j + 1) + 1 /\ QuotesIn(raw, j + 1) \in Nat
        BY <2>3, <3>2
      <4>2. \A x \in Nat : x % 2 = 0 => (x + 1) % 2 = 1
        OBVIOUS
      <4> QED BY <3>1, <4>1, <4>2
    <3>4. j < Len(a)
      BY <1>5, <2>1, <3>3
    <3>5. j + 2 \in P
      BY <2>1, <3>3, <3>4
    <3> QED BY <2>2, <2>5, <3>2, <3>4, <3>5
  <2> QED BY <2>4, <2>5
<1> HIDE DEF P
<1>7. LoopsThrough(P, a, b)
  BY <1>4, <1>6 DEF LoopsThrough
<1> QED BY <1>7 DEF P

\* Three quotes are more than two.
LEMMA TwoQuotes ==
    ASSUME NEW raw, NEW n \in Nat, QuotesIn(raw, n) <= 2,
           NEW x \in 1..n, NEW y \in 1..n, NEW w \in 1..n, x # y, x # w, y # w,
           raw[x] = Quote, raw[y] = Quote
    PROVE  raw[w] # Quote /\ QuotesIn(raw, n) = 2
<1> DEFINE A == {k \in 1..n : raw[k] = Quote}
<1>1. IsFiniteSet(A) /\ Cardinality(A) \in Nat
  <2>1. IsFiniteSet(1..n)
    BY FS_Interval
  <2>2. IsFiniteSet(A)
    BY <2>1, FS_Subset
  <2> QED BY <2>2, FS_CardinalityType
<1>2. {x, y} \subseteq A /\ Cardinality({x, y}) = 2 /\ IsFiniteSet({x, y})
  <2>1. IsFiniteSet({x}) /\ Cardinality({x}) = 1
    BY FS_Singleton
  <2>2. {x} \cup {y} = {x, y} /\ y \notin {x}
    OBVIOUS
  <2>3. IsFiniteSet({x} \cup {y}) /\ Cardinality({x} \cup {y}) = Cardinality({x}) + 1
    BY <2>1, <2>2, FS_AddElement
  <2> QED BY <2>1, <2>2, <2>3
<1>3. QuotesIn(raw, n) = Cardinality(A)
  BY DEF QuotesIn
<1> HIDE DEF A
<1>4. Cardinality({x, y}) <= Cardinality(A)
  BY <1>1, <1>2, FS_Subset
<1>5. ASSUME raw[w] = Quote PROVE FALSE
  <2>1. {x, y} \cup {w} \subseteq A /\ w \notin {x, y}
    BY <1>2, <1>5 DEF A
  <2>2. Cardinality({x, y} \cup {w}) = 3
    BY <1>2, <2>1, FS_AddElement
  <2>3. Cardinality({x, y} \cup {w}) <= Cardinality(A)
    BY <1>1, <2>1, FS_Subset
  <2> QED BY <1>1, <1>3, <2>2, <2>3
<1> QED BY <1>1, <1>2, <1>3, <1>4, <1>5

\* The text of a closed cell is what its bytes stand for.
LEMMA ClosedText ==
    ASSUME NEW S, NEW raw \in Seq(S), Quote \in S, NEW p \in 2..Len(raw), raw[1] = Quote,
           p \in Closers(raw), \A x \in Closers(raw) : p <= x,
           NEW q, q # {}, "EMBEDDED" \notin q => QuotesIn(raw, Len(raw)) = 2
    PROVE  CellText(raw, Len(raw), q, p - 1) = RefValue(raw)
<1>0. Len(raw) \in Nat
  BY LenProperties
<1>1. PICK n : n = Len(raw)
  OBVIOUS
<1>2. PICK a : a = SubSeq(raw, 2, p - 1)
  OBVIOUS
<1>3. PICK b : b = SubSeq(raw, p + 1, n)
  OBVIOUS
<1>4. a \in Seq(S) /\ Len(a) = p - 2 /\ \A x \in 1..(p - 2) : a[x] = raw[x + 1]
  <2>1. /\ a \in Seq(S) /\ Len(a) = (p - 1) - 2 + 1
        /\ \A x \in 1..((p - 1) - 2 + 1) : a[x] = raw[2 + x - 1]
    BY <1>0, <1>2, Piece
  <2>2. (p - 1) - 2 + 1 = p - 2 /\ \A x \in 1..(p - 2) : 2 + x - 1 = x + 1
    BY <1>0
  <2> QED BY <2>1, <2>2
<1>5. b \in Seq(S) /\ Len(b) = n - p /\ \A x \in 1..(n - p) : b[x] = raw[p + x]
  <2>1. /\ b \in Seq(S) /\ Len(b) = n - (p + 1) + 1
        /\ \A x \in 1..(n - (p + 1) + 1) : b[x] = raw[p + 1 + x - 1]
    BY <1>0, <1>1, <1>3, Piece
  <2>2. n - (p + 1) + 1 = n - p /\ \A x \in 1..(n - p) : p + 1 + x - 1 = p + x
    BY <1>0, <1>1
  <2> QED BY <2>1, <2>2
<1>6. RefValue(raw) = DeDouble(a) \o DeDouble(b)
  <2>1. raw # <<>> /\ Len(raw) # 1 /\ Closers(raw) # {}
    BY <1>0, EmptySeq
  <2>2. p = CHOOSE x \in Closers(raw) : \A y \in Closers(raw) : x <= y
    <3>1. ASSUME NEW x \in Closers(raw), \A y \in Closers(raw) : x <= y PROVE x = p
      <4>1. x \in Nat
        BY <1>0 DEF Closers
      <4> QED BY <1>0, <3>1, <4>1
    <3> QED BY <3>1
  <2> QED BY <1>1, <1>2, <1>3, <2>1, <2>2 DEF RefValue
<1>7. ASSUME NEW c \in Seq(S) PROVE DeDouble(a \o c) = DeDouble(a) \o DeDouble(c)
  <2>1. LoopsThrough({j \in 1..(p - 1) : QuotesIn(raw, j) % 2 = 1}, a, c)
    BY <1>4, InnerPartLoops
  <2> QED BY <1>4, <2>1, CollapseOfParts
<1>8. "EMBEDDED" \notin q => DeDouble(a) = a /\ DeDouble(b) = b
  <2> SUFFICES ASSUME "EMBEDDED" \notin q PROVE DeDouble(a) = a /\ DeDouble(b) = b
    OBVIOUS
  <2>1. ASSUME NEW w \in 1..n, w # 1, w # p PROVE raw[w] # Quote
    <3>1. 1 \in 1..n /\ p \in 1..n /\ raw[p] = Quote /\ n \in Nat /\ 1 # p
      BY <1>0, <1>1 DEF Closers
    <3>2. QuotesIn(raw, n) <= 2
      BY <1>1
    <3> QED BY <2>1, <3>1, <3>2, TwoQuotes
  <2>2. \A x \in 1..Len(a) : a[x] # Quote
    <3>1. \A x \in 1..Len(a) : x + 1 \in 1..n /\ x + 1 # 1 /\ x + 1 # p
      BY <1>0, <1>1, <1>4
    <3> QED BY <1>4, <2>1, <3>1
  <2>3. \A x \in 1..Len(b) : b[x] # Quote
    <3>1. \A x \in 1..Len(b) : p + x \in 1..n /\ p + x # 1 /\ p + x # p
      BY <1>0, <1>1, <1>5
    <3> QED BY <1>5, <2>1, <3>1
  <2>4. (\A j \in 1..(Len(a) - 1) : j \in 1..Len(a)) /\ (\A j \in 1..(Len(b) - 1) : j \in 1..Len(b))
    BY <1>0, <1>1, <1>4, <1>5
  <2>5. DeDouble(a) = a
    BY <1>4, <2>2, <2>4, NothingToCollapse
  <2>6. DeDouble(b) = b
    BY <1>5, <2>3, <2>4, NothingToCollapse
  <2> QED BY <2>5, <2>6
<1>9. (p - 1) + 1 = p /\ (p - 1) + 2 = p + 1 /\ p - 1 > 0
  BY <1>0
<1>10. CASE p = n
  <2>1. b = <<>>
    BY <1>5, <1>10, EmptySeq
  <2>2. DeDouble(b) = <<>>
    <3>1. <<>> \in Seq(S) /\ Len(<<>>) = 0
      BY EmptySeq
    <3>2. \A j \in 1..(Len(<<>>) - 1) : FALSE
      BY <3>1
    <3>3. DeDouble(<<>>) = <<>>
      BY <3>1, <3>2, NothingToCollapse
    <3> QED BY <2>1, <3>3
  <2>3. DeDouble(a) \in Seq(S)
    BY <1>4, DeDoubleShrinks
  <2>4. RefValue(raw) = DeDouble(a)
    BY <1>6, <2>2, <2>3, ConcatEmptySeq
  <2>5. CASE "EMBEDDED" \notin q
    <3>1. CellText(raw, n, q, p - 1) = SubSeq(raw, 2, n - 1)
      BY <1>9, <1>10, <2>5, Zenon DEF CellText
    <3>2. DeDouble(a) = a
      BY <1>8, <2>5
    <3> QED BY <1>1, <1>2, <1>10, <2>4, <3>1, <3>2
  <2>6. CASE "EMBEDDED" \in q
    <3>1. PICK t : t = DeDouble(SubSeq(raw, 2, Len(raw)))
      OBVIOUS
    <3>2. CellText(raw, n, q, p - 1) = SubSeq(t, 1, Len(t) - 1)
      BY <1>9, <1>10, <2>6, <3>1, Zenon DEF CellText
    <3>3. SubSeq(raw, 2, Len(raw)) = a \o <<Quote>>
      <4>1. PICK u : u = SubSeq(raw, 2, n)
        OBVIOUS
      <4>2. /\ u \in Seq(S) /\ Len(u) = n - 2 + 1
            /\ \A x \in 1..(n - 2 + 1) : u[x] = raw[2 + x - 1]
        BY <1>0, <1>1, <4>1, Piece
      <4>3. PICK v : v = <<Quote>>
        OBVIOUS
      <4>4. v \in Seq(S) /\ Len(v) = 1 /\ v[1] = Quote
        BY <4>3
      <4>5. a \o v \in Seq(S) /\ AreParts(a \o v, a, v)
        BY <1>4, <4>4, BytesOfParts
      <4>6. Len(a \o v) = n - 1 /\ Len(u) = n - 1
        BY <1>0, <1>1, <1>4, <1>10, <4>2, <4>4, <4>5 DEF AreParts
      <4>7. ASSUME NEW x \in 1..Len(u) PROVE u[x] = (a \o v)[x]
        <5>1. x \in 1..(n - 1) /\ x \in 1..(n - 2 + 1) /\ 2 + x - 1 = x + 1
          BY <1>0, <1>1, <4>6
        <5>2. u[x] = raw[x + 1]
          BY <4>2, <5>1
        <5>3. CASE x \in 1..(p - 2)
          BY <1>4, <4>5, <5>2, <5>3 DEF AreParts
        <5>4. CASE x \notin 1..(p - 2)
          <6>1. x = Len(a) + 1 /\ 1 \in 1..Len(v) /\ x + 1 = p
            BY <1>0, <1>1, <1>4, <1>10, <4>4, <5>1, <5>4
          <6>2. (a \o v)[Len(a) + 1] = v[1]
            BY <4>5, <6>1 DEF AreParts
          <6>3. raw[p] = Quote
            BY DEF Closers
          <6> QED BY <4>4, <5>2, <6>1, <6>2, <6>3
        <5> QED BY <5>3, <5>4
      <4>8. u = a \o v
        BY <4>2, <4>5, <4>6, <4>7, SeqEqual
      <4> QED BY <1>1, <4>1, <4>3, <4>8
    <3>4. <<Quote>> \in Seq(S) /\ Len(<<Quote>>) = 1
      OBVIOUS
    <3>5. DeDouble(<<Quote>>) = <<Quote>>
      <4>1. \A j \in 1..(Len(<<Quote>>) - 1) : FALSE
        BY <3>4
      <4> QED BY <3>4, <4>1, NothingToCollapse
    <3>6. t = DeDouble(a) \o <<Quote>>
      BY <1>7, <3>1, <3>3, <3>4, <3>5
    <3>7. SubSeq(t, 1, Len(t) - 1) = DeDouble(a)
      <4>1. PICK v : v = <<Quote>>
        OBVIOUS
      <4>2. PICK w : w = DeDouble(a)
        OBVIOUS
      <4>3. w \in Seq(S) /\ v \in Seq(S) /\ Len(v) = 1 /\ Len(w) \in Nat
        BY <2>3, <3>4, <4>1, <4>2, LenProperties
      <4>4. w \o v \in Seq(S) /\ AreParts(w \o v, w, v)
        BY <4>3, BytesOfParts
      <4>5. t = w \o v
        BY <3>6, <4>1, <4>2
      <4>6. t \in Seq(S) /\ AreParts(t, w, v)
        BY <4>4, <4>5
      <4>7. Len(t) - 1 = Len(w) /\ Len(w) <= Len(t) /\ \A x \in 1..Len(w) : t[x] = w[x]
        BY <4>3, <4>6 DEF AreParts
      <4>8. PICK u : u = SubSeq(t, 1, Len(w))
        OBVIOUS
      <4>9. /\ u \in Seq(S) /\ Len(u) = Len(w) - 1 + 1
            /\ \A x \in 1..(Len(w) - 1 + 1) : u[x] = t[1 + x - 1]
        BY <4>3, <4>6, <4>7, <4>8, Piece
      <4>10. Len(u) = Len(w) /\ \A x \in 1..Len(u) : u[x] = w[x]
        BY <4>3, <4>7, <4>9
      <4>11. u = w
        BY <4>3, <4>9, <4>10, SeqEqual
      <4> QED BY <4>2, <4>7, <4>8, <4>11
    <3> QED BY <1>1, <2>4, <3>2, <3>7
  <2> QED BY <2>5, <2>6
<1>11. CASE p # n
  <2>1. PICK t : t = SubSeq(a \o b, 1, n - 2)
    OBVIOUS
  <2>2. CellText(raw, n, q, p - 1) = IF "EMBEDDED" \in q THEN DeDouble(t) ELSE t
    <3>1. (p - 1) + 1 # n
      BY <1>9, <1>11
    <3>2. t = SubSeq(SubSeq(raw, 2, p - 1) \o SubSeq(raw, (p - 1) + 2, Len(raw)), 1, n - 2)
      BY <1>1, <1>2, <1>3, <1>9, <2>1
    <3> QED BY <1>9, <3>1, <3>2, Zenon DEF CellText
  <2>3. t = a \o b
    <3>1. PICK u : u = a \o b
      OBVIOUS
    <3>2. u \in Seq(S) /\ AreParts(u, a, b)
      BY <1>4, <1>5, <3>1, BytesOfParts
    <3>3. Len(u) = n - 2 /\ n \in Nat
      BY <1>0, <1>1, <1>4, <1>5, <3>2 DEF AreParts
    <3>4. /\ SubSeq(u, 1, n - 2) \in Seq(S) /\ Len(SubSeq(u, 1, n - 2)) = (n - 2) - 1 + 1
          /\ \A x \in 1..((n - 2) - 1 + 1) : SubSeq(u, 1, n - 2)[x] = u[1 + x - 1]
      <4>1. n - 2 \in Nat /\ 1 <= (n - 2) + 1 /\ 1 \in Nat \ {0}
        BY <1>0, <1>1
      <4> QED BY <3>2, <3>3, <4>1, Piece
    <3>5. PICK v : v = SubSeq(u, 1, n - 2)
      OBVIOUS
    <3>6. v \in Seq(S) /\ Len(v) = Len(u) /\ \A x \in 1..Len(v) : v[x] = u[x]
      BY <3>3, <3>4, <3>5
    <3>7. v = u
      BY <3>2, <3>6, SeqEqual
    <3> QED BY <2>1, <3>1, <3>5, <3>7
  <2>4. DeDouble(t) = RefValue(raw)
    BY <1>5, <1>6, <1>7, <2>3
  <2>5. CASE "EMBEDDED" \in q
    BY <1>1, <2>2, <2>4, <2>5
  <2>6. CASE "EMBEDDED" \notin q
    <3>1. DeDouble(a) = a /\ DeDouble(b) = b
      BY <1>8, <2>6
    <3> QED BY <1>1, <1>6, <2>2, <2>3, <2>6, <3>1
  <2> QED BY <2>5, <2>6
<1> QED BY <1>10, <1>11

-----------------------------------------------------------------------------
(* The scanner follows the reading of the whole document *)

\* Where the scanner is in the document, and where the cell and the row that it
\* is reading start in it.
AtPos == CASE pc = "scan" -> Base + i
           [] pc = "row" -> Base + i + 1
           [] OTHER -> pos
CellPos == IF pc = "row" THEN AtPos ELSE Base + cell_start
RowPos == IF pc = "row" THEN AtPos ELSE Base + row_start

\* A row that was handed over is the row r of the document.
RowTracks(o, r) ==
    /\ o.kind = "row" /\ o.at = r.at /\ o.at - o.raw = r.start
    /\ Len(o.cells) = Len(r.cells)
    /\ ~OnlyCrlf => o.cells = r.cells

RowsTrack(rows) ==
    Len(out) = Len(rows) /\ \A k \in 1..Len(out) : RowTracks(out[k], rows[k])

BufferTracks ==
    /\ Len(buf) <= pos /\ pos <= Len(doc)
    /\ \A j \in 1..Len(buf) : buf[j] = doc[Base + j]

\* last is the byte before the buffer, or unknown after an input that did not
\* end in a CR.
LastIs(p) ==
    IF p = 0 THEN last = NUL
    ELSE last = doc[p] \/ (last = NUL /\ doc[p] # CR /\ p < Len(doc))

LastTracks ==
    /\ pc = "read" => LastIs(pos)
    /\ pc = "scan" /\ i = 0 => LastIs(Base)
    /\ pc = "eof" => LastIs(pos) /\ (pos < Len(doc) => pos > 0 /\ doc[pos] # CR)
    /\ pc = "ready" /\ old_bytes_read = 0 => pos = 0 \/ (pos < Len(doc) /\ doc[pos] # CR)

CellsTrack(s) == IsSequence(row) /\ Len(row) = Len(s.row) /\ (~OnlyCrlf => row = s.row)

StateTracks ==
    LET s == RefStates(doc)[AtPos]
    IN  s.cell = CellPos /\ s.start = RowPos /\ CellsTrack(s) /\ RowsTrack(s.rows)

\* A pending quote is the last byte of a piece, and a doubled one lies in one.
PendingIsLast ==
    /\ "PENDING" \in quoted => pc # "row" /\ (pc = "scan" => i = Len(buf) /\ ~skip_next_delim)
    /\ skip_next_delim => pc = "scan"

\* While it scans, the scanner is where a reading of the document would be.
Tracks ==
    /\ ~buffer_exceeded
    /\ BufferTracks /\ LastTracks /\ StateTracks /\ PendingIsLast
    /\ QuotesTrack(doc, CellPos, AtPos - CellPos, quoted, quote_close_position, skip_next_delim)

\* The cell that is open when the input ends.
LastCellTracks ==
    LET e == RefStates(doc)[Len(doc)] IN
    /\ IF e.start = Len(doc) THEN row = <<>> /\ scanned_length = 0 ELSE HaveLastCell
    /\ e.start # Len(doc) /\ ~OnlyCrlf =>
         /\ pc = "fixed" /\ VirtualQuoteFits
         /\ ~EndsInEscapedCell(doc) =>
              CellValue(buf, cell_start, scanned_length - cell_start, quoted,
                        quote_close_position)
                = RefValue(SubSeq(doc, e.cell + 1, Len(doc)))

\* At the end of the input every row that a row end completed was handed over.
TracksToEnd ==
    LET e == RefStates(doc)[Len(doc)] IN
    /\ ~buffer_exceeded /\ CellsTrack(e) /\ RowsTrack(e.rows)
    /\ api # "bytes" => LastCellTracks

\* Then the last row is, if it has any byte.
Tracked ==
    LET e == RefStates(doc)[Len(doc)]
        n == Len(e.rows)
    IN  /\ Len(out) = n \/ (Len(out) = n + 1 /\ out[n + 1].kind = "final")
        /\ \A k \in 1..n : RowTracks(out[k], e.rows[k])
        /\ api # "bytes" /\ e.start = Len(doc) => Len(out) = n
        /\ api # "bytes" /\ e.start # Len(doc) =>
             /\ Len(out) = n + 1 /\ out[n + 1].at = Len(doc)
             /\ Len(out[n + 1].cells) = Len(RefAddCell(e, doc, Len(doc)))
             /\ ~OnlyCrlf /\ ~EndsInEscapedCell(doc) =>
                  out[n + 1].cells = RefAddCell(e, doc, Len(doc))

TracksInv ==
    RowsFit => CASE pc \in {"fixed", "closing"} -> TracksToEnd
                 [] pc = "done" -> Tracked
                 [] OTHER -> Tracks

\* The text of a cell that is not open is what its bytes stand for.
LEMMA CellIsRead ==
    ASSUME ~OnlyCrlf, NEW S, NEW d \in Seq(S), Quote \in S, NEW c \in Nat, NEW m \in Nat,
           c + m <= Len(d), NEW q, NEW z, QuotesTrack(d, c, m, q, z, FALSE),
           "PENDING" \notin q, "UNCLOSED" \notin q
    PROVE  CellText(SubSeq(d, c + 1, c + m), m, q, z) = RefValue(SubSeq(d, c + 1, c + m))
<1> SUFFICES ASSUME NEW raw, raw = SubSeq(d, c + 1, c + m)
             PROVE  CellText(raw, m, q, z) = RefValue(raw)
  OBVIOUS
<1>0. Len(d) \in Nat /\ c + m \in c..Len(d) /\ (c + m) - c = m /\ c <= Len(d)
  BY LenProperties
<1>1. raw \in Seq(S) /\ Len(raw) = m /\ \A x \in 1..m : raw[x] = d[c + x]
  BY <1>0, CellBytes
<1>2. PlainCell(d, c, m, q, z) \/ ClosedCell(d, c, m, q, z)
  BY DEF QuotesTrack, OpenedCell
<1>3. CASE PlainCell(d, c, m, q, z)
  <2>1. RefValue(raw) = raw
    <3>1. raw = <<>> \/ raw[1] # Quote
      <4>1. CASE m = 0
        BY <1>1, <4>1, EmptySeq
      <4>2. CASE m > 0
        BY <1>1, <1>3, <4>2 DEF PlainCell
      <4> QED BY <4>1, <4>2
    <3> QED BY <3>1 DEF RefValue
  <2>2. CASE q = {}
    <3>1. CellText(raw, m, q, z) = raw
      BY <2>2, Zenon DEF CellText
    <3> QED BY <2>1, <3>1
  <2>3. CASE q # {}
    <3>1. z + 1 # m /\ ~(z > 0)
      BY <1>3, <2>3 DEF PlainCell
    <3>2. CellText(raw, m, q, z) = raw
      BY <2>3, <3>1, Zenon DEF CellText
    <3> QED BY <2>1, <3>2
  <2> QED BY <2>2, <2>3
<1>4. CASE ClosedCell(d, c, m, q, z)
  <2>1. PICK p : p = z + 1
    OBVIOUS
  <2>2. /\ p \in 2..m /\ z = p - 1 /\ d[c + 1] = Quote /\ q # {}
        /\ ClosesAt(d, c, p) /\ NoCloserBefore(d, c, p) /\ c + p < Len(d)
        /\ "EMBEDDED" \notin q => QuoteCount(d, c, m) = 2
    BY <1>4, <2>1 DEF ClosedCell
  <2>3. Closers(raw) = {x \in 2..m : /\ d[c + x] = Quote /\ QuoteCount(d, c, x) % 2 = 0
                                     /\ x = m \/ d[c + x + 1] # Quote}
    <3>1. Closers(SubSeq(d, c + 1, c + m))
            = {x \in 2..((c + m) - c) : /\ d[c + x] = Quote /\ QuoteCount(d, c, x) % 2 = 0
                                        /\ x = (c + m) - c \/ d[c + x + 1] # Quote}
      BY <1>0, ClosersOfCell
    <3> QED BY <1>0, <3>1
  <2>4. p \in Closers(raw)
    BY <2>2, <2>3 DEF ClosesAt
  <2>5. ASSUME NEW x \in Closers(raw) PROVE p <= x
    <3>1. /\ x \in 2..m /\ d[c + x] = Quote /\ QuoteCount(d, c, x) % 2 = 0
          /\ x = m \/ d[c + x + 1] # Quote
      BY <2>3
    <3>2. ASSUME x < p PROVE FALSE
      <4>1. x \in 2..(p - 1) /\ x # m
        BY <2>2, <3>1, <3>2
      <4>2. ClosesAt(d, c, x)
        BY <3>1, <4>1 DEF ClosesAt
      <4> QED BY <2>2, <4>1, <4>2 DEF NoCloserBefore
    <3> QED BY <2>2, <3>1, <3>2
  <2>6. "EMBEDDED" \notin q => QuotesIn(raw, Len(raw)) = 2
    <3>1. \A y \in c..Len(d) : \A x \in 0..(y - c) :
            QuotesIn(SubSeq(d, c + 1, y), x) = QuoteCount(d, c, x)
      BY <1>0, QuoteCounts
    <3>2. m \in 0..((c + m) - c)
      BY <1>0
    <3>3. QuotesIn(raw, m) = QuoteCount(d, c, m)
      BY <1>0, <3>1, <3>2
    <3> QED BY <1>1, <2>2, <3>3
  <2>7. p \in 2..Len(raw) /\ raw[1] = Quote
    <3>1. p \in 2..Len(raw) /\ 1 \in 1..m
      BY <1>1, <2>2
    <3>2. raw[1] = d[c + 1]
      BY <1>1, <3>1
    <3> QED BY <2>2, <3>1, <3>2
  <2>8. CellText(raw, Len(raw), q, p - 1) = RefValue(raw)
    BY <1>1, <2>2, <2>4, <2>5, <2>6, <2>7, ClosedText
  <2> QED BY <1>1, <2>2, <2>8
<1> QED BY <1>2, <1>3, <1>4

\* Bytes of the buffer are bytes of the document.
LEMMA BufferPiece ==
    ASSUME NEW S, NEW b \in Seq(S), NEW d \in Seq(S), NEW base \in Nat,
           base + Len(b) <= Len(d), \A x \in 1..Len(b) : b[x] = d[base + x],
           NEW st \in Nat, NEW m \in Nat, st + m <= Len(b)
    PROVE  SubSeq(b, st + 1, st + m) = SubSeq(d, (base + st) + 1, (base + st) + m)
<1>0. Len(b) \in Nat /\ Len(d) \in Nat
  BY LenProperties
<1>1. PICK v : v = SubSeq(b, st + 1, st + m)
  OBVIOUS
<1>2. PICK w : w = SubSeq(d, (base + st) + 1, (base + st) + m)
  OBVIOUS
<1>3. v \in Seq(S) /\ Len(v) = m /\ \A x \in 1..m : v[x] = b[st + x]
  <2>1. /\ v \in Seq(S) /\ Len(v) = (st + m) - (st + 1) + 1
        /\ \A x \in 1..((st + m) - (st + 1) + 1) : v[x] = b[(st + 1) + x - 1]
    BY <1>0, <1>1, Piece
  <2>2. (st + m) - (st + 1) + 1 = m
    OBVIOUS
  <2>3. ASSUME NEW x \in 1..m PROVE v[x] = b[st + x]
    <3>1. (st + 1) + x - 1 = st + x
      OBVIOUS
    <3>2. v[x] = b[(st + 1) + x - 1]
      BY <2>1, <2>2
    <3> QED BY <3>1, <3>2
  <2> QED BY <2>1, <2>2, <2>3
<1>4. w \in Seq(S) /\ Len(w) = m /\ \A x \in 1..m : w[x] = d[base + (st + x)]
  <2> DEFINE e == base + st
  <2>1. e \in Nat /\ e + m <= Len(d)
    BY <1>0
  <2>2. /\ w \in Seq(S) /\ Len(w) = (e + m) - (e + 1) + 1
        /\ \A x \in 1..((e + m) - (e + 1) + 1) : w[x] = d[(e + 1) + x - 1]
    <3>1. w = SubSeq(d, e + 1, e + m)
      BY <1>2
    <3> HIDE DEF e
    <3> QED BY <1>0, <2>1, <3>1, Piece
  <2>3. (e + m) - (e + 1) + 1 = m
    OBVIOUS
  <2>4. ASSUME NEW x \in 1..m PROVE w[x] = d[base + (st + x)]
    <3>1. (e + 1) + x - 1 = base + (st + x)
      OBVIOUS
    <3>2. w[x] = d[(e + 1) + x - 1]
      <4> HIDE DEF e
      <4> QED BY <2>2, <2>3
    <3> QED BY <3>1, <3>2
  <2> HIDE DEF e
  <2> QED BY <2>2, <2>3, <2>4
<1>5. ASSUME NEW x \in 1..m PROVE v[x] = w[x]
  <2>1. st + x \in 1..Len(b)
    BY <1>0
  <2>2. b[st + x] = d[base + (st + x)]
    BY <2>1
  <2> QED BY <1>3, <1>4, <2>2
<1>6. Len(v) = m /\ Len(w) = m
  BY <1>3, <1>4
<1>7. v = w
  BY <1>3, <1>4, <1>5, <1>6, SeqEqual
<1> QED BY <1>1, <1>2, <1>7

\* The byte at buff[i]: it is the k-th of the document, the cell it belongs to
\* starts after the c-th, m bytes before it, and s is the state of a reading.
Here(k, c, m, s) ==
    /\ k = Base + i + 1 /\ c = Base + cell_start /\ m = i - cell_start
    /\ k \in 1..Len(doc) /\ c \in Nat /\ m \in Nat /\ c + m + 1 = k /\ c + m = k - 1
    /\ s = RefStates(doc)[k - 1] /\ RefStates(doc)[k] = RefStep(s, doc, k)
    /\ IsReading(s, k - 1) /\ RowStartsAfterCr(doc, s, k - 1)
    /\ s.cell = c /\ s.start = Base + row_start /\ CellsTrack(s) /\ RowsTrack(s.rows)
    /\ QuotesTrack(doc, c, m, quoted, quote_close_position, skip_next_delim)
    /\ buf[i + 1] = doc[k]

\* While the loop runs, there is such a place.
LEMMA ScanIsHere ==
    ASSUME IInv, Tracks, pc = "scan", i < Len(buf)
    PROVE  \E k, c, m, s : Here(k, c, m, s)
<1>0. /\ doc \in Seq(Byte) /\ buf \in Seq(Byte) /\ Len(doc) \in Nat /\ Len(buf) \in Nat
      /\ pos \in Nat /\ i \in Nat /\ cell_start \in Int /\ row_start \in Int
      /\ 0 <= cell_start /\ cell_start <= i
  BY LenProperties DEF IInv, Scanning, WhileScanning, Numbers, BufferShape, CellShape, Tracks
<1>1. /\ Base \in Nat /\ Base = pos - Len(buf) /\ pos <= Len(doc)
      /\ \A j \in 1..Len(buf) : buf[j] = doc[Base + j]
  BY <1>0 DEF Tracks, BufferTracks, Base
<1>2. AtPos = Base + i /\ CellPos = Base + cell_start /\ RowPos = Base + row_start
  BY DEF AtPos, CellPos, RowPos
<1> HIDE DEF Base
<1>3. PICK k : k = Base + i + 1
  OBVIOUS
<1>4. PICK c : c = Base + cell_start
  OBVIOUS
<1>5. PICK m : m = i - cell_start
  OBVIOUS
<1>6. PICK s : s = RefStates(doc)[k - 1]
  OBVIOUS
<1>7. /\ k \in 1..Len(doc) /\ c \in Nat /\ m \in Nat /\ c + m + 1 = k /\ c + m = k - 1
      /\ k - 1 \in 0..Len(doc) /\ AtPos = k - 1 /\ AtPos - CellPos = m /\ CellPos = c
      /\ i + 1 \in 1..Len(buf) /\ Base + (i + 1) = k
  <2>1. PICK b : b = Base
    OBVIOUS
  <2>2. b \in Nat /\ b = pos - Len(buf) /\ pos <= Len(doc) /\ k = b + i + 1 /\ c = b + cell_start
    BY <1>1, <1>3, <1>4, <2>1
  <2>3. AtPos = b + i /\ CellPos = b + cell_start
    BY <1>2, <2>1
  <2>4. /\ k \in 1..Len(doc) /\ c \in Nat /\ m \in Nat /\ c + m + 1 = k /\ c + m = k - 1
        /\ k - 1 \in 0..Len(doc) /\ b + i = k - 1 /\ (b + i) - (b + cell_start) = m
        /\ i + 1 \in 1..Len(buf) /\ b + (i + 1) = k
    BY <1>0, <1>5, <2>2
  <2> QED BY <2>1, <2>2, <2>3, <2>4
<1>8. RefStates(doc)[k] = RefStep(s, doc, k)
  BY <1>0, <1>6, <1>7, ReadingSteps
<1>9. IsReading(s, k - 1) /\ RowStartsAfterCr(doc, s, k - 1)
  BY <1>0, <1>6, <1>7, ReadingShape, MaxColsAssumption
<1>10. s.cell = c /\ s.start = Base + row_start /\ CellsTrack(s) /\ RowsTrack(s.rows)
  BY <1>2, <1>6, <1>7 DEF Tracks, StateTracks
<1>11. QuotesTrack(doc, c, m, quoted, quote_close_position, skip_next_delim)
  BY <1>7 DEF Tracks
<1>12. buf[i + 1] = doc[k]
  BY <1>1, <1>7
<1>13. Here(k, c, m, s)
  BY <1>3, <1>4, <1>5, <1>6, <1>7, <1>8, <1>9, <1>10, <1>11, <1>12 DEF Here
<1> QED BY <1>13

\* What the scanner knows there: no quote is pending; the cell is open or not,
\* and the byte before is a CR or not, as in the document.
LEMMA KnownHere ==
    ASSUME IInv, Tracks, pc = "scan", i < Len(buf), NEW k, NEW c, NEW m, NEW s, Here(k, c, m, s)
    PROVE  /\ "PENDING" \notin quoted
           /\ ~skip_next_delim => (ReadsOpen(s, doc, k) <=> Open)
           /\ AfterCr(doc, k) <=> scanner_last = CR
<1>0. /\ doc \in Seq(Byte) /\ buf \in Seq(Byte) /\ Len(doc) \in Nat /\ Len(buf) \in Nat
      /\ pos \in Nat /\ i \in Nat
  BY LenProperties DEF IInv, Scanning, WhileScanning, Numbers, BufferShape
<1>1. /\ Base \in Nat /\ \A j \in 1..Len(buf) : buf[j] = doc[Base + j]
  BY <1>0 DEF Tracks, BufferTracks, Base
<1>2. k = Base + i + 1 /\ k \in 1..Len(doc) /\ c \in Nat /\ m \in Nat /\ c + m = k - 1
  BY DEF Here
<1>3. "PENDING" \notin quoted
  BY <1>0 DEF Tracks, PendingIsLast
<1>4. ASSUME ~skip_next_delim PROVE ReadsOpen(s, doc, k) <=> Open
  <2>1. QuotesTrack(doc, c, m, quoted, quote_close_position, FALSE)
    <3>1. QuotesTrack(doc, c, m, quoted, quote_close_position, skip_next_delim)
      BY DEF Here
    <3> QED BY <1>3, <1>4, <3>1 DEF QuotesTrack
  <2>2. s.cell = c /\ c + m <= Len(doc)
    BY <1>0, <1>2 DEF Here
  <2>3. OpenCell(SubSeq(doc, c + 1, c + m)) <=> "UNCLOSED" \in quoted
    BY <1>0, <1>2, <1>3, <2>1, <2>2, FlagsTellOpen
  <2> QED BY <1>2, <2>2, <2>3 DEF ReadsOpen, Open
<1>5. AfterCr(doc, k) <=> scanner_last = CR
  <2>1. CASE i > 0
    <3>1. i \in 1..Len(buf) /\ k - 1 = Base + i /\ k > 1
      BY <1>0, <1>1, <1>2, <2>1
    <3>2. buf[i] = doc[k - 1]
      BY <1>1, <3>1
    <3> QED BY <2>1, <3>1, <3>2 DEF AfterCr, scanner_last
  <2>2. CASE i = 0
    <3>1. LastIs(Base) /\ k - 1 = Base /\ scanner_last = last
      BY <1>0, <1>1, <1>2, <2>2 DEF Tracks, LastTracks, scanner_last
    <3>2. CR # NUL
      BY DEF CR, NUL
    <3>3. CASE Base = 0
      BY <1>2, <3>1, <3>2, <3>3 DEF LastIs, AfterCr
    <3>4. CASE Base # 0
      <4>1. k > 1
        <5>1. PICK b : b = Base
          OBVIOUS
        <5>2. b \in Nat /\ b # 0 /\ k - 1 = b /\ k \in Nat
          BY <1>1, <1>2, <3>1, <3>4, <5>1
        <5> QED BY <5>2
      <4> QED BY <3>1, <3>2, <3>4, <4>1 DEF LastIs, AfterCr
    <3> QED BY <3>3, <3>4
  <2> QED BY <1>0, <2>1, <2>2
<1> QED BY <1>3, <1>4, <1>5

\* The scanner stays where the reading is, when both have read the k-th byte.
LEMMA ByteTracks ==
    ASSUME IInv, Tracks, pc = "scan", i < Len(buf), NEW k, NEW c, NEW m, NEW s,
           Here(k, c, m, s), NEW t, t = RefStates(doc)[k],
           doc' = doc, pos' = pos, buf' = buf, last' = last, buffer_exceeded' = FALSE,
           NEW cc, NEW rr,
           \/ pc' = "scan" /\ i' = i + 1 /\ cc = Base + cell_start' /\ rr = Base + row_start'
           \/ pc' = "row" /\ i' = i /\ cc = k /\ rr = k,
           t.cell = cc, t.start = rr, CellsTrack(t)', RowsTrack(t.rows)',
           "PENDING" \in quoted' => pc' = "scan" /\ i' = Len(buf) /\ ~skip_next_delim',
           skip_next_delim' => pc' = "scan",
           QuotesTrack(doc, cc, k - cc, quoted', quote_close_position', skip_next_delim')
    PROVE  Tracks'
<1>1. Base' = Base
  BY DEF Base
<1>2. k = Base + i + 1 /\ i \in Nat
  BY DEF Here, IInv, Scanning, WhileScanning, Numbers, BufferShape
<1>3. AtPos' = k
  <2>1. CASE pc' = "scan"
    <3>1. AtPos' = Base' + i'
      BY <2>1 DEF AtPos
    <3>2. i' = i + 1
      BY <2>1
    <3>3. PICK b : b = Base
      OBVIOUS
    <3>4. Base \in Int
      BY LenProperties DEF Base, IInv, Scanning, WhileScanning, Numbers
    <3> HIDE DEF Base
    <3> QED BY <1>1, <1>2, <3>1, <3>2, <3>3, <3>4
  <2>2. CASE pc' = "row"
    <3>1. AtPos' = Base' + i' + 1 /\ i' = i
      BY <2>2 DEF AtPos
    <3> QED BY <1>1, <1>2, <3>1
  <2> QED BY <2>1, <2>2
<1>4. CellPos' = cc /\ RowPos' = rr
  <2>1. CASE pc' = "scan"
    BY <1>1, <2>1 DEF CellPos, RowPos
  <2>2. CASE pc' = "row"
    BY <1>3, <2>2 DEF CellPos, RowPos
  <2> QED BY <2>1, <2>2
<1>5. BufferTracks'
  <2>1. /\ Len(buf) <= pos /\ pos <= Len(doc) /\ \A j \in 1..Len(buf) : buf[j] = doc[Base + j]
    BY DEF Tracks, BufferTracks
  <2> QED BY <1>1, <2>1 DEF BufferTracks
<1>6. LastTracks'
  BY <1>2 DEF LastTracks
<1>7. StateTracks'
  <2>1. RefStates(doc')[AtPos'] = t
    BY <1>3
  <2> QED BY <1>4, <2>1, Zenon DEF StateTracks
<1>8. PendingIsLast'
  BY DEF PendingIsLast
<1>9. QuotesTrack(doc', CellPos', AtPos' - CellPos', quoted', quote_close_position',
                  skip_next_delim')
  BY <1>3, <1>4
<1>10. buffer_exceeded' = FALSE
  OBVIOUS
<1> QED BY <1>5, <1>6, <1>7, <1>8, <1>9, <1>10, Zenon DEF Tracks

\* A byte that only changes the flags.
LEMMA FlagsTrack ==
    ASSUME IInv, Tracks, pc = "scan", i < Len(buf), NEW k, NEW c, NEW m, NEW s,
           Here(k, c, m, s), RefStep(s, doc, k) = s, NEW q, Advance(q),
           QuotesTrack(doc, c, m + 1, q, quote_close_position', skip_next_delim'),
           "PENDING" \in q => i + 1 = Len(buf) /\ ~skip_next_delim'
    PROVE  Tracks'
<1>1. /\ doc' = doc /\ pos' = pos /\ buf' = buf /\ last' = last /\ pc' = "scan" /\ i' = i + 1
      /\ cell_start' = cell_start /\ row_start' = row_start /\ quoted' = q
      /\ buffer_exceeded' = buffer_exceeded /\ row' = row /\ out' = out
  BY DEF Advance, input, count, rowv
<1>2. /\ s = RefStates(doc)[k] /\ s.cell = c /\ s.start = Base + row_start /\ k - c = m + 1
      /\ c = Base + cell_start /\ CellsTrack(s) /\ RowsTrack(s.rows)
  BY DEF Here
<1>3. CellsTrack(s)' /\ RowsTrack(s.rows)'
  BY <1>1, <1>2 DEF CellsTrack, RowsTrack
<1>4. ~buffer_exceeded
  BY DEF Tracks
<1>5. \/ pc' = "scan" /\ i' = i + 1 /\ c = Base + cell_start' /\ s.start = Base + row_start'
      \/ pc' = "row" /\ i' = i /\ c = k /\ s.start = k
  BY <1>1, <1>2
<1>6. QuotesTrack(doc, c, k - c, quoted', quote_close_position', skip_next_delim')
  BY <1>1, <1>2
<1>7. "PENDING" \in quoted' => pc' = "scan" /\ i' = Len(buf) /\ ~skip_next_delim'
  BY <1>1
<1>8. buffer_exceeded' = FALSE
  BY <1>1, <1>4, OptionsAssumption DEF Tracks
<1> QED BY <1>1, <1>2, <1>3, <1>5, <1>6, <1>7, <1>8, ByteTracks

\* A byte outside the special ones, inside quotes, or half of a CRLF alone,
\* changes nothing in the reading.
LEMMA ReadingStays ==
    ASSUME NEW k, NEW c, NEW m, NEW s, Here(k, c, m, s),
           \/ ReadsOpen(s, doc, k)
           \/ doc[k] \notin {Delim, LF, CR}
           \/ OnlyCrlf /\ (doc[k] = CR \/ (doc[k] = LF /\ ~AfterCr(doc, k)))
    PROVE  RefStep(s, doc, k) = s
<1>1. s = [cell |-> s.cell, start |-> s.start, row |-> s.row, rows |-> s.rows]
  BY DEF Here, IsReading
<1> QED BY <1>1, ReadingByByte

\* The flags at a byte that is looked at.
LEMMA LookedAt ==
    ASSUME IInv, TypeOK, Tracks, NEW ch, AtByte(ch)
    PROVE  \E k, c, m, s :
             /\ Here(k, c, m, s) /\ doc \in Seq(Byte) /\ c \in Nat /\ m \in Nat
             /\ c + m + 1 = k /\ c + m + 1 <= Len(doc) /\ doc[k] = ch
             /\ skip_next_delim = FALSE /\ "PENDING" \notin quoted
             /\ QuotesTrack(doc, c, m, quoted, quote_close_position, FALSE)
             /\ (ReadsOpen(s, doc, k) <=> Open) /\ (AfterCr(doc, k) <=> scanner_last = CR)
             /\ (i = cell_start <=> m = 0) /\ i - cell_start = m
<1>1. pc = "scan" /\ i < Len(buf) /\ skip_next_delim = FALSE /\ buf[i + 1] = ch
  BY DEF AtByte, Byte0, TypeOK
<1>2. PICK k, c, m, s : Here(k, c, m, s)
  BY <1>1, ScanIsHere
<1>3. /\ "PENDING" \notin quoted /\ (ReadsOpen(s, doc, k) <=> Open)
      /\ (AfterCr(doc, k) <=> scanner_last = CR)
  BY <1>1, <1>2, KnownHere
<1>4. /\ c \in Nat /\ m \in Nat /\ c + m + 1 = k /\ doc[k] = ch /\ k \in 1..Len(doc)
      /\ m = i - cell_start
      /\ QuotesTrack(doc, c, m, quoted, quote_close_position, skip_next_delim)
  BY <1>1, <1>2 DEF Here
<1>5. doc \in Seq(Byte) /\ i \in Int /\ cell_start \in Int /\ Len(doc) \in Nat
  BY <1>1, LenProperties DEF IInv, Scanning, WhileScanning, Numbers
<1>6. i = cell_start <=> m = 0
  BY <1>4, <1>5
<1>7. c + m + 1 <= Len(doc)
  BY <1>4, <1>5
<1>8. QuotesTrack(doc, c, m, quoted, quote_close_position, FALSE)
  BY <1>1, <1>4
<1> QED BY <1>1, <1>2, <1>3, <1>4, <1>5, <1>6, <1>7, <1>8

\* Ordinary bytes, and special ones inside quotes.
LEMMA PlainBytesTrack ==
    ASSUME IInv, IInv', TypeOK, Tracks, ScanOther \/ ScanQuotedSpecial
    PROVE  Tracks'
<1>1. PICK ch, q : /\ AtByte(ch) /\ Advance(q) /\ ch # Quote
                   /\ q \in {quoted, quoted \cup {"NEEDED"}}
                   /\ (ch \notin {Delim, LF, CR} /\ q = quoted) \/ Open
                   /\ UNCHANGED <<skip_next_delim, quote_close_position>>
  <2>1. CASE ScanOther
    <3>1. AtByte("a") /\ "a" # Quote /\ "a" \notin {Delim, LF, CR}
      BY <2>1 DEF ScanOther, Quote, Delim, LF, CR
    <3>2. Advance(quoted) /\ UNCHANGED <<skip_next_delim, quote_close_position>>
      BY <2>1 DEF ScanOther
    <3> QED BY <3>1, <3>2
  <2>2. CASE ScanQuotedSpecial
    <3>1. PICK ch \in {Delim, LF} \cup (IF OnlyCrlf THEN {} ELSE {CR}) : AtByte(ch)
      BY <2>2 DEF ScanQuotedSpecial
    <3>2. ch # Quote
      BY <3>1 DEF Quote, Delim, LF, CR
    <3>3. /\ Open /\ Advance(quoted \cup {"NEEDED"})
          /\ UNCHANGED <<skip_next_delim, quote_close_position>>
      BY <2>2 DEF ScanQuotedSpecial
    <3> QED BY <3>1, <3>2, <3>3
  <2> QED BY <2>1, <2>2
<1>2. PICK k, c, m, s :
             /\ Here(k, c, m, s) /\ doc \in Seq(Byte) /\ c \in Nat /\ m \in Nat
             /\ c + m + 1 = k /\ c + m + 1 <= Len(doc) /\ doc[k] = ch
             /\ skip_next_delim = FALSE /\ "PENDING" \notin quoted
             /\ QuotesTrack(doc, c, m, quoted, quote_close_position, FALSE)
             /\ (ReadsOpen(s, doc, k) <=> Open) /\ (AfterCr(doc, k) <=> scanner_last = CR)
             /\ (i = cell_start <=> m = 0) /\ i - cell_start = m
  BY <1>1, LookedAt
<1>3. RefStep(s, doc, k) = s
  BY <1>1, <1>2, ReadingStays
<1>4. /\ quoted \subseteq q /\ q \subseteq quoted \cup {"NEEDED", "PENDING_LF"}
      /\ (q = quoted \/ OnlyCrlf \/ "UNCLOSED" \in quoted)
  BY <1>1 DEF Open
<1>5. QuotesTrack(doc, c, m + 1, q, quote_close_position, FALSE) /\ "PENDING" \notin q
  BY <1>1, <1>2, <1>4, OtherByteTracks
<1>6. pc = "scan" /\ i < Len(buf) /\ skip_next_delim' = FALSE
      /\ quote_close_position' = quote_close_position
  BY <1>1, <1>2 DEF AtByte
<1>7. QuotesTrack(doc, c, m + 1, q, quote_close_position', skip_next_delim')
  BY <1>5, <1>6
<1>8. Here(k, c, m, s) /\ Advance(q)
  BY <1>1, <1>2
<1> QED BY <1>3, <1>5, <1>6, <1>7, <1>8, FlagsTrack

\* The second of two doubled quotes.
LEMMA SkippedQuoteTracks ==
    ASSUME IInv, IInv', TypeOK, Tracks, ScanSkipped
    PROVE  Tracks'
<1>1. /\ pc = "scan" /\ i < Len(buf) /\ skip_next_delim = TRUE /\ skip_next_delim' = FALSE
      /\ Advance(quoted) /\ quote_close_position' = quote_close_position
  BY DEF ScanSkipped, TypeOK
<1>2. PICK k, c, m, s : Here(k, c, m, s)
  BY <1>1, ScanIsHere
<1>3. /\ c \in Nat /\ m \in Nat /\ c + m + 1 = k /\ k \in 1..Len(doc) /\ doc \in Seq(Byte)
      /\ UndecidedCell(doc, c, m, quoted, quote_close_position, TRUE)
  BY <1>1, <1>2 DEF Here, IInv, Scanning, WhileScanning, QuotesTrack
<1>4. /\ "UNCLOSED" \in quoted /\ "CLOSED" \notin quoted /\ "EMBEDDED" \in quoted
      /\ "PENDING" \notin quoted /\ doc[c + m + 1] = Quote
  BY <1>3 DEF UndecidedCell
<1>5. c + m + 1 <= Len(doc)
  BY <1>3, LenProperties
<1>6. QuotesTrack(doc, c, m + 1, quoted, quote_close_position, FALSE)
  BY <1>3, <1>4, <1>5, SecondQuoteTracks
<1>7. RefStep(s, doc, k) = s
  <2>1. doc[k] \notin {Delim, LF, CR}
    BY <1>3, <1>4 DEF Quote, Delim, LF, CR
  <2> QED BY <1>2, <2>1, ReadingStays
<1> QED BY <1>1, <1>2, <1>4, <1>6, <1>7, FlagsTrack

\* Quotes.
LEMMA QuotesTracked ==
    ASSUME IInv, IInv', TypeOK, Tracks,
           \/ ScanQuoteOpen \/ ScanQuoteClose \/ ScanQuoteDoubled
           \/ ScanQuotePending \/ ScanQuoteMidCell
    PROVE  Tracks'
<1>1. AtByte(Quote)
  BY DEF ScanQuoteOpen, ScanQuoteClose, ScanQuoteDoubled, ScanQuotePending, ScanQuoteMidCell,
         AtInnerQuote
<1>2. PICK k, c, m, s :
             /\ Here(k, c, m, s) /\ doc \in Seq(Byte) /\ c \in Nat /\ m \in Nat
             /\ c + m + 1 = k /\ c + m + 1 <= Len(doc) /\ doc[k] = Quote
             /\ skip_next_delim = FALSE /\ "PENDING" \notin quoted
             /\ QuotesTrack(doc, c, m, quoted, quote_close_position, FALSE)
             /\ (ReadsOpen(s, doc, k) <=> Open) /\ (AfterCr(doc, k) <=> scanner_last = CR)
             /\ (i = cell_start <=> m = 0) /\ i - cell_start = m
  BY <1>1, LookedAt
<1>3. RefStep(s, doc, k) = s
  <2>1. doc[k] \notin {Delim, LF, CR}
    BY <1>2 DEF Quote, Delim, LF, CR
  <2> QED BY <1>2, <2>1, ReadingStays
<1>4. pc = "scan" /\ i < Len(buf) /\ i \in Nat /\ Len(buf) \in Nat /\ Len(doc) \in Nat
  BY <1>1, LenProperties DEF AtByte, IInv, Scanning, WhileScanning, Numbers, BufferShape
<1>5. ~buffer_exceeded
  BY DEF Tracks
<1>6. i + 1 < Len(buf) => c + m + 1 < Len(doc) /\ buf[i + 2] = doc[c + (m + 1) + 1]
  <2>1. PICK b : b = Base
    OBVIOUS
  <2>2. b = pos - Len(buf) /\ pos \in Nat
    BY <1>4, <2>1 DEF Base, IInv, Scanning, WhileScanning, Numbers
  <2>6. /\ pos <= Len(doc) /\ Len(buf) <= pos
        /\ \A j \in 1..Len(buf) : buf[j] = doc[b + j]
    BY <2>1, Zenon DEF Tracks, BufferTracks
  <2>3. k = b + i + 1
    BY <1>2, <2>1 DEF Here
  <2> SUFFICES ASSUME i + 1 < Len(buf)
               PROVE  c + m + 1 < Len(doc) /\ buf[i + 2] = doc[c + (m + 1) + 1]
    OBVIOUS
  <2>7. c \in Nat /\ m \in Nat /\ c + m + 1 = b + i + 1
    BY <1>2, <2>3
  <2>8. i \in Nat /\ Len(buf) \in Nat /\ Len(doc) \in Nat
    BY <1>4
  <2>4. i + 2 \in 1..Len(buf) /\ b + (i + 2) = c + (m + 1) + 1 /\ c + m + 1 < Len(doc)
    <3>1. b \in Int /\ pos = b + Len(buf) /\ Len(doc) >= pos
      BY <2>2, <2>6, <2>8
    <3>2. i + 2 \in 1..Len(buf)
      BY <2>8
    <3>3. c + m + 1 < Len(doc)
      BY <2>7, <2>8, <3>1
    <3> QED BY <2>7, <2>8, <3>1, <3>2, <3>3
  <2>5. buf[i + 2] = doc[b + (i + 2)]
    BY <2>4, <2>6
  <2> QED BY <2>4, <2>5
<1>7. CASE ScanQuoteOpen
  <2>1. /\ Advance({"UNCLOSED"}) /\ quote_close_position' = 0 /\ skip_next_delim' = FALSE /\ m = 0
    BY <1>2, <1>7 DEF ScanQuoteOpen
  <2>2. c + 1 <= Len(doc) /\ doc[c + 1] = Quote /\ m + 1 = 1
    BY <1>2, <2>1
  <2>3. QuotesTrack(doc, c, m + 1, {"UNCLOSED"}, quote_close_position', skip_next_delim')
    <3>1. QuotesTrack(doc, c, 1, {"UNCLOSED"}, 0, FALSE)
      BY <1>2, <2>2, OpeningQuoteTracks
    <3> QED BY <2>1, <2>2, <3>1
  <2>4. "PENDING" \notin {"UNCLOSED"}
    OBVIOUS
  <2> QED BY <1>2, <1>3, <1>4, <2>1, <2>3, <2>4, FlagsTrack
<1>8. CASE ScanQuoteClose \/ ScanQuoteDoubled \/ ScanQuotePending
  <2>1. "UNCLOSED" \in quoted
    BY <1>8 DEF ScanQuoteClose, ScanQuoteDoubled, ScanQuotePending, AtInnerQuote, Open
  <2>6. PICK q, z : q = quoted /\ z = quote_close_position
    OBVIOUS
  <2>7. /\ doc \in Seq(Byte) /\ c \in Nat /\ m \in Nat /\ c + m + 1 <= Len(doc)
        /\ doc[c + m + 1] = Quote /\ QuotesTrack(doc, c, m, q, z, FALSE)
        /\ "PENDING" \notin q /\ "UNCLOSED" \in q
    BY <1>2, <2>1, <2>6
  <2>8. /\ m >= 1 /\ z = 0
        /\ c + m + 1 < Len(doc) /\ doc[c + (m + 1) + 1] # Quote =>
             /\ QuotesTrack(doc, c, m + 1, (q \cup {"CLOSED"}) \ {"UNCLOSED"}, m, FALSE)
             /\ "PENDING" \notin (q \cup {"CLOSED"}) \ {"UNCLOSED"}
        /\ c + m + 1 < Len(doc) /\ doc[c + (m + 1) + 1] = Quote =>
             QuotesTrack(doc, c, m + 1, q \cup {"NEEDED", "EMBEDDED"}, z, TRUE)
        /\ QuotesTrack(doc, c, m + 1, q \cup {"PENDING"}, z, FALSE)
    BY <2>7, InnerQuoteTracks
  <2>2. /\ m >= 1 /\ quote_close_position = 0
        /\ c + m + 1 < Len(doc) /\ doc[c + (m + 1) + 1] # Quote =>
             /\ QuotesTrack(doc, c, m + 1, (quoted \cup {"CLOSED"}) \ {"UNCLOSED"}, m, FALSE)
             /\ "PENDING" \notin (quoted \cup {"CLOSED"}) \ {"UNCLOSED"}
        /\ c + m + 1 < Len(doc) /\ doc[c + (m + 1) + 1] = Quote =>
             QuotesTrack(doc, c, m + 1, quoted \cup {"NEEDED", "EMBEDDED"},
                         quote_close_position, TRUE)
        /\ QuotesTrack(doc, c, m + 1, quoted \cup {"PENDING"}, quote_close_position, FALSE)
    BY <2>6, <2>8
  <2>3. CASE ScanQuoteClose
    <3>1. /\ Advance((quoted \cup {"CLOSED"}) \ {"UNCLOSED"})
          /\ i + 1 < Len(buf) /\ buf[i + 2] # Quote
          /\ quote_close_position' = i - cell_start /\ skip_next_delim' = FALSE
      BY <1>2, <2>2, <2>3 DEF ScanQuoteClose
    <3>2. /\ QuotesTrack(doc, c, m + 1, (quoted \cup {"CLOSED"}) \ {"UNCLOSED"},
                         quote_close_position', skip_next_delim')
          /\ "PENDING" \notin (quoted \cup {"CLOSED"}) \ {"UNCLOSED"}
      BY <1>2, <1>6, <2>2, <3>1
    <3> QED BY <1>2, <1>3, <1>4, <3>1, <3>2, FlagsTrack
  <2>4. CASE ScanQuoteDoubled
    <3>1. /\ Advance(quoted \cup {"NEEDED", "EMBEDDED"})
          /\ i + 1 < Len(buf) /\ buf[i + 2] = Quote
          /\ quote_close_position' = quote_close_position /\ skip_next_delim' = TRUE
      BY <2>4 DEF ScanQuoteDoubled
    <3>2. /\ QuotesTrack(doc, c, m + 1, quoted \cup {"NEEDED", "EMBEDDED"},
                         quote_close_position', skip_next_delim')
          /\ "PENDING" \notin quoted \cup {"NEEDED", "EMBEDDED"}
      BY <1>2, <1>6, <2>2, <3>1
    <3> QED BY <1>2, <1>3, <1>4, <3>1, <3>2, FlagsTrack
  <2>5. CASE ScanQuotePending
    <3>1. /\ Advance(quoted \cup {"PENDING"}) /\ i + 1 = Len(buf)
          /\ quote_close_position' = quote_close_position /\ skip_next_delim' = FALSE
      BY <1>2, <2>5 DEF ScanQuotePending
    <3>2. QuotesTrack(doc, c, m + 1, quoted \cup {"PENDING"}, quote_close_position',
                      skip_next_delim')
      BY <2>2, <3>1
    <3> QED BY <1>2, <1>3, <1>4, <3>1, <3>2, FlagsTrack
  <2> QED BY <1>8, <2>3, <2>4, <2>5
<1>9. CASE ScanQuoteMidCell
  <2>1. /\ Advance(quoted \cup {"EMBEDDED"}) /\ skip_next_delim' = FALSE
        /\ quote_close_position' = (IF "CLOSED" \in quoted THEN quote_close_position ELSE 0)
        /\ "UNCLOSED" \notin quoted /\ m # 0
    BY <1>2, <1>5, <1>9 DEF ScanQuoteMidCell, Open
  <2>2. /\ QuotesTrack(doc, c, m + 1, quoted \cup {"EMBEDDED"}, quote_close_position', FALSE)
        /\ "PENDING" \notin quoted \cup {"EMBEDDED"}
    <3>1. m \in Nat \ {0}
      BY <1>2, <2>1
    <3>2. PICK y : y = IF "CLOSED" \in quoted THEN quote_close_position ELSE 0
      OBVIOUS
    <3>3. /\ QuotesTrack(doc, c, m + 1, quoted \cup {"EMBEDDED"}, y, FALSE)
          /\ "PENDING" \notin quoted \cup {"EMBEDDED"}
      BY <1>2, <2>1, <3>1, <3>2, StrayQuoteTracks
    <3> QED BY <2>1, <3>2, <3>3
  <2>3. QuotesTrack(doc, c, m + 1, quoted \cup {"EMBEDDED"}, quote_close_position',
                    skip_next_delim')
    BY <2>1, <2>2
  <2> QED BY <1>2, <1>3, <1>4, <2>1, <2>2, <2>3, FlagsTrack
<1> QED BY <1>7, <1>8, <1>9

\* A cell that begins holds no quote.
LEMMA NothingRead ==
    ASSUME NEW d, NEW c, NEW z
    PROVE  QuotesTrack(d, c, 0, {}, z, FALSE)
BY DEF QuotesTrack, PlainCell

\* An empty cell has no flags.
LEMMA EmptyCellHasNoFlags ==
    ASSUME NEW d, NEW c, NEW q, NEW z, QuotesTrack(d, c, 0, q, z, FALSE), "PENDING" \notin q
    PROVE  q = {}
BY DEF QuotesTrack, PlainCell, OpenedCell, ClosedCell

\* cell_dl() reads a cell that lies in the buffer from its bytes alone.
LEMMA ValueOfRaw ==
    ASSUME NEW b, NEW st, NEW n, NEW q, NEW z, st + n <= Len(b)
    PROVE  CellValue(b, st, n, q, z) = CellText(SubSeq(b, st + 1, st + n), n, q, z)
<1>1. PICK raw : raw = SubSeq(b, st + 1, st + n)
  OBVIOUS
<1>2. raw = SubSeq(b, st + 1, IF st + n <= Len(b) THEN st + n ELSE Len(b))
  BY <1>1
<1>3. CellValue(b, st, n, q, z) = CellText(raw, n, q, z)
  BY <1>2, Zenon DEF CellValue, CellText
<1> QED BY <1>1, <1>3

\* The cell that ends at this byte has the text it has in the document.
LEMMA CellHere ==
    ASSUME IInv, Tracks, ~OnlyCrlf, pc = "scan", i < Len(buf),
           NEW k, NEW c, NEW m, NEW s, Here(k, c, m, s), skip_next_delim = FALSE, ~Open
    PROVE  CellValue(buf, cell_start, m, quoted, quote_close_position)
             = RefValue(SubSeq(doc, c + 1, k - 1))
<1>0. /\ doc \in Seq(Byte) /\ buf \in Seq(Byte) /\ Len(doc) \in Nat /\ Len(buf) \in Nat
      /\ pos \in Nat /\ i \in Nat /\ cell_start \in Int /\ 0 <= cell_start
  BY LenProperties DEF IInv, Scanning, WhileScanning, Numbers, BufferShape
<1>1. PICK b : b = Base
  OBVIOUS
<1>2. \A j \in 1..Len(buf) : buf[j] = doc[b + j]
  BY <1>1, Zenon DEF Tracks, BufferTracks
<1>3. Len(buf) <= pos /\ pos <= Len(doc) /\ b = pos - Len(buf)
  BY <1>1 DEF Tracks, BufferTracks, Base
<1>4. /\ c = b + cell_start /\ m = i - cell_start /\ c \in Nat /\ m \in Nat /\ c + m = k - 1
      /\ k \in 1..Len(doc)
      /\ QuotesTrack(doc, c, m, quoted, quote_close_position, FALSE)
  BY <1>1 DEF Here
<1>5. /\ b \in Nat /\ b + Len(buf) <= Len(doc) /\ cell_start \in Nat
      /\ cell_start + m <= Len(buf) /\ c + m <= Len(doc)
  BY <1>0, <1>3, <1>4
<1>6. PICK raw : raw = SubSeq(buf, cell_start + 1, cell_start + m)
  OBVIOUS
<1>7. raw = SubSeq(doc, c + 1, c + m)
  <2>1. SubSeq(buf, cell_start + 1, cell_start + m)
          = SubSeq(doc, (b + cell_start) + 1, (b + cell_start) + m)
    <3>1. PICK st, bb : st = cell_start /\ bb = buf
      OBVIOUS
    <3>2. /\ bb \in Seq(Byte) /\ doc \in Seq(Byte) /\ b \in Nat /\ b + Len(bb) <= Len(doc)
          /\ st \in Nat /\ m \in Nat /\ st + m <= Len(bb)
          /\ \A x \in 1..Len(bb) : bb[x] = doc[b + x]
      BY <1>0, <1>2, <1>4, <1>5, <3>1
    <3>3. SubSeq(bb, st + 1, st + m) = SubSeq(doc, (b + st) + 1, (b + st) + m)
      BY <3>2, BufferPiece
    <3> QED BY <3>1, <3>3
  <2> QED BY <1>4, <1>6, <2>1
<1>8. "PENDING" \notin quoted /\ "UNCLOSED" \notin quoted
  BY KnownHere DEF Open
<1>9. Quote \in Byte
  BY DEF Byte
<1>10. CellText(raw, m, quoted, quote_close_position) = RefValue(raw)
  <2>1. PICK q, z : q = quoted /\ z = quote_close_position
    OBVIOUS
  <2>2. /\ c \in Nat /\ m \in Nat /\ c + m <= Len(doc) /\ QuotesTrack(doc, c, m, q, z, FALSE)
        /\ "PENDING" \notin q /\ "UNCLOSED" \notin q
    BY <1>4, <1>5, <1>8, <2>1
  <2>3. doc \in Seq(Byte)
    BY <1>0
  <2>4. CellText(SubSeq(doc, c + 1, c + m), m, q, z) = RefValue(SubSeq(doc, c + 1, c + m))
    BY <1>9, <2>2, <2>3, CellIsRead
  <2> QED BY <1>7, <2>1, <2>4
<1>11. CellValue(buf, cell_start, m, quoted, quote_close_position)
         = CellText(raw, m, quoted, quote_close_position)
  <2>1. PICK q, z : q = quoted /\ z = quote_close_position
    OBVIOUS
  <2>2. PICK st, bb : st = cell_start /\ bb = buf
    OBVIOUS
  <2>3. st + m <= Len(bb) /\ raw = SubSeq(bb, st + 1, st + m)
    BY <1>5, <1>6, <2>2
  <2>4. CellValue(bb, st, m, q, z) = CellText(SubSeq(bb, st + 1, st + m), m, q, z)
    BY <2>3, ValueOfRaw
  <2> QED BY <2>1, <2>2, <2>3, <2>4
<1> QED BY <1>4, <1>7, <1>10, <1>11

\* The row with the cell that cell_dl() stores is the document's.
LEMMA CellStored ==
    ASSUME ~buffer_exceeded, NEW s, NEW j, IsReading(s, j), CellsTrack(s), NEW n, NEW to
    PROVE  /\ IsSequence(WithCell(n)) /\ Len(WithCell(n)) = Len(RefAddCell(s, doc, to))
           /\ ~OnlyCrlf /\ CellValue(buf, cell_start, n, quoted, quote_close_position)
                              = RefValue(SubSeq(doc, s.cell + 1, to))
                => WithCell(n) = RefAddCell(s, doc, to)
<1>1. IsSequence(row) /\ Len(row) = Len(s.row) /\ (~OnlyCrlf => row = s.row)
  BY DEF CellsTrack
<1>2. PICK x : x = CellValue(buf, cell_start, n, quoted, quote_close_position)
  OBVIOUS
<1>3. WithCell(n) = IF Len(row) < MaxCols THEN Append(row, x) ELSE row
  BY <1>2 DEF WithCell
<1>4. PICK y : y = RefValue(SubSeq(doc, s.cell + 1, to))
  OBVIOUS
<1>5. RefAddCell(s, doc, to) = IF Len(s.row) < MaxCols THEN Append(s.row, y) ELSE s.row
  BY <1>4 DEF RefAddCell
<1>6. CellValue(buf, cell_start, n, quoted, quote_close_position)
        = RefValue(SubSeq(doc, s.cell + 1, to)) => x = y
  BY <1>2, <1>4
<1>7. IsSequence(s.row)
  BY DEF IsReading
<1>8. /\ IsSequence(Append(row, x)) /\ Len(Append(row, x)) = Len(row) + 1
  BY <1>1, AppendIsSequence
<1>9. Len(Append(s.row, y)) = Len(s.row) + 1
  BY <1>7, AppendIsSequence
<1>10. IsSequence(WithCell(n)) /\ Len(WithCell(n)) = Len(RefAddCell(s, doc, to))
  BY <1>1, <1>3, <1>5, <1>8, <1>9
<1>11. ~OnlyCrlf /\ x = y => WithCell(n) = RefAddCell(s, doc, to)
  BY <1>1, <1>3, <1>5
<1> QED BY <1>6, <1>10, <1>11

\* A delimiter.
LEMMA DelimTracks ==
    ASSUME IInv, IInv', TypeOK, Tracks, ScanDelim
    PROVE  Tracks'
<1>1. /\ AtByte(Delim) /\ ~Open /\ doc' = doc /\ pos' = pos /\ buf' = buf /\ last' = last
      /\ pc' = pc /\ i' = i + 1 /\ cell_start' = i + 1 /\ row_start' = row_start
      /\ buffer_exceeded' = buffer_exceeded /\ out' = out /\ quoted' = {}
      /\ skip_next_delim' = skip_next_delim /\ row' = WithCell(i - cell_start)
  BY DEF ScanDelim, input
<1>2. PICK k, c, m, s :
             /\ Here(k, c, m, s) /\ doc \in Seq(Byte) /\ c \in Nat /\ m \in Nat
             /\ c + m + 1 = k /\ c + m + 1 <= Len(doc) /\ doc[k] = Delim
             /\ skip_next_delim = FALSE /\ "PENDING" \notin quoted
             /\ QuotesTrack(doc, c, m, quoted, quote_close_position, FALSE)
             /\ (ReadsOpen(s, doc, k) <=> Open) /\ (AfterCr(doc, k) <=> scanner_last = CR)
             /\ (i = cell_start <=> m = 0) /\ i - cell_start = m
  BY <1>1, LookedAt
<1>3. pc = "scan" /\ i < Len(buf) /\ pc' = "scan"
  BY <1>1 DEF AtByte
<1>4. /\ k \in Int /\ k = Base + i + 1 /\ s.cell = c /\ s.start = Base + row_start
      /\ IsReading(s, k - 1) /\ CellsTrack(s) /\ RowsTrack(s.rows)
      /\ RefStates(doc)[k] = RefStep(s, doc, k)
  BY <1>2 DEF Here
<1>5. ~buffer_exceeded /\ buffer_exceeded' = FALSE
  BY <1>1 DEF Tracks, TypeOK
<1>6. ~OnlyCrlf => CellValue(buf, cell_start, m, quoted, quote_close_position)
                     = RefValue(SubSeq(doc, s.cell + 1, k - 1))
  BY <1>1, <1>2, <1>3, <1>4, CellHere
<1>7. /\ IsSequence(WithCell(m)) /\ Len(WithCell(m)) = Len(RefAddCell(s, doc, k - 1))
      /\ ~OnlyCrlf => WithCell(m) = RefAddCell(s, doc, k - 1)
  BY <1>4, <1>5, <1>6, CellStored
<1>8. PICK t : t = RefStates(doc)[k]
  OBVIOUS
<1>9. t = [cell |-> k, start |-> s.start, row |-> RefAddCell(s, doc, k - 1), rows |-> s.rows]
  <2>1. s = [cell |-> s.cell, start |-> s.start, row |-> s.row, rows |-> s.rows]
    BY <1>4 DEF IsReading
  <2> QED BY <1>1, <1>2, <1>4, <1>8, <2>1, ReadingByByte
<1>10. CellsTrack(t)' /\ RowsTrack(t.rows)'
  <2>1. row' = WithCell(m) /\ t.row = RefAddCell(s, doc, k - 1) /\ t.rows = s.rows
    BY <1>1, <1>2, <1>9
  <2>2. CellsTrack(t)'
    BY <1>7, <2>1 DEF CellsTrack
  <2>3. RowsTrack(t.rows)'
    BY <1>1, <1>4, <2>1 DEF RowsTrack
  <2> QED BY <2>2, <2>3
<1>11. t.cell = k /\ t.start = Base + row_start' /\ k = Base + cell_start' /\ k - k = 0
  <2>1. PICK b : b = Base
    OBVIOUS
  <2>2. b \in Int /\ i \in Int
    <3>1. pos \in Int /\ i \in Int /\ buf \in Seq(Byte)
      BY <1>3 DEF IInv, Scanning, WhileScanning, Numbers
    <3> QED BY <2>1, <3>1, LenProperties DEF Base
  <2>3. k = b + (i + 1)
    BY <1>4, <2>1, <2>2
  <2> QED BY <1>1, <1>4, <1>9, <2>1, <2>3
<1>12. QuotesTrack(doc, k, k - k, quoted', quote_close_position', skip_next_delim')
  <2>1. QuotesTrack(doc, k, 0, {}, quote_close_position', FALSE)
    BY NothingRead
  <2> QED BY <1>1, <1>2, <1>11, <2>1
<1>13. PICK rr : rr = Base + row_start'
  OBVIOUS
<1>14. "PENDING" \notin quoted'
  BY <1>1
<1>15. \/ pc' = "scan" /\ i' = i + 1 /\ k = Base + cell_start' /\ rr = Base + row_start'
       \/ pc' = "row" /\ i' = i /\ k = k /\ rr = k
  BY <1>1, <1>3, <1>11, <1>13
<1>16. t.cell = k /\ t.start = rr
  BY <1>11, <1>13
<1> QED BY <1>1, <1>2, <1>3, <1>5, <1>8, <1>10, <1>12, <1>14, <1>15, <1>16, ByteTracks

\* A CR, or an LF that does not end a row, under --only-crlf.
LEMMA LoneRowEndTracks ==
    ASSUME IInv, IInv', TypeOK, Tracks,
           ScanCRonlyCrlf \/ (ScanLFonlyCrlf /\ scanner_last # CR)
    PROVE  Tracks'
<1>1. PICK ch, q : /\ AtByte(ch) /\ OnlyCrlf /\ Advance(q) /\ ch # Quote
                   /\ quoted \subseteq q /\ q \subseteq quoted \cup {"NEEDED", "PENDING_LF"}
                   /\ ch = CR \/ (ch = LF /\ scanner_last # CR)
                   /\ UNCHANGED <<skip_next_delim, quote_close_position>>
  <2>1. CASE ScanCRonlyCrlf
    <3>1. PICK x \in {"NEEDED", "PENDING_LF"} : Advance(quoted \cup {x})
      BY <2>1 DEF ScanCRonlyCrlf
    <3>2. AtByte(CR) /\ OnlyCrlf /\ UNCHANGED <<skip_next_delim, quote_close_position>>
      BY <2>1 DEF ScanCRonlyCrlf
    <3>3. CR # Quote
      BY DEF CR, Quote
    <3> QED BY <3>1, <3>2, <3>3
  <2>2. CASE ScanLFonlyCrlf /\ scanner_last # CR
    <3>1. /\ AtByte(LF) /\ OnlyCrlf /\ Advance(quoted \cup {"NEEDED"})
          /\ UNCHANGED <<skip_next_delim, quote_close_position>>
      BY <2>2 DEF ScanLFonlyCrlf
    <3>2. LF # Quote
      BY DEF LF, Quote
    <3> QED BY <2>2, <3>1, <3>2
  <2> QED BY <2>1, <2>2
<1>2. PICK k, c, m, s :
             /\ Here(k, c, m, s) /\ doc \in Seq(Byte) /\ c \in Nat /\ m \in Nat
             /\ c + m + 1 = k /\ c + m + 1 <= Len(doc) /\ doc[k] = ch
             /\ skip_next_delim = FALSE /\ "PENDING" \notin quoted
             /\ QuotesTrack(doc, c, m, quoted, quote_close_position, FALSE)
             /\ (ReadsOpen(s, doc, k) <=> Open) /\ (AfterCr(doc, k) <=> scanner_last = CR)
             /\ (i = cell_start <=> m = 0) /\ i - cell_start = m
  BY <1>1, LookedAt
<1>3. RefStep(s, doc, k) = s
  BY <1>1, <1>2, ReadingStays
<1>5. QuotesTrack(doc, c, m + 1, q, quote_close_position, FALSE) /\ "PENDING" \notin q
  BY <1>1, <1>2, OtherByteTracks
<1>6. pc = "scan" /\ i < Len(buf) /\ skip_next_delim' = FALSE
      /\ quote_close_position' = quote_close_position
  BY <1>1, <1>2 DEF AtByte
<1>7. QuotesTrack(doc, c, m + 1, q, quote_close_position', skip_next_delim')
  BY <1>5, <1>6
<1>8. Here(k, c, m, s) /\ Advance(q)
  BY <1>1, <1>2
<1> QED BY <1>3, <1>5, <1>6, <1>7, <1>8, FlagsTrack

\* The LF after the CR that ended the row.
LEMMA HalfRowEndTracks ==
    ASSUME IInv, IInv', TypeOK, Tracks, ScanLFofCRLF
    PROVE  Tracks'
<1>1. /\ AtByte(LF) /\ ~Open /\ ~OnlyCrlf /\ scanner_last = CR
      /\ doc' = doc /\ pos' = pos /\ buf' = buf /\ last' = last
      /\ pc' = pc /\ i' = i + 1 /\ cell_start' = i + 1 /\ row_start' = i + 1
      /\ buffer_exceeded' = buffer_exceeded /\ out' = out /\ quoted' = quoted
      /\ skip_next_delim' = skip_next_delim /\ row' = row
  BY DEF ScanLFofCRLF, input, count, rowv
<1>2. PICK k, c, m, s :
             /\ Here(k, c, m, s) /\ doc \in Seq(Byte) /\ c \in Nat /\ m \in Nat
             /\ c + m + 1 = k /\ c + m + 1 <= Len(doc) /\ doc[k] = LF
             /\ skip_next_delim = FALSE /\ "PENDING" \notin quoted
             /\ QuotesTrack(doc, c, m, quoted, quote_close_position, FALSE)
             /\ (ReadsOpen(s, doc, k) <=> Open) /\ (AfterCr(doc, k) <=> scanner_last = CR)
             /\ (i = cell_start <=> m = 0) /\ i - cell_start = m
  BY <1>1, LookedAt
<1>3. pc = "scan" /\ i < Len(buf) /\ pc' = "scan"
  BY <1>1 DEF AtByte
<1>4. /\ k \in Int /\ k = Base + i + 1 /\ s.cell = c
      /\ IsReading(s, k - 1) /\ CellsTrack(s) /\ RowsTrack(s.rows)
      /\ RefStates(doc)[k] = RefStep(s, doc, k) /\ RowStartsAfterCr(doc, s, k - 1)
  BY <1>2 DEF Here
<1>5. buffer_exceeded' = FALSE
  BY <1>1 DEF Tracks, TypeOK
<1>6. m = 0
  <2>1. k - 1 > 0 /\ doc[k - 1] = CR
    BY <1>1, <1>2 DEF AfterCr
  <2>2. ~OpenCell(SubSeq(doc, s.cell + 1, k - 1))
    BY <1>1, <1>2 DEF ReadsOpen
  <2>3. s.start = k - 1
    BY <1>1, <1>4, <2>1, <2>2 DEF RowStartsAfterCr
  <2>4. s.cell \in 0..(k - 1) /\ s.start \in 0..s.cell
    BY <1>4 DEF IsReading
  <2> QED BY <1>2, <1>4, <2>3, <2>4
<1>7. quoted = {}
  <2>1. PICK q, z : q = quoted /\ z = quote_close_position
    OBVIOUS
  <2>2. QuotesTrack(doc, c, 0, q, z, FALSE) /\ "PENDING" \notin q
    BY <1>2, <1>6, <2>1
  <2>3. q = {}
    BY <2>2, EmptyCellHasNoFlags
  <2> QED BY <2>1, <2>3
<1>8. PICK t : t = RefStates(doc)[k]
  OBVIOUS
<1>9. t = [cell |-> k, start |-> k, row |-> s.row, rows |-> s.rows]
  <2>1. s = [cell |-> s.cell, start |-> s.start, row |-> s.row, rows |-> s.rows]
    BY <1>4 DEF IsReading
  <2> QED BY <1>1, <1>2, <1>4, <1>8, <2>1, ReadingByByte
<1>10. CellsTrack(t)' /\ RowsTrack(t.rows)'
  <2>1. row' = row /\ t.row = s.row /\ t.rows = s.rows
    BY <1>1, <1>9
  <2>2. CellsTrack(t)'
    BY <1>4, <2>1 DEF CellsTrack
  <2>3. RowsTrack(t.rows)'
    BY <1>1, <1>4, <2>1 DEF RowsTrack
  <2> QED BY <2>2, <2>3
<1>11. k = Base + row_start' /\ k = Base + cell_start' /\ k - k = 0
  <2>1. PICK b : b = Base
    OBVIOUS
  <2>2. b \in Int /\ i \in Int
    <3>1. pos \in Int /\ i \in Int /\ buf \in Seq(Byte)
      BY <1>3 DEF IInv, Scanning, WhileScanning, Numbers
    <3> QED BY <2>1, <3>1, LenProperties DEF Base
  <2>3. k = b + (i + 1)
    BY <1>4, <2>1, <2>2
  <2> QED BY <1>1, <1>4, <2>1, <2>3
<1>12. QuotesTrack(doc, k, k - k, quoted', quote_close_position', skip_next_delim')
  <2>1. QuotesTrack(doc, k, 0, {}, quote_close_position', FALSE)
    BY NothingRead
  <2> QED BY <1>1, <1>2, <1>7, <1>11, <2>1
<1>14. "PENDING" \notin quoted'
  BY <1>1, <1>7
<1>15. \/ pc' = "scan" /\ i' = i + 1 /\ k = Base + cell_start' /\ k = Base + row_start'
       \/ pc' = "row" /\ i' = i /\ k = k /\ k = k
  BY <1>1, <1>3, <1>11
<1>16. t.cell = k /\ t.start = k
  BY <1>9
<1> QED BY <1>1, <1>2, <1>3, <1>5, <1>8, <1>10, <1>12, <1>14, <1>15, <1>16, ByteTracks

\* One more row on both sides.
LEMMA RowAppended ==
    ASSUME OutIsSequence, NEW rows, IsSequence(rows), RowsTrack(rows), NEW o, NEW r,
           RowTracks(o, r), NEW more, more = Append(out, o), out' = more
    PROVE  RowsTrack(Append(rows, r))'
<1>1. /\ Len(more) = Len(out) + 1 /\ \A x \in 1..Len(out) : more[x] = out[x]
      /\ more[Len(out) + 1] = o /\ Len(out) \in Nat
  BY AppendToOut DEF OutIsSequence
<1>2. PICK new : new = Append(rows, r)
  OBVIOUS
<1>3. /\ Len(new) = Len(rows) + 1 /\ \A x \in 1..Len(rows) : new[x] = rows[x]
      /\ new[Len(rows) + 1] = r /\ Len(rows) \in Nat
  BY <1>2, AppendIsSequence
<1>4. Len(out) = Len(rows) /\ \A x \in 1..Len(out) : RowTracks(out[x], rows[x])
  BY DEF RowsTrack
<1>5. ASSUME NEW x \in 1..Len(more) PROVE RowTracks(more[x], new[x])
  <2>1. CASE x \in 1..Len(out)
    BY <1>1, <1>3, <1>4, <2>1
  <2>2. CASE x = Len(out) + 1
    BY <1>1, <1>3, <1>4, <2>2
  <2> QED BY <1>1, <1>5, <2>1, <2>2
<1>6. Len(more) = Len(new)
  BY <1>1, <1>3, <1>4
<1>7. Len(out') = Len(new) /\ \A x \in 1..Len(out') : RowTracks(out'[x], new[x])
  BY <1>5, <1>6
<1>8. RowsTrack(new)'
  BY <1>7 DEF RowsTrack
<1> QED BY <1>2, <1>8

\* A row end whose last cell has n bytes, where the document's row ends.
LEMMA RowEndTracks ==
    ASSUME IInv, IInv', TypeOK, Tracks, pc = "scan", i < Len(buf), skip_next_delim = FALSE, ~Open,
           NEW k, NEW c, NEW m, NEW s, Here(k, c, m, s), NEW n, RowEnd(n), NEW to,
           RefStep(s, doc, k) = RowEnded(s, doc, k, to),
           ~OnlyCrlf => n = m /\ to = k - 1
    PROVE  Tracks'
<1>1. /\ doc' = doc /\ pos' = pos /\ buf' = buf /\ last' = last
      /\ buffer_exceeded' = FALSE /\ quoted' = {} /\ row' = <<>>
      /\ skip_next_delim' = skip_next_delim
  BY DEF RowEnd, input
<1>2. ~buffer_exceeded /\ doc \in Seq(Byte)
  BY DEF Tracks, IInv, Scanning, WhileScanning
<1>3. /\ k \in Nat /\ k = Base + i + 1 /\ s.cell = c /\ s.start = Base + row_start
      /\ k - 1 = Base + i
      /\ IsReading(s, k - 1) /\ CellsTrack(s) /\ RowsTrack(s.rows) /\ IsSequence(s.rows)
      /\ RefStates(doc)[k] = RefStep(s, doc, k)
  <2>1. c + m = k - 1 /\ c = Base + cell_start /\ m = i - cell_start /\ k = Base + i + 1
        /\ k \in Nat
    BY DEF Here
  <2>2. PICK b : b = Base
    OBVIOUS
  <2>3. b \in Int /\ i \in Int
    <3>1. pos \in Int /\ i \in Int /\ buf \in Seq(Byte)
      BY DEF IInv, Scanning, WhileScanning, Numbers
    <3> QED BY <2>2, <3>1, LenProperties DEF Base
  <2>4. k - 1 = b + i
    BY <2>1, <2>2, <2>3
  <2> QED BY <2>1, <2>2, <2>4 DEF Here, IsReading
<1>4. PICK r : r = WithCell(n)
  OBVIOUS
<1>5. /\ IsSequence(r) /\ Len(r) = Len(RefAddCell(s, doc, to))
      /\ ~OnlyCrlf => r = RefAddCell(s, doc, to)
  <2>1. ~OnlyCrlf => CellValue(buf, cell_start, n, quoted, quote_close_position)
                       = RefValue(SubSeq(doc, s.cell + 1, to))
    BY <1>3, CellHere
  <2> QED BY <1>2, <1>3, <1>4, <2>1, CellStored
<1>6. PICK o : o = Delivered(r, "row", i, CumScanned(i, FALSE))
  OBVIOUS
<1>7. o.kind = "row" /\ o.cells = r /\ o.raw = i - row_start /\ o.at = Base + i
  BY <1>6 DEF Delivered
<1>8. out' = Append(out, o)
  <2>1. CASE api # "pull"
    BY <1>2, <1>4, <1>6, <2>1 DEF RowEnd, CallRowHandler
  <2>2. CASE api = "pull"
    <3>1. PulledRow(r) = r
      <4>1. PulledRow(r) = [x \in 1..Len(r) |-> IF x <= Len(r) THEN r[x] ELSE r[x]]
        BY <1>2 DEF PulledRow
      <4>2. r = [x \in 1..Len(r) |-> r[x]]
        BY <1>5 DEF IsSequence
      <4> QED BY <4>1, <4>2
    <3>2. out' = Append(out, Delivered(PulledRow(r), "row", i, CumScanned(i, FALSE)))
      BY <1>2, <1>4, <2>2 DEF RowEnd
    <3> QED BY <1>6, <3>1, <3>2
  <2> QED BY <2>1, <2>2
<1>9. PICK e : e = [cells |-> RefAddCell(s, doc, to), start |-> s.start, at |-> k - 1]
  OBVIOUS
<1>10. RowTracks(o, e)
  <2>1. e.cells = RefAddCell(s, doc, to) /\ e.start = s.start /\ e.at = k - 1
    BY <1>9
  <2>2. (Base + i) - (i - row_start) = Base + row_start
    <3>1. PICK b : b = Base
      OBVIOUS
    <3>2. b \in Int /\ i \in Int /\ row_start \in Int
      <4>1. pos \in Int /\ i \in Int /\ row_start \in Int /\ buf \in Seq(Byte)
        BY DEF IInv, Scanning, WhileScanning, Numbers
      <4> QED BY <3>1, <4>1, LenProperties DEF Base
    <3> QED BY <3>1, <3>2
  <2>3. o.at = e.at /\ o.at - o.raw = e.start
    BY <1>3, <1>7, <2>1, <2>2
  <2>4. Len(o.cells) = Len(e.cells) /\ (~OnlyCrlf => o.cells = e.cells)
    BY <1>5, <1>7, <2>1
  <2> QED BY <1>7, <2>3, <2>4 DEF RowTracks
<1>11. PICK t : t = RefStates(doc)[k]
  OBVIOUS
<1>12. t = [cell |-> k, start |-> k, row |-> <<>>, rows |-> Append(s.rows, e)]
  BY <1>3, <1>9, <1>11 DEF RowEnded
<1>13. RowsTrack(t.rows)'
  <2>1. OutIsSequence
    BY DEF IInv
  <2>2. RowsTrack(Append(s.rows, e))'
    BY <1>3, <1>8, <1>10, <2>1, RowAppended
  <2> QED BY <1>12, <2>2
<1>14. CellsTrack(t)'
  <2>1. t.row = <<>> /\ row' = <<>>
    BY <1>1, <1>12
  <2> QED BY <2>1, EmptyIsSequence DEF CellsTrack
<1>15. \/ pc' = "scan" /\ i' = i + 1 /\ k = Base + cell_start' /\ k = Base + row_start'
       \/ pc' = "row" /\ i' = i /\ k = k /\ k = k
  <2>1. CASE api = "pull"
    BY <2>1 DEF RowEnd
  <2>2. CASE api # "pull"
    <3>1. pc' = "scan" /\ i' = i + 1 /\ cell_start' = i + 1 /\ row_start' = i + 1
      BY <2>2 DEF RowEnd
    <3>2. k = Base + (i + 1)
      <4>1. PICK b : b = Base
        OBVIOUS
      <4>2. b \in Int /\ i \in Int
        <5>1. pos \in Int /\ i \in Int /\ buf \in Seq(Byte)
          BY DEF IInv, Scanning, WhileScanning, Numbers
        <5> QED BY <4>1, <5>1, LenProperties DEF Base
      <4> QED BY <1>3, <4>1, <4>2
    <3> QED BY <3>1, <3>2
  <2> QED BY <2>1, <2>2
<1>16. QuotesTrack(doc, k, k - k, quoted', quote_close_position', skip_next_delim')
  <2>1. QuotesTrack(doc, k, 0, {}, quote_close_position', FALSE)
    BY NothingRead
  <2>2. k - k = 0
    BY <1>3
  <2> QED BY <1>1, <2>1, <2>2
<1>17. t.cell = k /\ t.start = k
  BY <1>12
<1>18. "PENDING" \notin quoted'
  BY <1>1
<1> QED BY <1>1, <1>11, <1>13, <1>14, <1>15, <1>16, <1>17, <1>18, ByteTracks

\* The bytes that end a row.
LEMMA RowEndsTrack ==
    ASSUME IInv, IInv', TypeOK, Tracks,
           ScanCR \/ ScanLF \/ (ScanLFonlyCrlf /\ scanner_last = CR)
    PROVE  Tracks'
<1>1. PICK ch : AtByte(ch) /\ ~Open /\ ch \in {CR, LF}
  BY DEF ScanCR, ScanLF, ScanLFonlyCrlf
<1>2. PICK k, c, m, s :
             /\ Here(k, c, m, s) /\ doc \in Seq(Byte) /\ c \in Nat /\ m \in Nat
             /\ c + m + 1 = k /\ c + m + 1 <= Len(doc) /\ doc[k] = ch
             /\ skip_next_delim = FALSE /\ "PENDING" \notin quoted
             /\ QuotesTrack(doc, c, m, quoted, quote_close_position, FALSE)
             /\ (ReadsOpen(s, doc, k) <=> Open) /\ (AfterCr(doc, k) <=> scanner_last = CR)
             /\ (i = cell_start <=> m = 0) /\ i - cell_start = m
  BY <1>1, LookedAt
<1>3. pc = "scan" /\ i < Len(buf)
  BY <1>1 DEF AtByte
<1>4. s = [cell |-> s.cell, start |-> s.start, row |-> s.row, rows |-> s.rows]
  BY <1>2 DEF Here, IsReading
<1>5. CASE ScanCR \/ ScanLF
  <2>1. RowEnd(m) /\ ~OnlyCrlf
    BY <1>2, <1>5 DEF ScanCR, ScanLF
  <2>2. ch = CR \/ (ch = LF /\ scanner_last # CR)
    <3>1. CASE ScanCR
      BY <1>1, <3>1 DEF ScanCR, AtByte, CR, LF
    <3>2. CASE ScanLF
      BY <1>1, <3>2 DEF ScanLF, AtByte, CR, LF
    <3> QED BY <1>5, <3>1, <3>2
  <2>3. RefStep(s, doc, k) = RowEnded(s, doc, k, k - 1)
    BY <1>1, <1>2, <1>4, <2>1, <2>2, ReadingByByte
  <2> QED BY <1>1, <1>2, <1>3, <2>1, <2>3, RowEndTracks
<1>6. CASE ScanLFonlyCrlf /\ scanner_last = CR
  <2>1. RowEnd(m - 1) /\ OnlyCrlf /\ ch = LF
    BY <1>1, <1>2, <1>6 DEF ScanLFonlyCrlf, AtByte, LF, CR
  <2>2. RefStep(s, doc, k) = RowEnded(s, doc, k, k - 2)
    BY <1>1, <1>2, <1>4, <1>6, <2>1, ReadingByByte
  <2> QED BY <1>1, <1>2, <1>3, <2>1, <2>2, RowEndTracks
<1> QED BY <1>5, <1>6

\* The end of a piece.
LEMMA ChunkEndTracks ==
    ASSUME IInv, IInv', TypeOK, Tracks, EndOfChunk
    PROVE  Tracks'
<1>1. /\ pc = "scan" /\ i >= Len(buf) /\ pc' = "ready" /\ old_bytes_read' = Len(buf)
      /\ doc' = doc /\ pos' = pos /\ buf' = buf /\ last' = last /\ i' = i
      /\ cell_start' = cell_start /\ row_start' = row_start /\ quoted' = quoted
      /\ quote_close_position' = quote_close_position /\ skip_next_delim' = skip_next_delim
      /\ row' = row /\ out' = out /\ buffer_exceeded' = buffer_exceeded
  BY DEF EndOfChunk, input, regs, cellv, rowv
<1>2. /\ pos \in Int /\ i \in Int /\ buf \in Seq(Byte) /\ i <= Len(buf) /\ 0 < Len(buf)
      /\ (skip_next_delim => i < Len(buf))
  BY <1>1 DEF IInv, Scanning, WhileScanning, Numbers, BufferShape
<1>3. Len(buf) \in Int
  BY <1>2, LenProperties
<1>4. AtPos' = AtPos
  <2>1. i = Len(buf) /\ AtPos = Base + i /\ AtPos' = pos
    BY <1>1, <1>2, <1>3 DEF AtPos
  <2> QED BY <1>2, <1>3, <2>1 DEF Base
<1>5. CellPos' = CellPos /\ RowPos' = RowPos /\ Base' = Base
  BY <1>1 DEF CellPos, RowPos, Base
<1>6. BufferTracks'
  BY <1>1, <1>5 DEF Tracks, BufferTracks
<1>7. LastTracks'
  BY <1>1, <1>2, <1>3 DEF LastTracks
<1>8. StateTracks'
  <2>1. PICK t : t = RefStates(doc)[AtPos]
    OBVIOUS
  <2>2. t.cell = CellPos /\ t.start = RowPos /\ CellsTrack(t) /\ RowsTrack(t.rows)
    BY <2>1 DEF Tracks, StateTracks
  <2>3. CellsTrack(t)' /\ RowsTrack(t.rows)'
    BY <1>1, <2>2 DEF CellsTrack, RowsTrack
  <2>4. t = RefStates(doc')[AtPos']
    BY <1>1, <1>4, <2>1
  <2> QED BY <1>5, <2>2, <2>3, <2>4, Zenon DEF StateTracks
<1>9. PendingIsLast'
  BY <1>1, <1>2, <1>3 DEF PendingIsLast
<1>10. QuotesTrack(doc', CellPos', AtPos' - CellPos', quoted', quote_close_position',
                   skip_next_delim')
  BY <1>1, <1>4, <1>5 DEF Tracks
<1>11. ~buffer_exceeded'
  BY <1>1 DEF Tracks
<1> QED BY <1>6, <1>7, <1>8, <1>9, <1>10, <1>11, Zenon DEF Tracks

\* The call that follows a row of a pull parser.
LEMMA NextRowTracks ==
    ASSUME IInv, IInv', TypeOK, Tracks, NextRow
    PROVE  Tracks'
<1>1. /\ pc = "row" /\ pc' = "scan" /\ cell_start' = i + 1 /\ row_start' = i + 1 /\ i' = i + 1
      /\ doc' = doc /\ pos' = pos /\ buf' = buf /\ last' = last /\ quoted' = quoted
      /\ quote_close_position' = quote_close_position /\ skip_next_delim' = skip_next_delim
      /\ row' = row /\ out' = out /\ buffer_exceeded' = buffer_exceeded
  BY DEF NextRow, input, count
<1>2. pos \in Int /\ i \in Int /\ buf \in Seq(Byte) /\ 0 <= i
  BY <1>1 DEF IInv, Scanning, WhileScanning, Numbers, BufferShape
<1>3. Base' = Base /\ Base \in Int
  BY <1>1, <1>2, LenProperties DEF Base
<1>4. AtPos' = AtPos /\ CellPos' = AtPos /\ RowPos' = AtPos /\ CellPos = AtPos /\ RowPos = AtPos
  <2>1. AtPos = Base + i + 1 /\ CellPos = AtPos /\ RowPos = AtPos
    BY <1>1 DEF AtPos, CellPos, RowPos
  <2>2. AtPos' = Base' + i' /\ CellPos' = Base' + cell_start' /\ RowPos' = Base' + row_start'
    BY <1>1 DEF AtPos, CellPos, RowPos
  <2>3. PICK b : b = Base
    OBVIOUS
  <2>4. b \in Int /\ b + i + 1 = b + (i + 1)
    BY <1>2, <1>3, <2>3
  <2> QED BY <1>1, <1>3, <2>1, <2>2, <2>3, <2>4
<1>6. BufferTracks'
  BY <1>1, <1>3 DEF Tracks, BufferTracks
<1>7. LastTracks'
  BY <1>1, <1>2 DEF LastTracks
<1>8. StateTracks'
  <2>1. PICK t : t = RefStates(doc)[AtPos]
    OBVIOUS
  <2>2. t.cell = CellPos /\ t.start = RowPos /\ CellsTrack(t) /\ RowsTrack(t.rows)
    BY <2>1 DEF Tracks, StateTracks
  <2>3. CellsTrack(t)' /\ RowsTrack(t.rows)'
    BY <1>1, <2>2 DEF CellsTrack, RowsTrack
  <2>4. t = RefStates(doc')[AtPos']
    BY <1>1, <1>4, <2>1
  <2> QED BY <1>4, <2>2, <2>3, <2>4, Zenon DEF StateTracks
<1>9. PendingIsLast'
  BY <1>1 DEF PendingIsLast, Tracks
<1>10. QuotesTrack(doc', CellPos', AtPos' - CellPos', quoted', quote_close_position',
                   skip_next_delim')
  BY <1>1, <1>4 DEF Tracks
<1>11. ~buffer_exceeded'
  BY <1>1 DEF Tracks
<1> QED BY <1>6, <1>7, <1>8, <1>9, <1>10, <1>11, Zenon DEF Tracks

\* The scan loop.
LEMMA ScanTracks ==
    ASSUME IInv, IInv', TypeOK, Tracks, Scan
    PROVE  Tracks'
<1>1. CASE ScanOther \/ ScanQuotedSpecial
  BY <1>1, PlainBytesTrack
<1>2. CASE ScanSkipped
  BY <1>2, SkippedQuoteTracks
<1>3. CASE ScanDelim
  BY <1>3, DelimTracks
<1>4. CASE ScanCR \/ ScanLF
  BY <1>4, RowEndsTrack
<1>5. CASE ScanCRonlyCrlf
  BY <1>5, LoneRowEndTracks
<1>6. CASE ScanLFonlyCrlf
  BY <1>6, RowEndsTrack, LoneRowEndTracks
<1>7. CASE ScanLFofCRLF
  BY <1>7, HalfRowEndTracks
<1>8. CASE \/ ScanQuoteOpen \/ ScanQuoteClose \/ ScanQuoteDoubled
           \/ ScanQuotePending \/ ScanQuoteMidCell
  BY <1>8, QuotesTracked
<1>9. CASE EndOfChunk
  BY <1>9, ChunkEndTracks
<1> QED BY <1>1, <1>2, <1>3, <1>4, <1>5, <1>6, <1>7, <1>8, <1>9 DEF Scan

-----------------------------------------------------------------------------
(* Between the pieces of the input *)

\* Nothing is read at the start.
LEMMA InitTracks == ASSUME Init PROVE Tracks
<1>1. /\ pos = 0 /\ pc = "ready" /\ buf = <<>> /\ i = 0 /\ skip_next_delim = FALSE
      /\ cell_start = 0 /\ row_start = 0 /\ quoted = {} /\ row = <<>> /\ out = <<>>
      /\ buffer_exceeded = FALSE /\ doc \in Seq(Byte) /\ old_bytes_read = 0
  BY DocsAssumption DEF Init
<1>2. Len(buf) = 0 /\ Len(doc) \in Nat
  BY <1>1, LenProperties
<1>3. Base = 0 /\ AtPos = 0
  <2>1. pos = 0 /\ pc = "ready"
    BY <1>1
  <2>2. Base = 0
    BY <1>2, <2>1 DEF Base
  <2> QED BY <2>1, <2>2 DEF AtPos
<1>4. CellPos = 0 /\ RowPos = 0
  BY <1>1, <1>3 DEF CellPos, RowPos
<1>5. PICK s : s = [cell |-> 0, start |-> 0, row |-> <<>>, rows |-> <<>>]
  OBVIOUS
<1>6. RefStates(doc)[AtPos] = s /\ s.cell = 0 /\ s.start = 0 /\ s.row = <<>> /\ s.rows = <<>>
  BY <1>2, <1>3, <1>5, ReadingSteps
<1>7. StateTracks
  <2>1. CellsTrack(s)
    BY <1>1, <1>6, EmptyIsSequence DEF CellsTrack
  <2>2. RowsTrack(s.rows)
    BY <1>1, <1>6 DEF RowsTrack
  <2> QED BY <1>4, <1>6, <2>1, <2>2, Zenon DEF StateTracks
<1>8. BufferTracks /\ LastTracks /\ PendingIsLast
  BY <1>1, <1>2, <1>3 DEF BufferTracks, LastTracks, PendingIsLast
<1>9. QuotesTrack(doc, CellPos, AtPos - CellPos, quoted, quote_close_position, skip_next_delim)
  <2>1. QuotesTrack(doc, CellPos, 0, {}, quote_close_position, FALSE)
    BY NothingRead
  <2>2. AtPos - CellPos = 0
    BY <1>3, <1>4
  <2> QED BY <1>1, <2>1, <2>2
<1> QED BY <1>1, <1>7, <1>8, <1>9, Zenon DEF Tracks

\* A step that moves neither the scanner nor what it has read.
LEMMA SamePlaceTracks ==
    ASSUME Tracks, doc' = doc, AtPos' = AtPos, CellPos' = CellPos, RowPos' = RowPos,
           row' = row, out' = out, quoted' = quoted, skip_next_delim' = skip_next_delim,
           quote_close_position' = quote_close_position, buffer_exceeded' = buffer_exceeded,
           BufferTracks', LastTracks', PendingIsLast'
    PROVE  Tracks'
<1>1. StateTracks'
  <2>1. PICK t : t = RefStates(doc)[AtPos]
    OBVIOUS
  <2>2. t.cell = CellPos /\ t.start = RowPos /\ CellsTrack(t) /\ RowsTrack(t.rows)
    BY <2>1 DEF Tracks, StateTracks
  <2>3. CellsTrack(t)' /\ RowsTrack(t.rows)'
    BY <2>2 DEF CellsTrack, RowsTrack
  <2>4. t = RefStates(doc')[AtPos']
    BY <2>1
  <2> QED BY <2>2, <2>3, <2>4, Zenon DEF StateTracks
<1>2. QuotesTrack(doc', CellPos', AtPos' - CellPos', quoted', quote_close_position',
                  skip_next_delim')
  BY DEF Tracks
<1>3. ~buffer_exceeded'
  BY DEF Tracks
<1> QED BY <1>1, <1>2, <1>3, Zenon DEF Tracks

\* The end of an input, and the next input.
LEMMA InputEndTracks ==
    ASSUME CR \notin InputEnds, IInv, IInv', TypeOK, Tracks, ReadEof \/ SetInput
    PROVE  Tracks'
<1>1. /\ doc' = doc /\ pos' = pos /\ buf' = buf /\ i' = i /\ last' = last
      /\ cell_start' = cell_start /\ row_start' = row_start /\ quoted' = quoted
      /\ quote_close_position' = quote_close_position /\ skip_next_delim' = skip_next_delim
      /\ row' = row /\ out' = out /\ buffer_exceeded' = buffer_exceeded
      /\ old_bytes_read' = old_bytes_read
      /\ pc \in {"read", "eof"} /\ pc' \in {"eof", "ready"}
  BY DEF ReadEof, SetInput, input, regs, cellv, count, rowv
<1>2. AtPos' = AtPos /\ CellPos' = CellPos /\ RowPos' = RowPos /\ Base' = Base
  BY <1>1 DEF AtPos, CellPos, RowPos, Base
<1>3. BufferTracks'
  BY <1>1, <1>2 DEF Tracks, BufferTracks
<1>4. PendingIsLast'
  BY <1>1 DEF Tracks, PendingIsLast
<1>5. LastTracks'
  <2>1. CASE ReadEof
    <3>1. pc = "read" /\ pc' = "eof" /\ LastIs(pos)
      BY <2>1 DEF ReadEof, Tracks, LastTracks
    <3>2. LastIs(pos)'
      BY <1>1, <3>1 DEF LastIs
    <3>3. pos < Len(doc) => pos > 0 /\ doc[pos] # CR
      <4>1. pos \in Nat /\ Len(doc) \in Nat
        BY <3>1, LenProperties DEF IInv, Scanning, WhileScanning, Numbers, BufferTracks, Tracks,
                                   TypeOK
      <4>2. pos < Len(doc) => last # NUL /\ doc[pos] \in InputEnds
        BY <2>1, <4>1 DEF ReadEof
      <4> QED BY <3>1, <4>1, <4>2 DEF LastIs
    <3> QED BY <1>1, <3>1, <3>2, <3>3 DEF LastTracks
  <2>2. CASE SetInput
    <3>1. pc = "eof" /\ pc' = "ready" /\ pos < Len(doc)
      BY <2>2 DEF SetInput
    <3>2. doc[pos] # CR
      BY <3>1 DEF Tracks, LastTracks
    <3> QED BY <1>1, <3>1, <3>2 DEF LastTracks
  <2> QED BY <2>1, <2>2
<1> QED BY <1>1, <1>2, <1>3, <1>4, <1>5, SamePlaceTracks

\* The row moves to the front of the buffer, and with it the offsets.
LEMMA PreParseShifts ==
    ASSUME IInv, Tracks, PreParse
    PROVE  /\ buf' = SubSeq(buf, row_start + 1, Len(buf)) /\ row_start' = 0
           /\ cell_start' = cell_start - row_start /\ quoted' = quoted
           /\ doc' = doc /\ pos' = pos /\ pc' = "read" /\ pc = "ready"
           /\ IF old_bytes_read = 0 THEN last' = NUL
              ELSE last' = buf[Len(buf)] /\ 0 < Len(buf)
           /\ row_start \in 0..Len(buf) /\ Len(buf) \in Nat /\ cell_start \in Int
<1>1. /\ pc = "ready" /\ Shift /\ doc' = doc /\ pos' = pos /\ pc' = "read" /\ row_start' = 0
      /\ last' = IF old_bytes_read > 0 THEN buf[old_bytes_read] ELSE NUL
  BY DEF PreParse, Shift, input
<1>2. /\ buf \in Seq(Byte) /\ Len(buf) \in Nat /\ 0 <= row_start /\ row_start <= cell_start
      /\ row_start <= Len(buf) /\ row_start \in Int /\ cell_start \in Int
      /\ \/ old_bytes_read = 0 /\ row_start = 0 /\ partial_row_length = Len(buf)
         \/ old_bytes_read = Len(buf) /\ old_bytes_read > 0
  BY <1>1, LenProperties DEF IInv, Scanning, WhileScanning, Numbers, BufferShape
<1>3. CASE old_bytes_read = 0
  <2>1. row_start = 0 /\ partial_row_length = Len(buf)
    BY <1>2, <1>3
  <2>2. buf' = SubSeq(buf, 1, Len(buf)) /\ cell_start' = cell_start - row_start /\ quoted' = quoted
    BY <1>1, <1>3, <2>1 DEF Shift
  <2> QED BY <1>1, <1>2, <1>3, <2>1, <2>2
<1>4. CASE old_bytes_read # 0
  <2>1. old_bytes_read = Len(buf) /\ old_bytes_read > 0
    BY <1>2, <1>4
  <2>2. last' = buf[Len(buf)]
    BY <1>1, <2>1
  <2>3. CASE row_start < old_bytes_read
    BY <1>1, <1>2, <1>4, <2>1, <2>2, <2>3 DEF Shift
  <2>4. CASE ~(row_start < old_bytes_read)
    <3>1. row_start = Len(buf)
      BY <1>2, <2>1, <2>4
    <3>2. buf' = <<>> /\ cell_start' = 0 /\ quoted' = {}
      BY <1>1, <1>4, <2>4 DEF Shift
    <3>3. cell_start = Len(buf)
      BY <1>1, <1>2, <3>1 DEF IInv, Scanning, WhileScanning, CellShape, Tracks
    <3>4. SubSeq(buf, row_start + 1, Len(buf)) = <<>>
      BY <1>2, <3>1, SubSeqEmpty
    <3>5. quoted = {}
      <4>1. PICK q, z : q = quoted /\ z = quote_close_position
        OBVIOUS
      <4>2. pos \in Nat /\ AtPos = pos /\ CellPos = pos /\ AtPos - CellPos = 0
        <5>1. pos \in Nat
          BY <1>1 DEF IInv, Scanning, WhileScanning, Numbers
        <5> QED BY <1>1, <1>2, <3>3, <5>1 DEF AtPos, CellPos, Base
      <4>3. QuotesTrack(doc, pos, 0, q, z, skip_next_delim) /\ ~skip_next_delim
        BY <1>1, <4>1, <4>2 DEF Tracks, PendingIsLast
      <4>4. "PENDING" \notin q
        BY <4>3 DEF QuotesTrack, UndecidedCell
      <4>5. QuotesTrack(doc, pos, 0, q, z, FALSE)
        BY <4>3, <4>4 DEF QuotesTrack
      <4> QED BY <4>1, <4>4, <4>5, EmptyCellHasNoFlags
    <3> QED BY <1>1, <1>2, <1>4, <2>1, <2>2, <3>1, <3>2, <3>3, <3>4, <3>5
  <2> QED BY <2>3, <2>4
<1> QED BY <1>3, <1>4

\* Between two pieces.
LEMMA PreParseTracks ==
    ASSUME IInv, IInv', TypeOK, Tracks, PreParse
    PROVE  Tracks'
<1>1. /\ buf' = SubSeq(buf, row_start + 1, Len(buf)) /\ row_start' = 0
      /\ cell_start' = cell_start - row_start /\ quoted' = quoted
      /\ doc' = doc /\ pos' = pos /\ pc' = "read" /\ pc = "ready"
      /\ IF old_bytes_read = 0 THEN last' = NUL
         ELSE last' = buf[Len(buf)] /\ 0 < Len(buf)
      /\ row_start \in 0..Len(buf) /\ Len(buf) \in Nat /\ cell_start \in Int
  BY PreParseShifts
<1>2. /\ row' = row /\ out' = out /\ skip_next_delim' = skip_next_delim
      /\ quote_close_position' = quote_close_position /\ buffer_exceeded' = buffer_exceeded
  BY DEF PreParse, rowv
<1>3. PICK b : b = Base
  OBVIOUS
<1>4. /\ buf \in Seq(Byte) /\ doc \in Seq(Byte) /\ Len(doc) \in Nat /\ pos \in Nat
      /\ b = pos - Len(buf)
  BY <1>1, <1>3, LenProperties DEF IInv, Scanning, WhileScanning, Numbers, Base
<1>5. /\ Len(buf) <= pos /\ pos <= Len(doc) /\ \A j \in 1..Len(buf) : buf[j] = doc[b + j]
  BY <1>3, Zenon DEF Tracks, BufferTracks
<1>6. /\ Len(buf') = Len(buf) - row_start
      /\ \A j \in 1..(Len(buf) - row_start) : buf'[j] = buf[row_start + j]
  <2>1. PICK x, y, v : x = row_start + 1 /\ y = Len(buf) /\ v = SubSeq(buf, x, y)
    OBVIOUS
  <2>2. x \in Nat \ {0} /\ y \in Nat /\ y <= Len(buf) /\ x <= y + 1
    BY <1>1, <2>1
  <2>3. Len(v) = y - x + 1 /\ \A j \in 1..(y - x + 1) : v[j] = buf[x + j - 1]
    BY <1>4, <2>1, <2>2, Piece
  <2>4. y - x + 1 = Len(buf) - row_start
    BY <1>1, <2>1
  <2>5. ASSUME NEW j \in 1..(Len(buf) - row_start) PROVE v[j] = buf[row_start + j]
    <3>1. x + j - 1 = row_start + j
      BY <1>1, <2>1
    <3> QED BY <2>3, <2>4, <3>1
  <2> QED BY <1>1, <2>1, <2>3, <2>4, <2>5
<1>7. Base' = b + row_start
  <2>1. Base' = pos' - Len(buf')
    BY DEF Base
  <2>2. pos - (Len(buf) - row_start) = b + row_start
    BY <1>1, <1>4
  <2> QED BY <1>1, <1>6, <2>1, <2>2
<1>8. AtPos' = AtPos /\ CellPos' = CellPos /\ RowPos' = RowPos
  <2>1. AtPos' = pos' /\ AtPos = pos
    BY <1>1 DEF AtPos
  <2>2. CellPos = b + cell_start /\ RowPos = b + row_start
    BY <1>1, <1>3 DEF CellPos, RowPos
  <2>3. CellPos' = Base' + cell_start' /\ RowPos' = Base' + row_start'
    BY <1>1 DEF CellPos, RowPos
  <2>4. (b + row_start) + (cell_start - row_start) = b + cell_start
        /\ (b + row_start) + 0 = b + row_start
    BY <1>1, <1>4
  <2> QED BY <1>1, <1>7, <2>1, <2>2, <2>3, <2>4
<1>9. BufferTracks'
  <2>1. ASSUME NEW j \in 1..(Len(buf) - row_start) PROVE buf'[j] = doc[(b + row_start) + j]
    <3>1. row_start + j \in 1..Len(buf) /\ b + (row_start + j) = (b + row_start) + j
      BY <1>1, <1>4
    <3> QED BY <1>5, <1>6, <3>1
  <2>2. Len(buf) - row_start <= pos
    BY <1>1, <1>4, <1>5
  <2> QED BY <1>1, <1>5, <1>6, <1>7, <2>1, <2>2 DEF BufferTracks
<1>10. LastTracks'
  <2>1. LastIs(pos)'
    <3>1. CASE old_bytes_read = 0
      <4>1. last' = NUL /\ (pos = 0 \/ (pos < Len(doc) /\ doc[pos] # CR))
        BY <1>1, <3>1 DEF Tracks, LastTracks
      <4> QED BY <1>1, <4>1 DEF LastIs
    <3>2. CASE old_bytes_read # 0
      <4>1. last' = buf[Len(buf)] /\ 0 < Len(buf) /\ Len(buf) \in 1..Len(buf)
            /\ b + Len(buf) = pos /\ pos # 0
        BY <1>1, <1>4, <1>5, <3>2
      <4>2. last' = doc[pos]
        BY <1>5, <4>1
      <4> QED BY <1>1, <4>1, <4>2 DEF LastIs
    <3> QED BY <3>1, <3>2
  <2> QED BY <1>1, <2>1 DEF LastTracks
<1>11. PendingIsLast'
  BY <1>1, <1>2 DEF Tracks, PendingIsLast
<1> QED BY <1>1, <1>2, <1>8, <1>9, <1>10, <1>11, SamePlaceTracks

\* A row that fits is, as far as it has been read, shorter than the buffer.
LEMMA RowFits ==
    ASSUME RowsFit, doc \in Docs, NEW p \in 0..Len(doc), NEW st,
           RefStates(doc)[p].start = st, st < p
    PROVE  \/ p - st < BuffSize
           \/ api = "bytes" /\ p = Len(doc) /\ p - st = BuffSize
<1>1. doc \in Seq(Byte) /\ Len(doc) \in Nat /\ BuffSize \in Nat
  BY DocsAssumption, LenProperties, BuffSizeAssumption
<1>2. PICK j \in DOMAIN RefRows(doc) : /\ RefRows(doc)[j].start = RefStates(doc)[p].start
                                       /\ RefRows(doc)[j].at \in p..Len(doc)
  BY <1>1, MaxColsAssumption, RowContinues
<1>3. Ref[doc] = RefRows(doc)
  BY DEF Ref
<1>4. PICK r : r = RefRows(doc)[j]
  OBVIOUS
<1>5. r \in ToSet(Ref[doc])
  BY <1>2, <1>3, <1>4 DEF ToSet
<1>6. \/ r.at - r.start < BuffSize
      \/ api = "bytes" /\ r.at = Len(doc) /\ r.at - r.start = BuffSize
  BY <1>5 DEF RowsFit
<1>7. r.start = st /\ r.at \in p..Len(doc)
  BY <1>2, <1>4
<1>8. st \in Int
  <2>1. IsReading(RefStates(doc)[p], p)
    BY <1>1, MaxColsAssumption, ReadingShape
  <2> QED BY <2>1 DEF IsReading
<1> QED BY <1>1, <1>6, <1>7, <1>8

\* So no row is truncated.
LEMMA NoTruncation ==
    ASSUME RowsFit, IInv, TypeOK, Tracks
    PROVE  ~PreParseTruncate
<1> SUFFICES ASSUME PreParseTruncate PROVE FALSE
  OBVIOUS
<1>1. pc = "ready" /\ (api = "bytes" => pos < Len(doc)) /\ PartialLen = BuffSize
  BY DEF PreParseTruncate
<1>2. /\ buf \in Seq(Byte) /\ Len(buf) \in Nat /\ row_start \in Int /\ 0 <= row_start
      /\ row_start <= Len(buf) /\ pos \in Nat
      /\ \/ old_bytes_read = 0 /\ row_start = 0 /\ partial_row_length = Len(buf)
         \/ old_bytes_read = Len(buf) /\ old_bytes_read > 0 /\ partial_row_length = 0
  BY <1>1, LenProperties DEF IInv, Scanning, WhileScanning, Numbers, BufferShape
<1>3. PartialLen = Len(buf) - row_start
  BY <1>2 DEF PartialLen
<1>4. PICK st : st = RowPos
  OBVIOUS
<1>5. AtPos = pos /\ st = pos - Len(buf) + row_start
  BY <1>1, <1>4 DEF AtPos, RowPos, Base
<1>6. RefStates(doc)[pos].start = st
  BY <1>4, <1>5 DEF Tracks, StateTracks
<1>7. pos \in 0..Len(doc) /\ doc \in Docs
  BY DEF TypeOK
<1>8. pos - st = BuffSize /\ st < pos /\ BuffSize \in Nat
  BY <1>1, <1>2, <1>3, <1>5, BuffSizeAssumption
<1>9. api = "bytes" /\ pos = Len(doc)
  BY <1>6, <1>7, <1>8, RowFits
<1> QED BY <1>1, <1>7, <1>9

\* More bytes arrive: the buffer.
LEMMA BytesArrive ==
    ASSUME IInv, TypeOK, Tracks, NEW k \in 1..BuffSize, Read(k)
    PROVE  /\ Len(buf') = Len(buf) + k /\ Base' = Base /\ BufferTracks'
           /\ doc' = doc /\ pos' = pos + k /\ pos + k <= Len(doc) /\ Len(buf) \in Nat
           /\ buf'[Len(buf) + 1] = doc[pos + 1] /\ pos \in Nat /\ Len(doc) \in Nat
           /\ partial_row_length = Len(buf) /\ pc = "read" /\ pc' = "scan"
<1>1. /\ pc = "read" /\ pos + k <= Len(doc) /\ buf' = buf \o SubSeq(doc, pos + 1, pos + k)
      /\ pos' = pos + k /\ pc' = "scan" /\ doc' = doc
  BY DEF Read, input
<1>2. /\ buf \in Seq(Byte) /\ doc \in Seq(Byte) /\ pos \in Nat /\ Len(buf) \in Nat
      /\ Len(doc) \in Nat /\ k \in Nat /\ k >= 1 /\ partial_row_length = Len(buf)
  BY <1>1, LenProperties, BuffSizeAssumption
     DEF IInv, Scanning, WhileScanning, Numbers, BufferShape
<1>3. PICK x, y, v : x = pos + 1 /\ y = pos + k /\ v = SubSeq(doc, x, y)
  OBVIOUS
<1>4. /\ v \in Seq(Byte) /\ Len(v) = k /\ \A j \in 1..k : v[j] = doc[pos + j]
  <2>1. x \in Nat \ {0} /\ y \in Nat /\ y <= Len(doc) /\ x <= y + 1 /\ y - x + 1 = k
    BY <1>1, <1>2, <1>3
  <2>2. /\ v \in Seq(Byte) /\ Len(v) = y - x + 1
        /\ \A j \in 1..(y - x + 1) : v[j] = doc[x + j - 1]
    BY <1>2, <1>3, <2>1, Piece
  <2>3. \A j \in 1..k : x + j - 1 = pos + j
    BY <1>2, <1>3
  <2> QED BY <2>1, <2>2, <2>3
<1>5. /\ Len(buf') = Len(buf) + k
      /\ \A j \in 1..Len(buf) : buf'[j] = buf[j]
      /\ \A j \in 1..k : buf'[Len(buf) + j] = v[j]
  <2>1. PICK a : a = buf
    OBVIOUS
  <2>2. buf' = a \o v
    BY <1>1, <1>3, <2>1
  <2>3. IsSequence(a) /\ IsSequence(v)
    BY <1>2, <1>4, <2>1, SequenceOver
  <2>4. /\ Len(a) \in Nat /\ Len(v) \in Nat /\ IsSequence(a \o v)
        /\ DOMAIN (a \o v) = 1..(Len(a) + Len(v))
        /\ \A j \in 1..Len(a) : (a \o v)[j] = a[j]
        /\ \A j \in 1..Len(v) : (a \o v)[Len(a) + j] = v[j]
    BY <2>3, ConcatElements
  <2>5. PICK w : w = a \o v
    OBVIOUS
  <2>6. Len(w) = Len(a) + Len(v)
    <3>1. DOMAIN w = 1..Len(w) /\ Len(w) \in Nat
      BY <2>4, <2>5, LenProperties DEF IsSequence
    <3>2. PICK n, u : n = Len(a) + Len(v) /\ u = Len(w)
      OBVIOUS
    <3>3. n \in Nat /\ u \in Nat /\ 1..n = 1..u
      BY <2>4, <2>5, <3>1, <3>2
    <3>4. n = u
      BY <3>3, SameBound
    <3> QED BY <3>2, <3>4
  <2> QED BY <1>4, <2>1, <2>2, <2>4, <2>5, <2>6
<1>6. PICK b : b = Base
  OBVIOUS
<1>7. b = pos - Len(buf)
  BY <1>6 DEF Base
<1>8. Len(buf) <= pos /\ pos <= Len(doc) /\ \A j \in 1..Len(buf) : buf[j] = doc[b + j]
  BY <1>6, Zenon DEF Tracks, BufferTracks
<1>9. Base' = b
  <2>1. Base' = pos' - Len(buf')
    BY DEF Base
  <2>2. (pos + k) - (Len(buf) + k) = b
    BY <1>2, <1>7
  <2> QED BY <1>1, <1>5, <2>1, <2>2
<1>10. ASSUME NEW j \in 1..(Len(buf) + k) PROVE buf'[j] = doc[b + j]
  <2>1. CASE j \in 1..Len(buf)
    BY <1>5, <1>8, <2>1
  <2>2. CASE j \notin 1..Len(buf)
    <3>1. j - Len(buf) \in 1..k /\ Len(buf) + (j - Len(buf)) = j /\ pos + (j - Len(buf)) = b + j
      BY <1>2, <1>7, <2>2
    <3>2. buf'[Len(buf) + (j - Len(buf))] = v[j - Len(buf)]
      BY <1>5, <3>1
    <3>3. v[j - Len(buf)] = doc[pos + (j - Len(buf))]
      BY <1>4, <3>1
    <3> QED BY <3>1, <3>2, <3>3
  <2> QED BY <2>1, <2>2
<1>11. BufferTracks'
  <2>1. Len(buf) + k <= pos + k
    BY <1>2, <1>8
  <2> QED BY <1>1, <1>5, <1>9, <1>10, <2>1 DEF BufferTracks
<1>12. buf'[Len(buf) + 1] = doc[pos + 1]
  BY <1>2, <1>4, <1>5
<1> QED BY <1>1, <1>2, <1>5, <1>6, <1>9, <1>11, <1>12

\* The place from which a read goes on.
LEMMA ReadFrom ==
    ASSUME IInv, IInv', TypeOK, Tracks, NEW k \in 1..BuffSize, Read(k)
    PROVE  \E c, m, s :
             /\ c = CellPos /\ c = Base + cell_start /\ m = Len(buf) - cell_start
             /\ c \in Nat /\ m \in Nat /\ c + m = pos /\ AtPos = pos /\ Base + Len(buf) = pos
             /\ Base \in Int /\ cell_start \in Int
             /\ s = RefStates(doc)[pos] /\ s.cell = c /\ s.start = RowPos
             /\ RowPos = Base + row_start
             /\ IsReading(s, pos) /\ CellsTrack(s) /\ RowsTrack(s.rows)
             /\ RefStates(doc)[pos + 1] = RefStep(s, doc, pos + 1)
             /\ QuotesTrack(doc, c, m, quoted, quote_close_position, FALSE)
<1>1. /\ Len(buf') = Len(buf) + k /\ Base' = Base
      /\ doc' = doc /\ pos' = pos + k /\ pos + k <= Len(doc) /\ Len(buf) \in Nat
      /\ pos \in Nat /\ Len(doc) \in Nat /\ k \in Nat /\ k >= 1
      /\ pc = "read" /\ pc' = "scan"
  BY BytesArrive, BuffSizeAssumption
<1>2. PICK c, m, s : c = CellPos /\ m = Len(buf) - cell_start /\ s = RefStates(doc)[pos]
  OBVIOUS
<1>3. /\ cell_start \in Int /\ 0 <= cell_start /\ cell_start <= Len(buf)
  BY <1>1 DEF IInv, Scanning, WhileScanning, Numbers, BufferShape, CellShape, Tracks
<1>4. PICK b : b = Base
  OBVIOUS
<1>5. b = pos - Len(buf) /\ Len(buf) <= pos
  BY <1>4 DEF Base, Tracks, BufferTracks
<1>6. c = b + cell_start /\ AtPos = pos /\ RowPos = b + row_start
  BY <1>1, <1>2, <1>4 DEF CellPos, AtPos, RowPos
<1>7. c \in Nat /\ m \in Nat /\ c + m = pos /\ b + Len(buf) = pos /\ b \in Int /\ pos - c = m
  BY <1>1, <1>2, <1>3, <1>5, <1>6
<1>8. IsReading(s, pos)
  <2>1. doc \in Seq(Byte) /\ pos \in 0..Len(doc)
    BY DocsAssumption DEF TypeOK
  <2> QED BY <1>2, <2>1, MaxColsAssumption, ReadingShape
<1>9. s.cell = c /\ s.start = RowPos /\ CellsTrack(s) /\ RowsTrack(s.rows)
  BY <1>2, <1>6 DEF Tracks, StateTracks
<1>10. RefStates(doc)[pos + 1] = RefStep(s, doc, pos + 1)
  <2>1. pos + 1 \in 1..Len(doc) /\ (pos + 1) - 1 = pos
    BY <1>1
  <2> QED BY <1>1, <1>2, <2>1, ReadingSteps
<1>11. QuotesTrack(doc, c, m, quoted, quote_close_position, FALSE)
  <2>1. ~skip_next_delim /\ skip_next_delim = FALSE
    BY <1>1 DEF Tracks, PendingIsLast, TypeOK
  <2> QED BY <1>2, <1>6, <1>7, <2>1 DEF Tracks
<1> QED BY <1>1, <1>2, <1>3, <1>4, <1>6, <1>7, <1>8, <1>9, <1>10, <1>11

\* More bytes arrive: where the scan begins, and what a pending quote was.
LEMMA ReadTracks ==
    ASSUME IInv, IInv', TypeOK, Tracks, NEW k \in 1..BuffSize, Read(k)
    PROVE  Tracks'
<1>1. /\ Len(buf') = Len(buf) + k /\ Base' = Base /\ BufferTracks'
      /\ doc' = doc /\ pos' = pos + k /\ pos + k <= Len(doc) /\ Len(buf) \in Nat
      /\ buf'[Len(buf) + 1] = doc[pos + 1] /\ pos \in Nat /\ Len(doc) \in Nat
      /\ partial_row_length = Len(buf) /\ pc = "read" /\ pc' = "scan"
  BY BytesArrive
<1>2. /\ row' = row /\ out' = out /\ skip_next_delim' = FALSE /\ last' = last
      /\ buffer_exceeded' = buffer_exceeded /\ cell_start' = cell_start
      /\ row_start' = row_start
      /\ ResolvePending(buf', Len(buf))
  BY <1>1 DEF Read, rowv
<1>3. PICK c, m, s :
             /\ c = CellPos /\ c = Base + cell_start /\ m = Len(buf) - cell_start
             /\ c \in Nat /\ m \in Nat /\ c + m = pos /\ AtPos = pos /\ Base + Len(buf) = pos
             /\ Base \in Int /\ cell_start \in Int
             /\ s = RefStates(doc)[pos] /\ s.cell = c /\ s.start = RowPos
             /\ RowPos = Base + row_start
             /\ IsReading(s, pos) /\ CellsTrack(s) /\ RowsTrack(s.rows)
             /\ RefStates(doc)[pos + 1] = RefStep(s, doc, pos + 1)
             /\ QuotesTrack(doc, c, m, quoted, quote_close_position, FALSE)
  BY ReadFrom
<1>4. k \in Nat /\ k >= 1 /\ c + m + 1 <= Len(doc) /\ doc \in Seq(Byte) /\ c + m + 1 = pos + 1
  BY <1>1, <1>3, BuffSizeAssumption, DocsAssumption DEF TypeOK
<1>5. PICK n, t : /\ i' = Len(buf) + n /\ n \in {0, 1}
                  /\ t = RefStates(doc)[pos + n] /\ t = s
                  /\ QuotesTrack(doc, c, m + n, quoted', quote_close_position', FALSE)
                  /\ "PENDING" \notin quoted'
  <2>1. CASE "PENDING" \notin quoted
    <3>1. i' = Len(buf) /\ quoted' = quoted /\ quote_close_position' = quote_close_position
      BY <1>2, <2>1 DEF ResolvePending
    <3>2. Len(buf) + 0 = Len(buf) /\ pos + 0 = pos /\ m + 0 = m
      BY <1>1, <1>3
    <3> QED BY <1>3, <2>1, <3>1, <3>2
  <2>2. CASE "PENDING" \in quoted
    <3>1. PICK q, z : q = quoted /\ z = quote_close_position
      OBVIOUS
    <3>2. UndecidedCell(doc, c, m, q, z, FALSE)
      BY <1>3, <2>2, <3>1 DEF QuotesTrack
    <3>3. CASE doc[c + m + 1] # Quote
      <4>1. /\ i' = Len(buf)
            /\ quoted' = (q \cup {"CLOSED"}) \ {"PENDING", "UNCLOSED"}
            /\ quote_close_position' = Len(buf) - cell_start - 1
        BY <1>1, <1>2, <1>4, <2>2, <3>1, <3>3 DEF ResolvePending
      <4>2. PICK r : r = (q \cup {"CLOSED"}) \ {"PENDING", "UNCLOSED"}
        OBVIOUS
      <4>3. "UNCLOSED" \notin r /\ "CLOSED" \in r /\ "PENDING" \notin r
            /\ ("EMBEDDED" \in r <=> "EMBEDDED" \in q)
        BY <4>2
      <4>4. QuotesTrack(doc, c, m, r, m - 1, FALSE)
        BY <1>3, <1>4, <3>2, <3>3, <4>3, PendingQuoteCloses
      <4>5. quote_close_position' = m - 1 /\ quoted' = r
        BY <1>3, <4>1, <4>2
      <4>6. Len(buf) + 0 = Len(buf) /\ pos + 0 = pos /\ m + 0 = m
        BY <1>1, <1>3
      <4> QED BY <1>3, <4>1, <4>3, <4>4, <4>5, <4>6
    <3>4. CASE doc[c + m + 1] = Quote
      <4>1. /\ i' = Len(buf) + 1
            /\ quoted' = (q \cup {"NEEDED", "EMBEDDED"}) \ {"PENDING"}
            /\ quote_close_position' = z
        BY <1>1, <1>2, <1>4, <2>2, <3>1, <3>4 DEF ResolvePending
      <4>2. PICK r : r = (q \cup {"NEEDED", "EMBEDDED"}) \ {"PENDING"}
        OBVIOUS
      <4>3. "UNCLOSED" \in r /\ "CLOSED" \notin r /\ "EMBEDDED" \in r /\ "PENDING" \notin r
        BY <3>2, <4>2 DEF UndecidedCell
      <4>4. QuotesTrack(doc, c, m + 1, r, z, FALSE)
        BY <1>3, <1>4, <3>2, <3>4, <4>3, SecondQuoteTracks
      <4>5. RefStep(s, doc, pos + 1) = s
        <5>1. doc[pos + 1] \notin {Delim, LF, CR}
          BY <1>4, <3>4 DEF Quote, Delim, LF, CR
        <5>2. s = [cell |-> s.cell, start |-> s.start, row |-> s.row, rows |-> s.rows]
          BY <1>3 DEF IsReading
        <5> QED BY <5>1, <5>2, ReadingByByte
      <4> QED BY <1>3, <4>1, <4>2, <4>3, <4>4, <4>5
    <3> QED BY <3>3, <3>4
  <2> QED BY <2>1, <2>2
<1>6. AtPos' = pos + n /\ CellPos' = c /\ RowPos' = RowPos /\ (pos + n) - c = m + n
  <2>1. AtPos' = Base' + i' /\ CellPos' = Base' + cell_start' /\ RowPos' = Base' + row_start'
    BY <1>1 DEF AtPos, CellPos, RowPos
  <2>2. PICK b : b = Base
    OBVIOUS
  <2>3. b + (Len(buf) + n) = pos + n
    <3>1. b \in Int /\ b + Len(buf) = pos
      BY <1>3, <2>2
    <3>2. Len(buf) \in Nat /\ pos \in Nat
      BY <1>1
    <3>3. n \in Nat
      BY <1>5
    <3> QED BY <3>1, <3>2, <3>3
  <2>4. (pos + n) - c = m + n
    <3>1. c \in Nat /\ m \in Nat /\ c + m = pos
      BY <1>3
    <3>2. n \in Nat
      BY <1>5
    <3> QED BY <3>1, <3>2
  <2> QED BY <1>1, <1>2, <1>3, <1>5, <2>1, <2>2, <2>3, <2>4
<1>7. StateTracks'
  <2>1. CellsTrack(t)' /\ RowsTrack(t.rows)'
    BY <1>2, <1>3, <1>5 DEF CellsTrack, RowsTrack
  <2>2. t = RefStates(doc')[AtPos'] /\ t.cell = CellPos' /\ t.start = RowPos'
    BY <1>1, <1>3, <1>5, <1>6
  <2> QED BY <2>1, <2>2, Zenon DEF StateTracks
<1>8. LastTracks'
  <2>1. ASSUME i' = 0 PROVE LastIs(Base)'
    <3>1. Len(buf) = 0
      BY <1>1, <1>5, <2>1
    <3>2. Base = pos
      BY <1>1, <3>1 DEF Base
    <3>3. LastIs(pos)
      BY <1>1 DEF Tracks, LastTracks
    <3>4. last' = last /\ doc' = doc /\ Base' = pos
      BY <1>1, <1>2, <3>2
    <3> QED BY <3>3, <3>4 DEF LastIs
  <2> QED BY <1>1, <2>1 DEF LastTracks
<1>9. PendingIsLast'
  BY <1>2, <1>5 DEF PendingIsLast
<1>10. QuotesTrack(doc', CellPos', AtPos' - CellPos', quoted', quote_close_position',
                   skip_next_delim')
  BY <1>1, <1>2, <1>5, <1>6
<1>11. ~buffer_exceeded'
  BY <1>2 DEF Tracks
<1> QED BY <1>1, <1>7, <1>8, <1>9, <1>10, <1>11, Zenon DEF Tracks

-----------------------------------------------------------------------------
(* The end of the input *)

\* The cell with the first c bytes before it and m bytes, in which no quote but
\* the last can close it.
LEMMA OnlyTheLastCloses ==
    ASSUME NEW S, NEW d \in Seq(S), NEW c \in Nat, NEW m \in Nat, c + m <= Len(d), m >= 2,
           NoCloserBefore(d, c, m)
    PROVE  LET raw == SubSeq(d, c + 1, c + m) IN
           /\ raw \in Seq(S) /\ Len(raw) = m /\ Closers(raw) \subseteq {m}
           /\ m \in Closers(raw) <=> d[c + m] = Quote /\ QuoteCount(d, c, m) % 2 = 0
           /\ QuotesIn(raw, m) = QuoteCount(d, c, m) /\ raw[1] = d[c + 1]
           /\ \A x \in 1..m : raw[x] = d[c + x]
<1>0. Len(d) \in Nat /\ c + m \in c..Len(d) /\ (c + m) - c = m /\ c <= Len(d)
  BY LenProperties
<1>1. PICK raw : raw = SubSeq(d, c + 1, c + m)
  OBVIOUS
<1>2. raw \in Seq(S) /\ Len(raw) = m /\ \A x \in 1..m : raw[x] = d[c + x]
  <2>1. PICK p : p = c + m
    OBVIOUS
  <2>2. p \in c..Len(d) /\ p - c = m /\ raw = SubSeq(d, c + 1, p)
    BY <1>0, <1>1, <2>1
  <2>3. /\ SubSeq(d, c + 1, p) \in Seq(S) /\ Len(SubSeq(d, c + 1, p)) = p - c
        /\ \A x \in 1..(p - c) : SubSeq(d, c + 1, p)[x] = d[c + x]
    BY <2>2, CellBytes
  <2> QED BY <2>2, <2>3
<1>3. Closers(raw) = {x \in 2..m : /\ d[c + x] = Quote /\ QuoteCount(d, c, x) % 2 = 0
                                   /\ x = m \/ d[c + x + 1] # Quote}
  <2>1. Closers(SubSeq(d, c + 1, c + m))
          = {x \in 2..((c + m) - c) : /\ d[c + x] = Quote /\ QuoteCount(d, c, x) % 2 = 0
                                      /\ x = (c + m) - c \/ d[c + x + 1] # Quote}
    BY <1>0, ClosersOfCell
  <2> QED BY <1>0, <1>1, <2>1
<1>4. ASSUME NEW x \in Closers(raw), x # m PROVE FALSE
  <2>1. /\ x \in 2..m /\ d[c + x] = Quote /\ QuoteCount(d, c, x) % 2 = 0
        /\ x = m \/ d[c + x + 1] # Quote
    BY <1>3
  <2>2. x \in 2..(m - 1)
    BY <1>4, <2>1
  <2>3. ClosesAt(d, c, x)
    BY <1>4, <2>1 DEF ClosesAt
  <2> QED BY <2>2, <2>3 DEF NoCloserBefore
<1>5. m \in Closers(raw) <=> d[c + m] = Quote /\ QuoteCount(d, c, m) % 2 = 0
  BY <1>3
<1>6. QuotesIn(raw, m) = QuoteCount(d, c, m)
  <2>1. \A x \in 0..((c + m) - c) : QuotesIn(SubSeq(d, c + 1, c + m), x) = QuoteCount(d, c, x)
    BY <1>0, QuoteCounts
  <2>2. m \in 0..((c + m) - c)
    BY <1>0
  <2> QED BY <1>1, <2>1, <2>2
<1>7. Closers(raw) \subseteq {m}
  BY <1>4
<1>8. raw[1] = d[c + 1]
  <2>1. 1 \in 1..m
    OBVIOUS
  <2> QED BY <1>2, <2>1
<1> QED BY <1>1, <1>2, <1>5, <1>6, <1>7, <1>8

\* A cell that is not closed is read as its bytes after the first quote.
LEMMA OpenText ==
    ASSUME NEW S, NEW raw \in Seq(S), Len(raw) >= 2, raw[1] = Quote, Closers(raw) = {}
    PROVE  RefValue(raw) = DeDouble(SubSeq(raw, 2, Len(raw)))
<1>1. raw # <<>> /\ Len(raw) # 1
  <2>1. PICK n : n = Len(raw)
    OBVIOUS
  <2>2. n \in Nat /\ n >= 2
    BY <2>1, LenProperties
  <2>3. n # 0 /\ n # 1
    BY <2>2
  <2>4. raw = <<>> => n = 0
    BY <2>1, EmptySeq
  <2> QED BY <2>1, <2>3, <2>4
<1>2. Tail(raw) = SubSeq(raw, 2, Len(raw))
  BY <1>1, TailIsSubSeq
<1> QED BY <1>1, <1>2 DEF RefValue

\* zsv_finish() on a cell that ends in its closing quote: the text without the
\* two quotes.
LEMMA ClosedAtEnd ==
    ASSUME NEW S, NEW raw \in Seq(S), Quote \in S, NEW m, m = Len(raw), m >= 2, raw[1] = Quote,
           Closers(raw) = {m}, QuotesIn(raw, m) = 2, NEW q, q # {}, "EMBEDDED" \notin q
    PROVE  CellText(raw, m, q, m) = RefValue(raw)
<1>1. m \in Nat /\ m \in 2..Len(raw)
  BY LenProperties
<1>2. m \in Closers(raw) /\ \A x \in Closers(raw) : m <= x
  BY <1>1
<1>3. CellText(raw, Len(raw), q, m - 1) = RefValue(raw)
  BY <1>1, <1>2, ClosedText
<1>4. CellText(raw, m, q, m - 1) = SubSeq(raw, 2, m - 1)
  <2>1. (m - 1) + 1 = m
    BY <1>1
  <2> QED BY <2>1, Zenon DEF CellText
<1>5. PICK t : t = SubSeq(SubSeq(raw, 2, m) \o SubSeq(raw, m + 2, Len(raw)), 1, m - 2)
  OBVIOUS
<1>6. CellText(raw, m, q, m) = t
  <2>1. m + 1 # m /\ m > 0
    BY <1>1
  <2> QED BY <1>5, <2>1, Zenon DEF CellText
<1>7. t = SubSeq(raw, 2, m - 1)
  <2>1. SubSeq(raw, m + 2, Len(raw)) = <<>>
    <3>1. m + 2 > Len(raw)
      BY <1>1
    <3> QED BY <1>1, <3>1, SubSeqEmpty
  <2>2. PICK u : u = SubSeq(raw, 2, m)
    OBVIOUS
  <2>3. /\ u \in Seq(S) /\ Len(u) = m - 2 + 1
        /\ \A x \in 1..(m - 2 + 1) : u[x] = raw[2 + x - 1]
    BY <1>1, <2>2, Piece
  <2>4. t = SubSeq(u, 1, m - 2)
    BY <1>5, <2>1, <2>2, <2>3, ConcatEmptySeq
  <2>5. /\ t \in Seq(S) /\ Len(t) = (m - 2) - 1 + 1
        /\ \A x \in 1..((m - 2) - 1 + 1) : t[x] = u[1 + x - 1]
    <3>1. m - 2 \in Nat /\ m - 2 <= Len(u) /\ 1 <= (m - 2) + 1 /\ 1 \in Nat \ {0}
      BY <1>1, <2>3
    <3> QED BY <2>3, <2>4, <3>1, Piece
  <2>6. PICK v : v = SubSeq(raw, 2, m - 1)
    OBVIOUS
  <2>7. /\ v \in Seq(S) /\ Len(v) = (m - 1) - 2 + 1
        /\ \A x \in 1..((m - 1) - 2 + 1) : v[x] = raw[2 + x - 1]
    BY <1>1, <2>6, Piece
  <2>8. ASSUME NEW x \in 1..(m - 2) PROVE t[x] = v[x]
    <3>1. /\ x \in 1..((m - 2) - 1 + 1) /\ x \in 1..((m - 1) - 2 + 1) /\ x \in 1..(m - 2 + 1)
          /\ 1 + x - 1 = x
      BY <1>1
    <3> QED BY <2>3, <2>5, <2>7, <3>1
  <2>9. Len(t) = m - 2 /\ Len(v) = m - 2
    BY <1>1, <2>5, <2>7
  <2> QED BY <2>5, <2>6, <2>7, <2>8, <2>9, SeqEqual
<1> QED BY <1>1, <1>3, <1>4, <1>6, <1>7

\* A second quote counts.
LEMMA OneQuote ==
    ASSUME NEW raw, NEW n \in Nat, QuotesIn(raw, n) = 1, raw[1] = Quote, NEW w \in 2..n
    PROVE  raw[w] # Quote
<1> SUFFICES ASSUME raw[w] = Quote PROVE FALSE
  OBVIOUS
<1> DEFINE A == {k \in 1..n : raw[k] = Quote}
<1>1. IsFiniteSet(A) /\ Cardinality(A) = 1
  <2>1. IsFiniteSet(1..n)
    BY FS_Interval
  <2> QED BY <2>1, FS_Subset DEF QuotesIn
<1>2. {1} \cup {w} \subseteq A /\ w \notin {1}
  OBVIOUS
<1> HIDE DEF A
<1>3. Cardinality({1} \cup {w}) = 2
  <2>1. IsFiniteSet({1}) /\ Cardinality({1}) = 1
    BY FS_Singleton
  <2> QED BY <1>2, <2>1, FS_AddElement
<1>4. Cardinality({1} \cup {w}) <= Cardinality(A)
  BY <1>1, <1>2, FS_Subset
<1> QED BY <1>1, <1>3, <1>4

\* raw is the bytes of s from the x-th to the y-th.
IsPart(raw, s, x, y) == raw = SubSeq(s, x, y)

\* zsv_finish() on a quoted cell without any other quote: one virtual closing
\* quote is counted, and the text is all but the first.
LEMMA OpenAtEnd ==
    ASSUME NEW S, NEW b \in Seq(S), Quote \in S, NEW st \in Nat, NEW m \in Nat, st + m = Len(b),
           m >= 2, NEW raw, IsPart(raw, b, st + 1, st + m), raw[1] = Quote,
           Closers(raw) = {}, QuotesIn(raw, m) = 1, NEW q, q # {}, "EMBEDDED" \notin q
    PROVE  CellValue(b, st, m + 1, q, m) = RefValue(raw)
<1> USE DEF IsPart
<1>0. raw \in Seq(S) /\ Len(raw) = m
  <2>1. st + 1 \in Nat \ {0} /\ st + m \in Nat /\ st + m <= Len(b) /\ st + 1 <= (st + m) + 1
        /\ (st + m) - (st + 1) + 1 = m
    OBVIOUS
  <2>2. /\ SubSeq(b, st + 1, st + m) \in Seq(S)
        /\ Len(SubSeq(b, st + 1, st + m)) = (st + m) - (st + 1) + 1
    BY <2>1, Piece
  <2> QED BY <2>1, <2>2
<1>1. PICK t : t = SubSeq(raw, 2, m)
  OBVIOUS
<1>2. RefValue(raw) = DeDouble(t)
  BY <1>0, <1>1, OpenText
<1>3. t \in Seq(S) /\ Len(t) = m - 1 /\ \A x \in 1..(m - 1) : t[x] = raw[x + 1]
  <2>1. /\ t \in Seq(S) /\ Len(t) = m - 2 + 1
        /\ \A x \in 1..(m - 2 + 1) : t[x] = raw[2 + x - 1]
    BY <1>0, <1>1, Piece
  <2>2. m - 2 + 1 = m - 1 /\ \A x \in 1..(m - 1) : 2 + x - 1 = x + 1
    OBVIOUS
  <2> QED BY <2>1, <2>2
<1>4. DeDouble(t) = t
  <2>1. ASSUME NEW j \in 1..(Len(t) - 1) PROVE ~(t[j] = Quote /\ t[j + 1] = Quote)
    <3>1. j \in 1..(m - 1) /\ j + 1 \in 2..m
      BY <1>3
    <3>2. raw[j + 1] # Quote
      BY <3>1, OneQuote
    <3> QED BY <1>3, <3>1, <3>2
  <2> QED BY <1>3, <2>1, NothingToCollapse
<1>5. CellValue(b, st, m + 1, q, m) = SubSeq(raw, 2, (m + 1) - 1)
  <2>1. raw = SubSeq(b, st + 1, IF st + (m + 1) <= Len(b) THEN st + (m + 1) ELSE Len(b))
    <3>1. ~(st + (m + 1) <= Len(b))
      OBVIOUS
    <3> QED BY <3>1
  <2> QED BY <2>1, Zenon DEF CellValue
<1>6. (m + 1) - 1 = m
  OBVIOUS
<1> QED BY <1>1, <1>2, <1>4, <1>5, <1>6

\* bb is what zsv_finish() makes of the buffer b whose last cell starts at st.
Written(bb, b, st, inner) == bb = SubSeq(b, 1, st + 1) \o inner

\* zsv_finish() on a quoted cell with an escaped quote: it writes the text in
\* place, and counts one closing quote behind it.
LEMMA EscapedAtEnd ==
    ASSUME NEW S, NEW b \in Seq(S), NEW st \in Nat, st + 1 <= Len(b), NEW inner \in Seq(S),
           NEW bb, Written(bb, b, st, inner), NEW q, q # {}, "EMBEDDED" \notin q
    PROVE  CellValue(bb, st, 2 + Len(inner), q, 1 + Len(inner)) = inner
<1>0. Len(inner) \in Nat /\ Len(b) \in Nat
  BY LenProperties
<1>1. PICK a, g : a = SubSeq(b, 1, st + 1) /\ g = Len(inner)
  OBVIOUS
<1>2. a \in Seq(S) /\ Len(a) = st + 1
  <2>1. st + 1 \in Nat /\ 1 <= (st + 1) + 1 /\ 1 \in Nat \ {0} /\ (st + 1) - 1 + 1 = st + 1
    OBVIOUS
  <2> QED BY <1>0, <1>1, <2>1, Piece
<1>3. bb \in Seq(S) /\ AreParts(bb, a, inner)
  BY <1>1, <1>2, BytesOfParts DEF Written
<1>4. Len(bb) = st + 1 + g
  BY <1>1, <1>2, <1>3 DEF AreParts
<1>5. PICK raw : raw = SubSeq(bb, st + 1, Len(bb))
  OBVIOUS
<1>6. /\ raw \in Seq(S) /\ Len(raw) = Len(bb) - (st + 1) + 1
      /\ \A x \in 1..(Len(bb) - (st + 1) + 1) : raw[x] = bb[st + 1 + x - 1]
  <2>1. st + 1 \in Nat \ {0} /\ Len(bb) \in Nat /\ st + 1 <= Len(bb) + 1
    BY <1>0, <1>1, <1>4
  <2> QED BY <1>3, <1>5, <2>1, Piece
<1>7. Len(raw) = g + 1 /\ \A x \in 1..g : raw[x + 1] = inner[x]
  <2>1. Len(bb) - (st + 1) + 1 = g + 1
    BY <1>0, <1>1, <1>4
  <2>2. ASSUME NEW x \in 1..g PROVE raw[x + 1] = inner[x]
    <3>1. x + 1 \in 1..(g + 1) /\ st + 1 + (x + 1) - 1 = Len(a) + x /\ x \in 1..Len(inner)
      BY <1>0, <1>1, <1>2
    <3>2. bb[Len(a) + x] = inner[x]
      BY <1>3, <3>1 DEF AreParts
    <3> QED BY <1>6, <2>1, <3>1, <3>2
  <2> QED BY <1>6, <2>1, <2>2
<1>8. CellValue(bb, st, 2 + g, q, 1 + g) = SubSeq(raw, 2, (2 + g) - 1)
  <2>1. raw = SubSeq(bb, st + 1, IF st + (2 + g) <= Len(bb) THEN st + (2 + g) ELSE Len(bb))
    <3>1. ~(st + (2 + g) <= Len(bb))
      BY <1>0, <1>1, <1>4
    <3> QED BY <1>5, <3>1
  <2>2. (1 + g) + 1 = 2 + g
    BY <1>0, <1>1
  <2> QED BY <2>1, <2>2, Zenon DEF CellValue
<1>9. PICK v : v = SubSeq(raw, 2, g + 1)
  OBVIOUS
<1>10. v = inner
  <2>1. /\ v \in Seq(S) /\ Len(v) = (g + 1) - 2 + 1
        /\ \A x \in 1..((g + 1) - 2 + 1) : v[x] = raw[2 + x - 1]
    <3>1. g + 1 \in Nat /\ g + 1 <= Len(raw) /\ 2 <= (g + 1) + 1 /\ 2 \in Nat \ {0}
      BY <1>0, <1>1, <1>7
    <3> QED BY <1>6, <1>9, <3>1, Piece
  <2>2. (g + 1) - 2 + 1 = g /\ \A x \in 1..g : 2 + x - 1 = x + 1
    BY <1>0, <1>1
  <2>3. Len(v) = g /\ \A x \in 1..g : v[x] = inner[x]
    BY <1>7, <2>1, <2>2
  <2> QED BY <1>1, <2>1, <2>3, SeqEqual
<1>11. (2 + g) - 1 = g + 1
  BY <1>0, <1>1
<1> QED BY <1>1, <1>8, <1>9, <1>10, <1>11

\* The state at the end of the input of a reader or puller: where the open cell
\* starts (c), its length (m), and the end of the reading (e).
AtEnd(c, m, e) ==
    /\ pc = "eof" /\ buf \in Seq(Byte) /\ doc \in Seq(Byte) /\ Len(buf) \in Nat
    /\ Len(doc) \in Nat /\ row_start = 0 /\ scanned_length = Len(buf)
    /\ e = RefStates(doc)[Len(doc)] /\ IsReading(e, Len(doc)) /\ e.cell = c
    /\ c \in Nat /\ m \in Nat /\ c + m = Len(doc) /\ cell_start \in Nat
    /\ cell_start + m = Len(buf) /\ PendingLen = m
    /\ QuotesTrack(doc, c, m, quoted, quote_close_position, FALSE)
    /\ (e.start = Len(doc) <=> Len(buf) = 0) /\ Len(buf) < BuffSize
    /\ SubSeq(buf, cell_start + 1, cell_start + m) = SubSeq(doc, c + 1, c + m)
    /\ Len(buf) > 0 => last = doc[Len(doc)]

\* zsv_finish() of a reader or puller starts there.
LEMMA FinishIsAtEnd ==
    ASSUME RowsFit, IInv, TypeOK, Tracks, FinishFixup, api # "bytes"
    PROVE  \E c, m, e : AtEnd(c, m, e)
<1>1. pc = "eof" /\ pos = Len(doc)
  BY DEF FinishFixup, CallsFinish
<1>2. /\ buf \in Seq(Byte) /\ doc \in Seq(Byte) /\ Len(buf) \in Nat /\ Len(doc) \in Nat
      /\ row_start = 0 /\ scanned_length = Len(buf) /\ partial_row_length = Len(buf)
      /\ cell_start \in Nat /\ cell_start <= Len(buf)
  BY <1>1, LenProperties
     DEF IInv, Scanning, WhileScanning, Numbers, BufferShape, CellShape, Tracks
<1>3. PICK b, c, m, e : /\ b = Base /\ c = CellPos /\ m = Len(buf) - cell_start
                        /\ e = RefStates(doc)[Len(doc)]
  OBVIOUS
<1>4. b = Len(doc) - Len(buf) /\ Len(buf) <= Len(doc)
  BY <1>1, <1>3 DEF Base, Tracks, BufferTracks
<1>5. c = b + cell_start /\ AtPos = Len(doc) /\ RowPos = b + row_start
  BY <1>1, <1>3 DEF CellPos, AtPos, RowPos
<1>6. /\ c \in Nat /\ m \in Nat /\ c + m = Len(doc) /\ cell_start + m = Len(buf) /\ b \in Nat
      /\ Len(doc) - c = m /\ RowPos = b
  BY <1>2, <1>3, <1>4, <1>5
<1>7. PendingLen = m
  BY <1>2, <1>3 DEF PendingLen
<1>8. IsReading(e, Len(doc))
  <2>1. Len(doc) \in 0..Len(doc)
    BY <1>2
  <2> QED BY <1>2, <1>3, <2>1, MaxColsAssumption, ReadingShape
<1>9. e.cell = c /\ e.start = b
  BY <1>3, <1>5, <1>6 DEF Tracks, StateTracks
<1>10. e.start = Len(doc) <=> Len(buf) = 0
  BY <1>2, <1>4, <1>9
<1>11. Len(buf) < BuffSize
  <2>1. CASE Len(buf) = 0
    BY <2>1, BuffSizeAssumption
  <2>2. CASE Len(buf) # 0
    <3>1. Len(doc) \in 0..Len(doc) /\ b < Len(doc) /\ RefStates(doc)[Len(doc)].start = b
      BY <1>2, <1>3, <1>4, <1>9, <2>2
    <3>2. \/ Len(doc) - b < BuffSize
          \/ api = "bytes" /\ Len(doc) = Len(doc) /\ Len(doc) - b = BuffSize
      BY <3>1, RowFits DEF TypeOK
    <3>3. Len(doc) - b = Len(buf)
      BY <1>2, <1>4
    <3> QED BY <3>2, <3>3
  <2> QED BY <2>1, <2>2
<1>12. QuotesTrack(doc, c, m, quoted, quote_close_position, FALSE)
  <2>1. skip_next_delim = FALSE
    BY <1>1 DEF Tracks, PendingIsLast, TypeOK
  <2> QED BY <1>3, <1>5, <1>6, <2>1 DEF Tracks
<1>13. SubSeq(buf, cell_start + 1, cell_start + m) = SubSeq(doc, c + 1, c + m)
  <2>1. PICK st, bb : st = cell_start /\ bb = buf
    OBVIOUS
  <2>2. \A x \in 1..Len(buf) : buf[x] = doc[b + x]
    BY <1>3, Zenon DEF Tracks, BufferTracks
  <2>3. /\ bb \in Seq(Byte) /\ doc \in Seq(Byte) /\ b \in Nat /\ b + Len(bb) <= Len(doc)
        /\ st \in Nat /\ m \in Nat /\ st + m <= Len(bb)
        /\ \A x \in 1..Len(bb) : bb[x] = doc[b + x]
    <3>1. b + Len(buf) <= Len(doc)
      BY <1>2, <1>4
    <3>2. cell_start + m <= Len(buf)
      BY <1>2, <1>6
    <3>3. /\ buf \in Seq(Byte) /\ doc \in Seq(Byte) /\ b \in Nat /\ cell_start \in Nat
          /\ m \in Nat
      BY <1>2, <1>6
    <3> QED BY <2>1, <2>2, <3>1, <3>2, <3>3
  <2>4. SubSeq(bb, st + 1, st + m) = SubSeq(doc, (b + st) + 1, (b + st) + m)
    BY <2>3, BufferPiece
  <2> QED BY <1>5, <2>1, <2>4
<1>14. Len(buf) > 0 => last = doc[Len(doc)]
  <2>1. LastIs(Len(doc))
    BY <1>1 DEF Tracks, LastTracks
  <2>2. Len(buf) > 0 => Len(doc) # 0
    BY <1>2, <1>4
  <2> QED BY <1>2, <2>1, <2>2 DEF LastIs
<1>15. AtEnd(c, m, e)
  BY <1>1, <1>2, <1>3, <1>6, <1>7, <1>8, <1>9, <1>10, <1>11, <1>12, <1>13, <1>14 DEF AtEnd
<1> QED BY <1>15

\* What the fix-up makes of the open cell, and where it can be read.
FixedUp(c, m) ==
    /\ scanned_length' >= cell_start /\ scanned_length' > 0
    /\ ~OnlyCrlf =>
         /\ quoted' # {} /\ quote_close_position' > 0
              => ~(cell_start + quote_close_position' >= BuffSize)
         /\ ~EndsInEscapedCell(doc) =>
              CellValue(buf', cell_start, scanned_length' - cell_start, quoted',
                        quote_close_position')
                = RefValue(SubSeq(doc, c + 1, c + m))

\* A cell that is closed, or never was quoted, stays as it is.
LEMMA ClosedStays ==
    ASSUME FinishFixup, NEW c, NEW m, NEW e, AtEnd(c, m, e), Len(buf) > 0, ~Open
    PROVE  FixedUp(c, m)
<1>1. /\ buf' = buf /\ quoted' = quoted /\ quote_close_position' = quote_close_position
      /\ scanned_length' = scanned_length
  BY DEF FinishFixup
<1>2. /\ buf \in Seq(Byte) /\ doc \in Seq(Byte) /\ Len(buf) \in Nat /\ Len(doc) \in Nat
      /\ scanned_length = Len(buf) /\ c \in Nat /\ m \in Nat /\ c + m = Len(doc)
      /\ cell_start \in Nat /\ cell_start + m = Len(buf) /\ Len(buf) < BuffSize
      /\ QuotesTrack(doc, c, m, quoted, quote_close_position, FALSE)
      /\ SubSeq(buf, cell_start + 1, cell_start + m) = SubSeq(doc, c + 1, c + m)
  BY DEF AtEnd
<1>3. PICK q, z, st : q = quoted /\ z = quote_close_position /\ st = cell_start
  OBVIOUS
<1>4. "UNCLOSED" \notin q /\ "PENDING" \notin q /\ QuotesTrack(doc, c, m, q, z, FALSE)
  BY <1>2, <1>3 DEF Open, QuotesTrack, UndecidedCell
<1>5. scanned_length' >= cell_start /\ scanned_length' > 0 /\ scanned_length' - cell_start = m
  BY <1>1, <1>2
<1>6. ASSUME ~OnlyCrlf, q # {}, z > 0 PROVE ~(st + z >= BuffSize)
  <2>1. ClosedCell(doc, c, m, q, z)
    BY <1>4, <1>6 DEF QuotesTrack, PlainCell, OpenedCell
  <2> QED BY <1>2, <1>3, <2>1, BuffSizeAssumption DEF ClosedCell
<1>7. ASSUME ~OnlyCrlf
      PROVE  CellValue(buf, st, m, q, z) = RefValue(SubSeq(doc, c + 1, c + m))
  <2>1. CellText(SubSeq(doc, c + 1, c + m), m, q, z) = RefValue(SubSeq(doc, c + 1, c + m))
    <3>1. Quote \in Byte /\ doc \in Seq(Byte)
      BY <1>2 DEF Byte
    <3>2. c \in Nat /\ m \in Nat /\ c + m <= Len(doc) /\ ~OnlyCrlf
      BY <1>2, <1>7
    <3> QED BY <1>4, <3>1, <3>2, CellIsRead
  <2>2. PICK bb : bb = buf
    OBVIOUS
  <2>3. st + m <= Len(bb)
    BY <1>2, <1>3, <2>2
  <2>4. CellValue(bb, st, m, q, z) = CellText(SubSeq(bb, st + 1, st + m), m, q, z)
    BY <2>3, ValueOfRaw
  <2> QED BY <1>2, <1>3, <2>1, <2>2, <2>4
<1> QED BY <1>1, <1>3, <1>5, <1>6, <1>7 DEF FixedUp

\* What is known of a cell that is open at the end of the input.
OpenAtTheEnd(c, m, q) ==
    /\ buf \in Seq(Byte) /\ doc \in Seq(Byte) /\ Len(buf) \in Nat /\ Len(doc) \in Nat
    /\ scanned_length = Len(buf) /\ c \in Nat /\ m \in Nat /\ c + m = Len(doc)
    /\ cell_start \in Nat /\ cell_start + m = Len(buf) /\ Len(buf) < BuffSize
    /\ SubSeq(buf, cell_start + 1, cell_start + m) = SubSeq(doc, c + 1, c + m)
    /\ q = quoted /\ "UNCLOSED" \in q /\ "CLOSED" \notin q /\ m >= 1 /\ PendingLen = m
    /\ doc[c + 1] = Quote /\ NoCloserBefore(doc, c, m)
    /\ \/ /\ QuoteCount(doc, c, m) % 2 = 1
          /\ "EMBEDDED" \notin q => QuoteCount(doc, c, m) = 1
       \/ /\ QuoteCount(doc, c, m) % 2 = 0 /\ doc[c + m] = Quote
          /\ IF "EMBEDDED" \in q THEN QuoteCount(doc, c, m) > 2 ELSE QuoteCount(doc, c, m) = 2
    /\ last = doc[Len(doc)]

\* If a cell is open at the end, that is what is known of it.
LEMMA OpenIsKnown ==
    ASSUME NEW c, NEW m, NEW e, AtEnd(c, m, e), Len(buf) > 0, Open
    PROVE  OpenAtTheEnd(c, m, quoted)
<1>1. QuotesTrack(doc, c, m, quoted, quote_close_position, FALSE) /\ "UNCLOSED" \in quoted
  BY DEF AtEnd, Open
<1>2. PICK n : n = QuoteCount(doc, c, m)
  OBVIOUS
<1>3. \/ OpenedCell(doc, c, m, quoted, quote_close_position)
      \/ UndecidedCell(doc, c, m, quoted, quote_close_position, FALSE)
  BY <1>1 DEF QuotesTrack, PlainCell, ClosedCell
<1>4. /\ "CLOSED" \notin quoted /\ m >= 1 /\ doc[c + 1] = Quote /\ NoCloserBefore(doc, c, m)
      /\ \/ /\ n % 2 = 1
            /\ "EMBEDDED" \notin quoted => n = 1
         \/ /\ n % 2 = 0 /\ doc[c + m] = Quote
            /\ IF "EMBEDDED" \in quoted THEN n > 2 ELSE n = 2
  <2>1. CASE OpenedCell(doc, c, m, quoted, quote_close_position)
    BY <1>2, <2>1 DEF OpenedCell
  <2>2. CASE UndecidedCell(doc, c, m, quoted, quote_close_position, FALSE)
    <3>1. m >= 2 /\ m \in Nat
      BY <2>2 DEF UndecidedCell, AtEnd
    <3>2. m >= 1
      BY <3>1
    <3> QED BY <1>2, <2>2, <3>2 DEF UndecidedCell
  <2> QED BY <1>3, <2>1, <2>2
<1> QED BY <1>1, <1>2, <1>4 DEF AtEnd, OpenAtTheEnd

\* A lone quote is a cell of one byte.
LEMMA LoneQuoteFixed ==
    ASSUME FinishFixup, NEW c, NEW m, OpenAtTheEnd(c, m, quoted), m = 1
    PROVE  FixedUp(c, m)
<1>1. /\ buf \in Seq(Byte) /\ doc \in Seq(Byte) /\ Len(buf) \in Nat /\ Len(doc) \in Nat
      /\ scanned_length = Len(buf) /\ c \in Nat /\ m \in Nat /\ c + m = Len(doc)
      /\ cell_start \in Nat /\ cell_start + m = Len(buf) /\ PendingLen = m
      /\ SubSeq(buf, cell_start + 1, cell_start + m) = SubSeq(doc, c + 1, c + m)
      /\ Open
  BY DEF OpenAtTheEnd, Open
<1>2. /\ buf' = buf /\ quoted' = {} /\ scanned_length' = scanned_length
      /\ quote_close_position' = quote_close_position
  BY <1>1 DEF FinishFixup
<1>3. scanned_length' >= cell_start /\ scanned_length' > 0 /\ scanned_length' - cell_start = m
  BY <1>1, <1>2
<1>4. PICK bb, st, z : bb = buf /\ st = cell_start /\ z = quote_close_position
  OBVIOUS
<1>5. PICK raw : raw = SubSeq(doc, c + 1, c + m)
  OBVIOUS
<1>6. CellValue(bb, st, m, {}, z) = raw
  <2>1. st + m <= Len(bb) /\ SubSeq(bb, st + 1, st + m) = raw
    BY <1>1, <1>4, <1>5
  <2>2. CellValue(bb, st, m, {}, z) = CellText(SubSeq(bb, st + 1, st + m), m, {}, z)
    BY <2>1, ValueOfRaw
  <2>3. CellText(raw, m, {}, z) = raw
    BY Zenon DEF CellText
  <2> QED BY <2>1, <2>2, <2>3
<1>7. RefValue(raw) = raw
  <2>1. Len(raw) = 1
    <3>1. PICK p : p = c + m
      OBVIOUS
    <3>2. p \in c..Len(doc) /\ p - c = 1 /\ raw = SubSeq(doc, c + 1, p)
      BY <1>1, <1>5, <3>1
    <3>3. Len(SubSeq(doc, c + 1, p)) = p - c
      BY <1>1, <3>2, CellBytes
    <3> QED BY <3>2, <3>3
  <2> QED BY <2>1 DEF RefValue
<1>8. CellValue(buf', cell_start, scanned_length' - cell_start, quoted', quote_close_position')
        = RefValue(SubSeq(doc, c + 1, c + m))
  BY <1>2, <1>3, <1>4, <1>5, <1>6, <1>7
<1> QED BY <1>2, <1>3, <1>8 DEF FixedUp

\* The raw bytes of the cell, and what can close it.
LEMMA RawAtTheEnd ==
    ASSUME NEW c, NEW m, NEW q, OpenAtTheEnd(c, m, q), m >= 2, NEW raw,
           IsPart(raw, doc, c + 1, c + m)
    PROVE  /\ raw \in Seq(Byte) /\ Len(raw) = m /\ raw[1] = Quote /\ Quote \in Byte
           /\ QuotesIn(raw, m) = QuoteCount(doc, c, m) /\ raw[m] = doc[c + m]
           /\ QuoteCount(doc, c, m) % 2 = 1 => Closers(raw) = {}
           /\ QuoteCount(doc, c, m) % 2 = 0 => Closers(raw) = {m}
<1>1. /\ doc \in Seq(Byte) /\ Len(doc) \in Nat /\ c \in Nat /\ m \in Nat /\ c + m <= Len(doc)
      /\ NoCloserBefore(doc, c, m) /\ doc[c + 1] = Quote
  BY DEF OpenAtTheEnd
<1>2. PICK n : n = QuoteCount(doc, c, m)
  OBVIOUS
<1>3. \/ n % 2 = 1
      \/ n % 2 = 0 /\ doc[c + m] = Quote
  BY <1>2 DEF OpenAtTheEnd
<1>4. /\ raw \in Seq(Byte) /\ Len(raw) = m /\ Closers(raw) \subseteq {m}
      /\ m \in Closers(raw) <=> doc[c + m] = Quote /\ n % 2 = 0
      /\ QuotesIn(raw, m) = n /\ raw[1] = doc[c + 1]
      /\ \A x \in 1..m : raw[x] = doc[c + x]
  BY <1>1, <1>2, OnlyTheLastCloses DEF IsPart
<1>5. m \in 1..m
  BY <1>1
<1>6. n % 2 = 1 => Closers(raw) = {}
  BY <1>4
<1>7. n % 2 = 0 => Closers(raw) = {m}
  BY <1>3, <1>4
<1>8. Quote \in Byte
  BY DEF Byte
<1> QED BY <1>1, <1>2, <1>4, <1>5, <1>6, <1>7, <1>8

\* A quoted cell without an escaped quote: its closing quote is there, or is
\* counted as if it were.
LEMMA PlainQuotedFixed ==
    ASSUME FinishFixup, NEW c, NEW m, OpenAtTheEnd(c, m, quoted), m >= 2, "EMBEDDED" \notin quoted
    PROVE  FixedUp(c, m)
<1>1. /\ buf \in Seq(Byte) /\ doc \in Seq(Byte) /\ Len(buf) \in Nat /\ Len(doc) \in Nat
      /\ scanned_length = Len(buf) /\ c \in Nat /\ m \in Nat /\ c + m = Len(doc)
      /\ cell_start \in Nat /\ cell_start + m = Len(buf) /\ PendingLen = m
      /\ SubSeq(buf, cell_start + 1, cell_start + m) = SubSeq(doc, c + 1, c + m)
      /\ Open /\ Len(buf) < BuffSize /\ last = doc[c + m]
  BY DEF OpenAtTheEnd, Open
<1>2. PICK r : r = (quoted \cup {"CLOSED"}) \ {"UNCLOSED"}
  OBVIOUS
<1>3. /\ buf' = buf /\ quoted' = r /\ quote_close_position' = m
      /\ scanned_length' = IF last # Quote THEN scanned_length + 1 ELSE scanned_length
  <2>1. PendingLen # 0 /\ PendingLen # 1
    BY <1>1
  <2> QED BY <1>1, <1>2, <2>1 DEF FinishFixup
<1>4. scanned_length' >= cell_start /\ scanned_length' > 0
  BY <1>1, <1>3
<1>5. r # {} /\ "EMBEDDED" \notin r
  BY <1>2
<1>14. ~(cell_start + m >= BuffSize)
  BY <1>1, BuffSizeAssumption
<1>6. PICK raw : raw = SubSeq(doc, c + 1, c + m)
  OBVIOUS
<1>7. PICK n : n = QuoteCount(doc, c, m)
  OBVIOUS
<1>8. /\ raw \in Seq(Byte) /\ Len(raw) = m /\ raw[1] = Quote /\ Quote \in Byte
      /\ QuotesIn(raw, m) = n /\ raw[m] = doc[c + m]
      /\ n % 2 = 1 => Closers(raw) = {}
      /\ n % 2 = 0 => Closers(raw) = {m}
  <2>1. IsPart(raw, doc, c + 1, c + m)
    BY <1>6 DEF IsPart
  <2> QED BY <1>7, <2>1, RawAtTheEnd
<1>9. PICK bb, st : bb = buf /\ st = cell_start
  OBVIOUS
<1>10. SubSeq(bb, st + 1, st + m) = raw /\ st + m = Len(bb) /\ bb \in Seq(Byte) /\ st \in Nat
  BY <1>1, <1>6, <1>9
<1>11. (n % 2 = 1 /\ n = 1) \/ (n % 2 = 0 /\ n = 2 /\ doc[c + m] = Quote)
  BY <1>7 DEF OpenAtTheEnd
<1>12. CASE n % 2 = 1 /\ n = 1
  <2>1. raw[m] # Quote
    <3>1. m \in 2..m /\ m \in Nat
      BY <1>1
    <3> QED BY <1>8, <1>12, <3>1, OneQuote
  <2>2. scanned_length' - cell_start = m + 1
    <3>1. scanned_length' = Len(buf) + 1
      BY <1>1, <1>3, <1>8, <2>1
    <3>2. PICK y, l : y = scanned_length' /\ l = Len(buf)
      OBVIOUS
    <3>3. y = l + 1 /\ st + m = l /\ st \in Nat /\ m \in Nat /\ l \in Nat
      BY <1>1, <1>9, <3>1, <3>2
    <3>4. y - st = m + 1
      BY <3>3
    <3> QED BY <1>9, <3>2, <3>4
  <2>3. CellValue(bb, st, m + 1, r, m) = RefValue(raw)
    <3>1. /\ bb \in Seq(Byte) /\ Quote \in Byte /\ st \in Nat /\ m \in Nat /\ st + m = Len(bb)
          /\ m >= 2 /\ IsPart(raw, bb, st + 1, st + m) /\ raw[1] = Quote
          /\ Closers(raw) = {} /\ QuotesIn(raw, m) = 1
      BY <1>1, <1>8, <1>10, <1>12 DEF IsPart
    <3> QED BY <1>5, <3>1, OpenAtEnd
  <2> QED BY <1>1, <1>3, <1>4, <1>6, <1>9, <1>14, <2>2, <2>3 DEF FixedUp
<1>13. CASE n % 2 = 0 /\ n = 2 /\ doc[c + m] = Quote
  <2>1. scanned_length' - cell_start = m
    BY <1>1, <1>3, <1>13
  <2>2. CellText(raw, m, r, m) = RefValue(raw)
    <3>1. Closers(raw) = {m} /\ QuotesIn(raw, m) = 2
      BY <1>8, <1>13
    <3> QED BY <1>5, <1>8, <3>1, ClosedAtEnd
  <2>3. CellValue(bb, st, m, r, m) = CellText(SubSeq(bb, st + 1, st + m), m, r, m)
    <3>1. st + m <= Len(bb)
      BY <1>1, <1>9
    <3> QED BY <3>1, ValueOfRaw
  <2> QED BY <1>1, <1>3, <1>4, <1>6, <1>9, <1>10, <1>14, <2>1, <2>2, <2>3 DEF FixedUp
<1> QED BY <1>11, <1>12, <1>13

\* A quoted cell with an escaped quote.
LEMMA EscapedFixed ==
    ASSUME FinishFixup, NEW c, NEW m, OpenAtTheEnd(c, m, quoted), m >= 2, "EMBEDDED" \in quoted,
           RefStates(doc)[Len(doc)].cell = c
    PROVE  FixedUp(c, m)
<1>1. /\ buf \in Seq(Byte) /\ doc \in Seq(Byte) /\ Len(buf) \in Nat /\ Len(doc) \in Nat
      /\ scanned_length = Len(buf) /\ c \in Nat /\ m \in Nat /\ c + m = Len(doc)
      /\ cell_start \in Nat /\ cell_start + m = Len(buf) /\ PendingLen = m
      /\ SubSeq(buf, cell_start + 1, cell_start + m) = SubSeq(doc, c + 1, c + m)
      /\ Open /\ Len(buf) < BuffSize
  BY DEF OpenAtTheEnd, Open
<1>2. PICK inner, st : /\ inner = DeDouble(SubSeq(buf, cell_start + 2, cell_start + m))
                       /\ st = cell_start
  OBVIOUS
<1>3. PICK r : r = (quoted \cup {"CLOSED", "NEEDED"}) \ {"UNCLOSED", "PENDING", "EMBEDDED"}
  OBVIOUS
<1>4. /\ buf' = SubSeq(buf, 1, st + 1) \o inner
      /\ scanned_length' = st + 2 + Len(inner)
      /\ quote_close_position' = 1 + Len(inner)
      /\ quoted' = r
  <2>1. PendingLen # 0 /\ PendingLen # 1
    BY <1>1
  <2> QED BY <1>1, <1>2, <1>3, <2>1, Zenon DEF FinishFixup
<1>5. PICK raw : raw = SubSeq(doc, c + 1, c + m)
  OBVIOUS
<1>6. PICK n : n = QuoteCount(doc, c, m)
  OBVIOUS
<1>7. /\ raw \in Seq(Byte) /\ Len(raw) = m /\ raw[1] = Quote /\ Quote \in Byte
      /\ QuotesIn(raw, m) = n /\ raw[m] = doc[c + m]
      /\ n % 2 = 1 => Closers(raw) = {}
      /\ n % 2 = 0 => Closers(raw) = {m}
  <2>1. IsPart(raw, doc, c + 1, c + m)
    BY <1>5 DEF IsPart
  <2> QED BY <1>6, <2>1, RawAtTheEnd
<1>8. SubSeq(buf, st + 2, st + m) = SubSeq(raw, 2, m)
  <2>1. PICK u, v : u = SubSeq(buf, st + 2, st + m) /\ v = SubSeq(raw, 2, m)
    OBVIOUS
  <2>2. /\ u \in Seq(Byte) /\ Len(u) = (st + m) - (st + 2) + 1
        /\ \A x \in 1..((st + m) - (st + 2) + 1) : u[x] = buf[st + 2 + x - 1]
    <3>1. PICK x, y, b : x = st + 2 /\ y = st + m /\ b = buf
      OBVIOUS
    <3>4. st \in Nat /\ m \in Nat /\ st + m = Len(b) /\ b \in Seq(Byte)
      BY <1>1, <1>2, <3>1
    <3>2. x \in Nat \ {0} /\ y \in Nat /\ y <= Len(b) /\ x <= y + 1 /\ b \in Seq(Byte)
      BY <3>1, <3>4
    <3>3. /\ SubSeq(b, x, y) \in Seq(Byte) /\ Len(SubSeq(b, x, y)) = y - x + 1
          /\ \A j \in 1..(y - x + 1) : SubSeq(b, x, y)[j] = b[x + j - 1]
      BY <3>2, Piece
    <3> QED BY <2>1, <3>1, <3>3
  <2>3. /\ v \in Seq(Byte) /\ Len(v) = m - 2 + 1
        /\ \A x \in 1..(m - 2 + 1) : v[x] = raw[2 + x - 1]
    BY <1>1, <1>7, <2>1, Piece
  <2>4. PICK w : w = SubSeq(buf, st + 1, st + m)
    OBVIOUS
  <2>5. /\ w = raw /\ \A x \in 1..((st + m) - (st + 1) + 1) : w[x] = buf[st + 1 + x - 1]
    <3>1. st + 1 \in Nat \ {0} /\ st + m \in Nat /\ st + m <= Len(buf) /\ st + 1 <= (st + m) + 1
      BY <1>1, <1>2
    <3>2. \A x \in 1..((st + m) - (st + 1) + 1) : w[x] = buf[st + 1 + x - 1]
      BY <1>1, <2>4, <3>1, Piece
    <3> QED BY <1>1, <1>2, <1>5, <2>4, <3>2
  <2>6. ASSUME NEW x \in 1..(m - 1) PROVE u[x] = v[x]
    <3>1. /\ x \in 1..((st + m) - (st + 2) + 1) /\ x \in 1..(m - 2 + 1)
          /\ x + 1 \in 1..((st + m) - (st + 1) + 1)
          /\ st + 1 + (x + 1) - 1 = st + 2 + x - 1 /\ 2 + x - 1 = x + 1
      <4>1. m \in Nat /\ st \in Nat /\ x \in 1..(m - 1)
        BY <1>1, <1>2
      <4>2. (st + m) - (st + 2) + 1 = m - 1 /\ m - 2 + 1 = m - 1
            /\ (st + m) - (st + 1) + 1 = m
        BY <4>1
      <4>3. x + 1 \in 1..m
        BY <4>1
      <4>4. st + 1 + (x + 1) - 1 = st + 2 + x - 1 /\ 2 + x - 1 = x + 1
        BY <4>1
      <4> QED BY <4>1, <4>2, <4>3, <4>4
    <3> QED BY <2>2, <2>3, <2>5, <3>1
  <2>7. Len(u) = m - 1 /\ Len(v) = m - 1
    BY <1>1, <1>2, <2>2, <2>3
  <2>8. u = v
    BY <2>2, <2>3, <2>6, <2>7, SeqEqual
  <2> QED BY <2>1, <2>8
<1>9. inner \in Seq(Byte) /\ Len(inner) <= m - 1 /\ Len(inner) \in Nat
  <2>1. PICK v : v = SubSeq(raw, 2, m)
    OBVIOUS
  <2>2. v \in Seq(Byte) /\ Len(v) = m - 2 + 1
    BY <1>1, <1>7, <2>1, Piece
  <2>3. inner = DeDouble(v)
    BY <1>2, <1>8, <2>1
  <2>4. inner \in Seq(Byte) /\ Len(inner) <= Len(v)
    BY <1>7, <2>2, <2>3, DeDoubleShrinks
  <2> QED BY <1>1, <2>2, <2>4, LenProperties
<1>10. scanned_length' >= cell_start /\ scanned_length' > 0
       /\ scanned_length' - cell_start = 2 + Len(inner)
       /\ ~(cell_start + (1 + Len(inner)) >= BuffSize)
  BY <1>1, <1>2, <1>4, <1>9, BuffSizeAssumption
<1>11. CellValue(buf', st, 2 + Len(inner), r, 1 + Len(inner)) = inner
  <2>1. r # {} /\ "EMBEDDED" \notin r
    BY <1>3
  <2>2. PICK b, bb : b = buf /\ bb = SubSeq(b, 1, st + 1) \o inner
    OBVIOUS
  <2>3. b \in Seq(Byte) /\ st \in Nat /\ st + 1 <= Len(b) /\ Written(bb, b, st, inner)
    BY <1>1, <1>2, <2>2 DEF Written
  <2>4. CellValue(bb, st, 2 + Len(inner), r, 1 + Len(inner)) = inner
    BY <1>9, <2>1, <2>3, EscapedAtEnd
  <2> QED BY <1>4, <2>2, <2>4
<1>12. ASSUME ~EndsInEscapedCell(doc) PROVE RefValue(raw) = inner
  <2>1. n % 2 = 1
    <3> SUFFICES ASSUME n % 2 # 1 PROVE FALSE
      OBVIOUS
    <3>1. n % 2 = 0 /\ n > 2
      BY <1>6 DEF OpenAtTheEnd
    <3>2. m \in Closers(raw) /\ QuotesIn(raw, m) > 2
      BY <1>7, <3>1
    <3>3. raw # <<>>
      BY <1>1, <1>7, EmptySeq
    <3>4. RefState(doc).cell = c
      BY DEF RefState
    <3>5. SubSeq(doc, RefState(doc).cell + 1, Len(doc)) = raw
      BY <1>1, <1>5, <3>4
    <3> QED BY <1>7, <1>12, <3>2, <3>3, <3>5 DEF EndsInEscapedCell
  <2>2. RefValue(raw) = DeDouble(SubSeq(raw, 2, Len(raw)))
    BY <1>7, <2>1, OpenText
  <2> QED BY <1>2, <1>7, <1>8, <2>2
<1>13. quoted' = r /\ quote_close_position' = 1 + Len(inner)
  BY <1>4
<1> QED BY <1>2, <1>5, <1>10, <1>11, <1>12, <1>13 DEF FixedUp

\* What the fix-up leaves alone.
LEMMA FixupKeepsRows ==
    ASSUME TypeOK, Tracks, FinishFixup
    PROVE  LET e == RefStates(doc)[Len(doc)] IN
           /\ doc' = doc /\ api' = api /\ row' = row /\ out' = out /\ cell_start' = cell_start
           /\ row_start' = row_start /\ pc' = "fixed" /\ ~buffer_exceeded'
           /\ CellsTrack(e)' /\ RowsTrack(e.rows)' /\ CellsTrack(e)
<1>1. /\ doc' = doc /\ api' = api /\ row' = row /\ out' = out /\ cell_start' = cell_start
      /\ row_start' = row_start /\ pc' = "fixed" /\ buffer_exceeded' = buffer_exceeded
      /\ pc \in {"eof", "ready"} /\ pos = Len(doc)
  BY DEF FinishFixup, CallsFinish, input, rowv
<1>2. PICK e : e = RefStates(doc)[Len(doc)]
  OBVIOUS
<1>3. AtPos = Len(doc)
  BY <1>1 DEF AtPos
<1>4. CellsTrack(e) /\ RowsTrack(e.rows) /\ ~buffer_exceeded
  BY <1>2, <1>3 DEF Tracks, StateTracks
<1>5. PICK rr, oo : rr = row /\ oo = out
  OBVIOUS
<1>6. CellsTrack(RefStates(doc)[Len(doc)])'
  BY <1>1, <1>2, <1>4 DEF CellsTrack
<1>7. RowsTrack(RefStates(doc)[Len(doc)].rows)'
  BY <1>1, <1>2, <1>4 DEF RowsTrack, RowTracks
<1> QED BY <1>1, <1>2, <1>4, <1>6, <1>7

\* An open row of no byte has no cell.
LEMMA NoOpenRow ==
    ASSUME NEW e, NEW n \in Nat, IsReading(e, n), e.start = n, CellsTrack(e)
    PROVE  row = <<>>
<1>1. e.cell = n /\ e.row = <<>>
  BY DEF IsReading
<1>2. Len(row) = 0
  BY <1>1 DEF CellsTrack
<1>3. row \in Seq({row[k] : k \in DOMAIN row})
  BY DEF CellsTrack, IsSequence
<1> QED BY <1>2, <1>3, EmptySeq

\* The fix-up at the end of the input leaves in the buffer what the last cell
\* stands for.
LEMMA LastCellFixed ==
    ASSUME RowsFit, FinishFixup, NEW c, NEW m, NEW e, AtEnd(c, m, e), Len(buf) > 0
    PROVE  FixedUp(c, m)
<1>1. CASE ~Open
  BY <1>1, ClosedStays
<1>2. CASE Open
  <2>1. OpenAtTheEnd(c, m, quoted)
    BY <1>2, OpenIsKnown
  <2>2. m >= 1 /\ m \in Nat
    BY <2>1 DEF OpenAtTheEnd
  <2>3. CASE m = 1
    BY <2>1, <2>3, LoneQuoteFixed
  <2>4. CASE m >= 2 /\ "EMBEDDED" \notin quoted
    BY <2>1, <2>4, PlainQuotedFixed
  <2>5. CASE m >= 2 /\ "EMBEDDED" \in quoted
    <3>1. RefStates(doc)[Len(doc)].cell = c
      BY DEF AtEnd
    <3> QED BY <2>1, <2>5, <3>1, EscapedFixed
  <2> QED BY <2>2, <2>3, <2>4, <2>5
<1> QED BY <1>1, <1>2

\* The fix-up at the end of the input: every complete row has been handed over,
\* and the last cell is in the buffer.
LEMMA FixupTracks ==
    ASSUME RowsFit, IInv, TypeOK, TypeOK', Tracks, FinishFixup
    PROVE  TracksToEnd'
<1>1. PICK e : e = RefStates(doc)[Len(doc)]
  OBVIOUS
<1>2. /\ doc' = doc /\ api' = api /\ row' = row /\ out' = out /\ cell_start' = cell_start
      /\ row_start' = row_start /\ pc' = "fixed" /\ ~buffer_exceeded'
      /\ CellsTrack(e)' /\ RowsTrack(e.rows)' /\ CellsTrack(e)
  BY <1>1, FixupKeepsRows
<1>3. ASSUME api # "bytes" PROVE LastCellTracks'
  <2>1. PICK c, m, e2 : AtEnd(c, m, e2)
    BY <1>3, FinishIsAtEnd
  <2>2. /\ e2 = e /\ IsReading(e, Len(doc)) /\ e.cell = c /\ Len(doc) \in Nat /\ Len(buf) \in Nat
        /\ (e.start = Len(doc) <=> Len(buf) = 0) /\ cell_start \in Nat /\ m \in Nat
        /\ cell_start + m = Len(buf) /\ PendingLen = m /\ scanned_length = Len(buf)
    BY <1>1, <2>1 DEF AtEnd
  <2>3. CASE Len(buf) = 0
    <3>1. row' = <<>>
      BY <1>2, <2>2, <2>3, NoOpenRow
    <3>2. m = 0
      BY <2>2, <2>3
    <3>3. scanned_length' = 0
      BY <2>2, <2>3, <3>2 DEF FinishFixup
    <3> QED BY <1>1, <1>2, <2>2, <2>3, <3>1, <3>3 DEF LastCellTracks
  <2>4. CASE Len(buf) # 0
    <3>1. FixedUp(c, m)
      <4>1. Len(buf) > 0
        BY <2>2, <2>4
      <4> QED BY <2>1, <4>1, LastCellFixed
    <3>2. e.start # Len(doc) /\ c + m = Len(doc)
      BY <2>1, <2>2, <2>4 DEF AtEnd
    <3>3. HaveLastCell'
      BY <1>2, <3>1 DEF FixedUp, HaveLastCell
    <3>4. ASSUME ~OnlyCrlf PROVE VirtualQuoteFits'
      BY <1>2, <3>1, <3>4 DEF FixedUp, VirtualQuoteFits
    <3>5. ASSUME ~OnlyCrlf, ~EndsInEscapedCell(doc)
          PROVE  CellValue(buf', cell_start, scanned_length' - cell_start, quoted',
                           quote_close_position')
                   = RefValue(SubSeq(doc, e.cell + 1, Len(doc)))
      BY <2>2, <3>1, <3>2, <3>5 DEF FixedUp
    <3> QED BY <1>1, <1>2, <3>2, <3>3, <3>4, <3>5, Zenon DEF LastCellTracks
  <2> QED BY <2>3, <2>4
<1> QED BY <1>1, <1>2, <1>3 DEF TracksToEnd

\* Making room for the closing quote keeps the last cell there.
LEMMA NoRoomTracks ==
    ASSUME TypeOK, TracksToEnd, FinishNoRoom
    PROVE  TracksToEnd'
<1>1. PICK e : e = RefStates(doc)[Len(doc)]
  OBVIOUS
<1>2. /\ doc' = doc /\ api' = api /\ row' = row /\ out' = out /\ pc' = "closing" /\ pc = "fixed"
      /\ buffer_exceeded' = buffer_exceeded /\ ~VirtualQuoteFits
  BY DEF FinishNoRoom, input, rowv
<1>3. CellsTrack(e) /\ RowsTrack(e.rows) /\ ~buffer_exceeded /\ (api # "bytes" => LastCellTracks)
  BY <1>1 DEF TracksToEnd
<1>4. CellsTrack(RefStates(doc)[Len(doc)])'
  BY <1>1, <1>2, <1>3 DEF CellsTrack
<1>5. RowsTrack(RefStates(doc)[Len(doc)].rows)'
  BY <1>1, <1>2, <1>3 DEF RowsTrack, RowTracks
<1>6. PICK st, rs, sc, bs : /\ st = cell_start /\ rs = row_start /\ sc = scanned_length
                            /\ bs = BuffSize
  OBVIOUS
<1>7. /\ st \in Nat /\ rs \in Nat /\ sc \in Nat /\ bs \in Nat /\ bs >= 1 /\ st <= bs /\ rs <= bs
  BY <1>6, BuffSizeAssumption DEF TypeOK
<1>8. /\ cell_start' = IF rs > 0 THEN st - rs ELSE st
      /\ scanned_length' = IF rs > 0
                           THEN IF sc > bs - rs + 1 THEN bs - rs + 1 ELSE sc
                           ELSE IF sc > bs - 1 + 1 THEN bs - 1 + 1 ELSE sc
  BY <1>6 DEF FinishNoRoom
<1>9. sc = 0 => scanned_length' = 0
  BY <1>7, <1>8
<1>10. sc > 0 /\ sc >= st => scanned_length' > 0 /\ scanned_length' >= cell_start'
  <2>1. CASE rs > 0
    <3>1. PICK x, y : x = scanned_length' /\ y = cell_start'
      OBVIOUS
    <3>2. y = st - rs /\ x = IF sc > bs - rs + 1 THEN bs - rs + 1 ELSE sc
      BY <1>8, <2>1, <3>1
    <3>3. sc > 0 /\ sc >= st => x > 0 /\ x >= y
      BY <1>7, <3>2
    <3> QED BY <3>1, <3>3
  <2>2. CASE ~(rs > 0)
    <3>1. PICK x, y : x = scanned_length' /\ y = cell_start'
      OBVIOUS
    <3>2. y = st /\ x = IF sc > bs - 1 + 1 THEN bs - 1 + 1 ELSE sc
      BY <1>8, <2>2, <3>1
    <3>3. sc > 0 /\ sc >= st => x > 0 /\ x >= y
      BY <1>7, <3>2
    <3> QED BY <3>1, <3>3
  <2> QED BY <2>1, <2>2
<1>11. HaveLastCell => HaveLastCell'
  BY <1>6, <1>10 DEF HaveLastCell
<1>12. ASSUME api # "bytes" PROVE LastCellTracks'
  <2>1. /\ IF e.start = Len(doc) THEN row = <<>> /\ scanned_length = 0 ELSE HaveLastCell
        /\ ~(e.start # Len(doc) /\ ~OnlyCrlf)
    BY <1>1, <1>2, <1>3, <1>12 DEF LastCellTracks
  <2>2. IF e.start = Len(doc) THEN row' = <<>> /\ scanned_length' = 0 ELSE HaveLastCell'
    BY <1>2, <1>6, <1>9, <1>11, <2>1
  <2> QED BY <1>1, <1>2, <2>1, <2>2, Zenon DEF LastCellTracks
<1> QED BY <1>1, <1>2, <1>3, <1>4, <1>5, <1>12 DEF TracksToEnd

\* The rows the last one is appended to.
LEMMA RowsBeforeTheLast ==
    ASSUME OutIsSequence, NEW rows, RowsTrack(rows), NEW o, NEW more, more = Append(out, o)
    PROVE  /\ Len(more) = Len(rows) + 1 /\ more[Len(rows) + 1] = o /\ Len(rows) \in Nat
           /\ \A k \in 1..Len(rows) : RowTracks(more[k], rows[k])
<1>1. /\ Len(more) = Len(out) + 1 /\ \A x \in 1..Len(out) : more[x] = out[x]
      /\ more[Len(out) + 1] = o /\ Len(out) \in Nat
  BY AppendToOut DEF OutIsSequence
<1>2. Len(out) = Len(rows) /\ \A x \in 1..Len(out) : RowTracks(out[x], rows[x])
  BY DEF RowsTrack
<1> QED BY <1>1, <1>2

\* What zsv_finish() does with the last row.
LastCells == IF HaveLastCell THEN WithCell(scanned_length - cell_start) ELSE row

\* It hands over at most one row, whose cells are those.
LEMMA LastHandedOver ==
    ASSUME FinishLast, ~buffer_exceeded
    PROVE  /\ doc' = doc /\ api' = api /\ pc' = "done" /\ (pc = "fixed" \/ pc = "closing")
           /\ pc = "fixed" => VirtualQuoteFits
           /\ LastCells = <<>> => out' = out
           /\ LastCells # <<>> =>
                \E d : /\ out' = Append(out, d)
                       /\ d.kind = "final" /\ d.at = Len(doc) /\ d.cells = LastCells
<1>1. /\ doc' = doc /\ api' = api /\ pc' = "done" /\ (pc = "fixed" \/ pc = "closing")
      /\ pc = "fixed" => VirtualQuoteFits
  BY DEF FinishLast, input
<1>2. PICK r : r = LastCells
  OBVIOUS
<1>3. PICK d : d = [Delivered(r, "final", scanned_length, CumScanned(scanned_length, TRUE))
                      EXCEPT !.at = Len(doc)]
  OBVIOUS
<1>4. IF r # <<>> THEN out' = Append(out, d) ELSE out' = out
  BY <1>2, <1>3 DEF FinishLast, LastCells
<1>5. d.kind = "final" /\ d.at = Len(doc) /\ d.cells = r
  BY <1>3 DEF Delivered
<1> QED BY <1>1, <1>2, <1>4, <1>5

\* The last row of the document is handed over if it has any byte.
LEMMA LastRowTracks ==
    ASSUME IInv, TypeOK, TracksToEnd, FinishLast
    PROVE  Tracked'
<1>1. PICK e, n : e = RefStates(doc)[Len(doc)] /\ n = Len(e.rows)
  OBVIOUS
<1>2. CellsTrack(e) /\ RowsTrack(e.rows) /\ ~buffer_exceeded /\ (api # "bytes" => LastCellTracks)
  BY <1>1 DEF TracksToEnd
<1>3. /\ doc' = doc /\ api' = api /\ pc' = "done" /\ (pc = "fixed" \/ pc = "closing")
      /\ pc = "fixed" => VirtualQuoteFits
      /\ LastCells = <<>> => out' = out
      /\ LastCells # <<>> =>
           \E d : /\ out' = Append(out, d)
                  /\ d.kind = "final" /\ d.at = Len(doc) /\ d.cells = LastCells
  BY <1>2, LastHandedOver
<1>4. OutIsSequence
  BY DEF IInv
<1>5. IsReading(e, Len(doc)) /\ Len(doc) \in Nat
  <2>1. doc \in Seq(Byte)
    BY DocsAssumption DEF TypeOK
  <2>2. Len(doc) \in 0..Len(doc) /\ Len(doc) \in Nat
    BY <2>1, LenProperties
  <2> QED BY <1>1, <2>1, <2>2, MaxColsAssumption, ReadingShape
<1>6. PICK rows : rows = e.rows
  OBVIOUS
<1>7. Len(rows) = n /\ RowsTrack(rows)
  BY <1>1, <1>2, <1>6
<1>8. /\ Len(out') = n \/ (Len(out') = n + 1 /\ out'[n + 1].kind = "final")
      /\ \A k \in 1..n : RowTracks(out'[k], e.rows[k])
      /\ LastCells # <<>> =>
           /\ Len(out') = n + 1 /\ out'[n + 1].at = Len(doc) /\ out'[n + 1].cells = LastCells
  <2>1. CASE LastCells = <<>>
    BY <1>3, <1>6, <1>7, <2>1 DEF RowsTrack
  <2>2. CASE LastCells # <<>>
    <3>1. PICK d : /\ out' = Append(out, d)
                   /\ d.kind = "final" /\ d.at = Len(doc) /\ d.cells = LastCells
      BY <1>3, <2>2
    <3>2. PICK more : more = Append(out, d)
      OBVIOUS
    <3>3. /\ Len(more) = n + 1 /\ more[n + 1] = d
          /\ \A k \in 1..n : RowTracks(more[k], rows[k])
      BY <1>4, <1>7, <3>2, RowsBeforeTheLast
    <3> QED BY <1>6, <3>1, <3>2, <3>3
  <2> QED BY <2>1, <2>2
<1>9. ASSUME api # "bytes", e.start = Len(doc) PROVE Len(out') = n
  <2>1. row = <<>> /\ scanned_length = 0
    BY <1>1, <1>2, <1>9 DEF LastCellTracks
  <2>2. LastCells = <<>>
    BY <2>1 DEF LastCells, HaveLastCell
  <2> QED BY <1>2, <1>3, <1>7, <2>2 DEF RowsTrack
<1>10. ASSUME api # "bytes", e.start # Len(doc)
       PROVE  /\ LastCells # <<>> /\ Len(LastCells) = Len(RefAddCell(e, doc, Len(doc)))
              /\ ~OnlyCrlf /\ ~EndsInEscapedCell(doc) => LastCells = RefAddCell(e, doc, Len(doc))
  <2>1. LastCellTracks
    BY <1>2, <1>10
  <2>2. LastCells = WithCell(scanned_length - cell_start)
    BY <1>1, <1>10, <2>1 DEF LastCellTracks, LastCells
  <2>3. ~OnlyCrlf /\ ~EndsInEscapedCell(doc) =>
          CellValue(buf, cell_start, scanned_length - cell_start, quoted, quote_close_position)
            = RefValue(SubSeq(doc, e.cell + 1, Len(doc)))
    BY <1>1, <1>10, <2>1 DEF LastCellTracks
  <2>4. PICK l, to : l = scanned_length - cell_start /\ to = Len(doc)
    OBVIOUS
  <2>5. /\ Len(WithCell(l)) = Len(RefAddCell(e, doc, to))
        /\ ~OnlyCrlf /\ CellValue(buf, cell_start, l, quoted, quote_close_position)
                          = RefValue(SubSeq(doc, e.cell + 1, to))
             => WithCell(l) = RefAddCell(e, doc, to)
    BY <1>2, <1>5, CellStored
  <2>6. Len(RefAddCell(e, doc, to)) \in 1..MaxCols
    BY <1>5, MaxColsAssumption, CellAdded DEF IsReading
  <2>7. Len(LastCells) # 0
    BY <2>2, <2>4, <2>5, <2>6, MaxColsAssumption
  <2>8. LastCells # <<>>
    BY <2>7, EmptySeq
  <2> QED BY <2>2, <2>3, <2>4, <2>5, <2>8
<1>11. /\ api' # "bytes" /\ e.start = Len(doc') => Len(out') = n
       /\ api' # "bytes" /\ e.start # Len(doc') =>
             /\ Len(out') = n + 1 /\ out'[n + 1].at = Len(doc')
             /\ Len(out'[n + 1].cells) = Len(RefAddCell(e, doc', Len(doc')))
             /\ ~OnlyCrlf /\ ~EndsInEscapedCell(doc') =>
                  out'[n + 1].cells = RefAddCell(e, doc', Len(doc'))
  BY <1>3, <1>8, <1>9, <1>10
<1>12. e = RefStates(doc')[Len(doc')]
  BY <1>1, <1>3
<1>13. \A k \in 1..n : RowTracks(out[k]', e.rows[k])
  BY <1>8
<1> QED BY <1>1, <1>8, <1>11, <1>12, <1>13, Zenon DEF Tracked

-----------------------------------------------------------------------------
(* The rows handed over are the rows of the document *)

StillReading == pc \in {"ready", "read", "scan", "row", "eof"}

\* The inductive invariant holds at first ...
LEMMA InitIsTracked == Init => TracksInv
<1> SUFFICES ASSUME Init PROVE TracksInv
  OBVIOUS
<1>1. Tracks
  BY InitTracks
<1>2. pc = "ready"
  BY DEF Init
<1> QED BY <1>1, <1>2 DEF TracksInv

\* ... and every step keeps it.
LEMMA StepIsTracked ==
    ASSUME CR \notin InputEnds, IInv, IInv', TypeOK, TypeOK', TracksInv, [Next]_vars
    PROVE  TracksInv'
<1>1. CASE UNCHANGED vars
  BY <1>1 DEF TracksInv, RowsFit, TracksToEnd, Tracked, Tracks, BufferTracks, LastTracks,
     LastIs, StateTracks, AtPos, CellPos, RowPos, Base, CellsTrack, RowsTrack, RowTracks,
     PendingIsLast, LastCellTracks, HaveLastCell, VirtualQuoteFits, vars, input, regs, cellv,
     count, rowv
<1>2. CASE ~UNCHANGED vars
  <2>1. Next /\ ~Done
    BY <1>2 DEF Done
  <2>2. doc' = doc /\ api' = api
    BY <2>1 DEF Next, PreParse, PreParseTruncate, Read, ReadEof, SetInput, Scan, NextRow,
       FinishFixup, FinishNoRoom, FinishLast, ScanOther, ScanSkipped, ScanDelim,
       ScanQuotedSpecial, ScanCR, ScanCRonlyCrlf, ScanLF, ScanLFofCRLF, ScanLFonlyCrlf,
       ScanQuoteOpen, ScanQuoteClose, ScanQuoteDoubled, ScanQuotePending, ScanQuoteMidCell,
       EndOfChunk, RowEnd, Advance, input
  <2>3. SUFFICES ASSUME RowsFit'
        PROVE  CASE pc' \in {"fixed", "closing"} -> TracksToEnd'
                 [] pc' = "done" -> Tracked'
                 [] OTHER -> Tracks'
    BY DEF TracksInv
  <2>4. RowsFit
    BY <2>2, <2>3 DEF RowsFit
  <2>5. /\ StillReading => Tracks
        /\ pc \in {"fixed", "closing"} => TracksToEnd
    BY <2>4 DEF TracksInv, StillReading
  <2>6. CASE PreParse
    <3>1. StillReading /\ pc' = "read"
      BY <2>6 DEF PreParse, StillReading
    <3> QED BY <2>5, <2>6, <3>1, PreParseTracks
  <2>7. CASE PreParseTruncate
    <3>1. StillReading
      BY <2>7 DEF PreParseTruncate, StillReading
    <3> QED BY <2>4, <2>5, <2>7, <3>1, NoTruncation
  <2>8. CASE \E k \in 1..BuffSize : Read(k)
    <3>1. PICK k \in 1..BuffSize : Read(k)
      BY <2>8
    <3>2. StillReading /\ pc' = "scan"
      BY <3>1 DEF Read, StillReading
    <3> QED BY <2>5, <3>1, <3>2, ReadTracks
  <2>9. CASE ReadEof \/ SetInput
    <3>1. StillReading /\ pc' \in {"eof", "ready"}
      BY <2>9 DEF ReadEof, SetInput, StillReading
    <3> QED BY <2>5, <2>9, <3>1, InputEndTracks
  <2>10. CASE Scan
    <3>1. StillReading /\ pc' \in {"scan", "row", "ready"}
      BY <2>10 DEF Scan, ScanOther, ScanSkipped, ScanDelim, ScanQuotedSpecial, ScanCR,
         ScanCRonlyCrlf, ScanLF, ScanLFofCRLF, ScanLFonlyCrlf, ScanQuoteOpen,
         ScanQuoteClose, ScanQuoteDoubled, ScanQuotePending, ScanQuoteMidCell, EndOfChunk,
         AtInnerQuote, AtByte, RowEnd, Advance, StillReading
    <3> QED BY <2>5, <2>10, <3>1, ScanTracks
  <2>11. CASE NextRow
    <3>1. StillReading /\ pc' = "scan"
      BY <2>11 DEF NextRow, StillReading
    <3> QED BY <2>5, <2>11, <3>1, NextRowTracks
  <2>12. CASE FinishFixup
    <3>1. StillReading /\ pc' = "fixed"
      BY <2>12 DEF FinishFixup, CallsFinish, StillReading
    <3> QED BY <2>4, <2>5, <2>12, <3>1, FixupTracks
  <2>13. CASE FinishNoRoom
    <3>1. pc = "fixed" /\ pc' = "closing"
      BY <2>13 DEF FinishNoRoom
    <3> QED BY <2>5, <2>13, <3>1, NoRoomTracks
  <2>14. CASE FinishLast
    <3>1. pc \in {"fixed", "closing"} /\ pc' = "done"
      BY <2>14 DEF FinishLast
    <3> QED BY <2>5, <2>14, <3>1, LastRowTracks
  <2> QED BY <2>1, <2>6, <2>7, <2>8, <2>9, <2>10, <2>11, <2>12, <2>13, <2>14 DEF Next
<1> QED BY <1>1, <1>2

\* However the input is cut into pieces, as long as no chained input ends in a
\* CR: at each point of the parse the scanner is where a left-to-right reading
\* of the whole document would be, and has handed over the rows of that reading.
THEOREM ReadingIsTracked ==
    ASSUME CR \notin InputEnds
    PROVE  Spec => []TracksInv
<1>1. Init => TracksInv
  BY InitIsTracked
<1>2. IInv /\ IInv' /\ TypeOK /\ TypeOK' /\ TracksInv /\ [Next]_vars => TracksInv'
  BY StepIsTracked
<1> QED BY <1>1, <1>2, IInvHolds, ParserHasItsTypes, PTL DEF Spec

\* The rows that were handed over are rows of a reading of the document.
LEMMA RowsHandedOver ==
    ASSUME RowsFit, IInv, TypeOK, TracksInv
    PROVE  \E x \in 0..Len(doc) :
             LET rows == RefStates(doc)[x].rows IN
             /\ \/ Len(out) = Len(rows)
                \/ pc = "done" /\ Len(out) = Len(rows) + 1 /\ out[Len(rows) + 1].kind = "final"
             /\ \A k \in 1..Len(rows) : RowTracks(out[k], rows[k])
<1>1. doc \in Seq(Byte) /\ Len(doc) \in Nat
  BY DocsAssumption, LenProperties DEF TypeOK
<1>2. Len(doc) \in 0..Len(doc)
  BY <1>1
<1>3. CASE pc \in {"fixed", "closing"}
  <2>1. PICK x : x = Len(doc)
    OBVIOUS
  <2>2. TracksToEnd
    BY <1>3 DEF TracksInv
  <2>3. RowsTrack(RefStates(doc)[x].rows)
    BY <2>1, <2>2 DEF TracksToEnd
  <2>4. x \in 0..Len(doc)
    BY <1>2, <2>1
  <2> QED BY <2>3, <2>4 DEF RowsTrack
<1>4. CASE pc = "done"
  <2>1. PICK x : x = Len(doc)
    OBVIOUS
  <2>2. Tracked
    BY <1>4 DEF TracksInv
  <2>3. /\ \/ Len(out) = Len(RefStates(doc)[x].rows)
           \/ /\ Len(out) = Len(RefStates(doc)[x].rows) + 1
              /\ out[Len(RefStates(doc)[x].rows) + 1].kind = "final"
        /\ \A k \in 1..Len(RefStates(doc)[x].rows) :
             RowTracks(out[k], RefStates(doc)[x].rows[k])
    BY <2>1, <2>2, Zenon DEF Tracked
  <2>4. x \in 0..Len(doc)
    BY <1>2, <2>1
  <2> QED BY <1>4, <2>3, <2>4
<1>5. CASE StillReading
  <2>1. PICK x : x = AtPos
    OBVIOUS
  <2>2. Tracks
    BY <1>5 DEF TracksInv, StillReading
  <2>3. RowsTrack(RefStates(doc)[x].rows)
    BY <2>1, <2>2 DEF Tracks, StateTracks
  <2>4. x \in 0..Len(doc)
    <3>1. /\ pos \in 0..Len(doc) /\ Len(buf) <= pos /\ Len(buf) \in Nat
      BY <2>2, LenProperties DEF Tracks, BufferTracks, TypeOK
    <3>2. CASE pc \in {"scan", "row"}
      <4>1. i \in Int /\ 0 <= i /\ i <= Len(buf) /\ (pc = "row" => i < Len(buf))
        BY <3>2 DEF IInv, Scanning, WhileScanning, Numbers, BufferShape
      <4>2. x = pos - Len(buf) + (IF pc = "row" THEN i + 1 ELSE i)
        <5>1. PICK b : b = Base
          OBVIOUS
        <5>2. b \in Int /\ b = pos - Len(buf)
          BY <3>1, <5>1 DEF Base
        <5>3. x = IF pc = "row" THEN b + i + 1 ELSE b + i
          BY <2>1, <3>2, <5>1 DEF AtPos
        <5> QED BY <4>1, <5>2, <5>3
      <4> QED BY <1>1, <3>1, <4>1, <4>2
    <3>3. CASE ~(pc \in {"scan", "row"})
      <4>1. x = pos
        BY <2>1, <3>3 DEF AtPos
      <4> QED BY <3>1, <4>1
    <3> QED BY <3>2, <3>3
  <2> QED BY <2>3, <2>4 DEF RowsTrack
<1> QED BY <1>3, <1>4, <1>5 DEF TypeOK, StillReading

\* So their offsets are those of the document's rows.
LEMMA TrackedRowsAreExact ==
    ASSUME IInv, TypeOK, TracksInv
    PROVE  OffsetsAreExact
<1> SUFFICES ASSUME RowsFit, NEW k \in DOMAIN out, out[k].kind = "row"
             PROVE  /\ k <= Len(Ref[doc]) /\ out[k].end = Ref[doc][k].at
                    /\ out[k].end - out[k].raw = Ref[doc][k].start
  BY DEF OffsetsAreExact
<1>1. doc \in Docs /\ doc \in Seq(Byte)
  BY DocsAssumption DEF TypeOK
<1>2. PICK x \in 0..Len(doc) :
         LET rows == RefStates(doc)[x].rows IN
         /\ \/ Len(out) = Len(rows)
            \/ pc = "done" /\ Len(out) = Len(rows) + 1 /\ out[Len(rows) + 1].kind = "final"
         /\ \A j \in 1..Len(rows) : RowTracks(out[j], rows[j])
  BY RowsHandedOver
<1>3. PICK rows : rows = RefStates(doc)[x].rows
  OBVIOUS
<1>4. /\ Len(out) = Len(rows) \/ (Len(out) = Len(rows) + 1 /\ out[Len(rows) + 1].kind = "final")
      /\ \A j \in 1..Len(rows) : RowTracks(out[j], rows[j])
  BY <1>2, <1>3
<1>5. PICK ref : ref = RefRows(doc)
  OBVIOUS
<1>6. /\ Len(rows) \in Nat /\ Len(ref) \in Nat /\ Len(rows) <= Len(ref)
      /\ \A j \in 1..Len(rows) : ref[j] = rows[j]
  BY <1>1, <1>3, <1>5, MaxColsAssumption, RowsReadAreTheDocuments
<1>7. Ref[doc] = ref
  BY <1>1, <1>5 DEF Ref
<1>8. k \in 1..Len(out) /\ Len(out) \in Nat
  BY DEF IInv, OutIsSequence
<1>9. k \in 1..Len(rows)
  <2>1. k # Len(rows) + 1 \/ Len(out) = Len(rows)
    BY <1>4
  <2> QED BY <1>4, <1>6, <1>8, <2>1
<1>10. RowTracks(out[k], rows[k])
  BY <1>4, <1>9
<1>11. \A j \in 1..k : out[j].kind # "truncated"
  <2> SUFFICES ASSUME NEW j \in 1..k PROVE out[j].kind # "truncated"
    OBVIOUS
  <2>1. j \in 1..Len(rows)
    BY <1>6, <1>9
  <2>2. RowTracks(out[j], rows[j])
    BY <1>4, <2>1
  <2> QED BY <2>2 DEF RowTracks
<1>12. out[k].end = out[k].at
  BY <1>11 DEF IInv, CumIsExact
<1>13. ref[k] = rows[k] /\ k <= Len(ref)
  BY <1>6, <1>9
<1> QED BY <1>7, <1>10, <1>12, <1>13 DEF RowTracks

\* In every row handler, for every document whose rows fit the buffer, whatever
\* the options: zsv_cum_scanned_length() is where the row ends in the document
\* and, less zsv_row_length_raw_bytes(), where it starts.
THEOREM RowOffsetsAreExact ==
    ASSUME CR \notin InputEnds
    PROVE  Spec => []OffsetsAreExact
<1>1. IInv /\ TypeOK /\ TracksInv => OffsetsAreExact
  BY TrackedRowsAreExact
<1> QED BY <1>1, IInvHolds, ParserHasItsTypes, ReadingIsTracked, PTL

\* At the end of the parse, the last row included.
LEMMA RowsAtTheEnd ==
    ASSUME RowsFit, TypeOK, TracksInv, pc = "done", api # "bytes", NEW ref, ref = RefRows(doc)
    PROVE  /\ Len(out) = Len(ref)
           /\ \A k \in 1..Len(ref) : /\ Len(out[k].cells) = Len(ref[k].cells)
                                     /\ out[k].at = ref[k].at
                                     /\ ~OnlyCrlf /\ (EndsInEscapedCell(doc) => k < Len(ref))
                                          => out[k].cells = ref[k].cells
<1>1. doc \in Seq(Byte) /\ Len(doc) \in Nat /\ Tracked
  BY DocsAssumption, LenProperties DEF TypeOK, TracksInv
<1>2. PICK e, n, cells : /\ e = RefStates(doc)[Len(doc)] /\ n = Len(e.rows)
                         /\ cells = RefAddCell(e, doc, Len(doc))
  OBVIOUS
<1>3. /\ n \in Nat
      /\ e.start = Len(doc) => ref = e.rows
      /\ e.start # Len(doc) =>
           /\ Len(ref) = n + 1 /\ \A j \in 1..n : ref[j] = e.rows[j]
           /\ ref[n + 1] = [cells |-> cells, start |-> e.start, at |-> Len(doc)]
  BY <1>1, <1>2, MaxColsAssumption, RowsOfDocument
<1>4. /\ \A k \in 1..n : RowTracks(out[k], e.rows[k])
      /\ e.start = Len(doc) => Len(out) = n
      /\ e.start # Len(doc) =>
           /\ Len(out) = n + 1 /\ out[n + 1].at = Len(doc)
           /\ Len(out[n + 1].cells) = Len(cells)
           /\ ~OnlyCrlf /\ ~EndsInEscapedCell(doc) => out[n + 1].cells = cells
  BY <1>1, <1>2, Zenon DEF Tracked
<1>5. CASE e.start = Len(doc)
  BY <1>2, <1>3, <1>4, <1>5 DEF RowTracks
<1>6. CASE e.start # Len(doc)
  <2> SUFFICES ASSUME NEW k \in 1..Len(ref)
               PROVE  /\ Len(out[k].cells) = Len(ref[k].cells)
                      /\ out[k].at = ref[k].at
                      /\ ~OnlyCrlf /\ (EndsInEscapedCell(doc) => k < Len(ref))
                           => out[k].cells = ref[k].cells
    BY <1>3, <1>4, <1>6
  <2>1. CASE k \in 1..n
    <3>1. RowTracks(out[k], ref[k])
      BY <1>3, <1>4, <1>6, <2>1
    <3> QED BY <3>1 DEF RowTracks
  <2>2. CASE k = n + 1
    <3>1. ref[k].cells = cells /\ ref[k].at = Len(doc) /\ ~(k < Len(ref))
      BY <1>3, <1>6, <2>2
    <3> QED BY <1>4, <1>6, <2>2, <3>1
  <2> QED BY <1>3, <1>6, <2>1, <2>2
<1> QED BY <1>5, <1>6

\* Before it, the rows that a row end completed.
LEMMA RowsSoFar ==
    ASSUME RowsFit, IInv, TypeOK, TracksInv, NEW ref, ref = RefRows(doc)
    PROVE  \E n \in Nat :
             /\ n <= Len(ref) /\ Len(ref) \in Nat
             /\ Len(out) = n \/ (pc = "done" /\ Len(out) = n + 1 /\ out[n + 1].kind = "final")
             /\ \A k \in 1..n : RowTracks(out[k], ref[k])
<1>1. PICK x \in 0..Len(doc) :
         LET rows == RefStates(doc)[x].rows IN
         /\ \/ Len(out) = Len(rows)
            \/ pc = "done" /\ Len(out) = Len(rows) + 1 /\ out[Len(rows) + 1].kind = "final"
         /\ \A j \in 1..Len(rows) : RowTracks(out[j], rows[j])
  BY RowsHandedOver
<1>2. PICK rows, n : rows = RefStates(doc)[x].rows /\ n = Len(rows)
  OBVIOUS
<1>3. /\ Len(out) = n \/ (pc = "done" /\ Len(out) = n + 1 /\ out[n + 1].kind = "final")
      /\ \A j \in 1..n : RowTracks(out[j], rows[j])
  BY <1>1, <1>2
<1>4. doc \in Seq(Byte)
  BY DocsAssumption DEF TypeOK
<1>5. n \in Nat /\ Len(ref) \in Nat /\ n <= Len(ref) /\ \A j \in 1..n : ref[j] = rows[j]
  BY <1>2, <1>4, MaxColsAssumption, RowsReadAreTheDocuments
<1> QED BY <1>3, <1>5

\* So the rows have the extent and the number of cells of the document's.
LEMMA RowEndsTracked ==
    ASSUME IInv, TypeOK, TracksInv, api # "bytes"
    PROVE  OnlyCrlfEndsRows
<1> SUFFICES ASSUME RowsFit
             PROVE  /\ pc = "done" => Len(out) = Len(Ref[doc])
                    /\ \A k \in DOMAIN out :
                         /\ k <= Len(Ref[doc])
                         /\ Len(out[k].cells) = Len(Ref[doc][k].cells)
                         /\ out[k].at = Ref[doc][k].at
  BY DEF OnlyCrlfEndsRows
<1>1. PICK ref : ref = RefRows(doc)
  OBVIOUS
<1>2. Ref[doc] = ref
  BY <1>1 DEF Ref, TypeOK
<1>3. DOMAIN out = 1..Len(out) /\ Len(out) \in Nat
  BY DEF IInv, OutIsSequence
<1>4. CASE pc = "done"
  <2>1. /\ Len(out) = Len(ref)
        /\ \A k \in 1..Len(ref) : /\ Len(out[k].cells) = Len(ref[k].cells)
                                  /\ out[k].at = ref[k].at
    BY <1>1, <1>4, RowsAtTheEnd
  <2> QED BY <1>2, <1>3, <2>1
<1>5. CASE pc # "done"
  <2>1. PICK n \in Nat : /\ n <= Len(ref) /\ Len(ref) \in Nat /\ Len(out) = n
                         /\ \A k \in 1..n : RowTracks(out[k], ref[k])
    BY <1>1, <1>5, RowsSoFar
  <2> QED BY <1>2, <1>3, <1>5, <2>1 DEF RowTracks
<1> QED BY <1>4, <1>5

\* With and without --only-crlf a reader or puller is handed exactly the
\* document's rows, as far as they reach and as many cells as they have.
\* (Pushed bytes may lose the last one: PushedBytesReadTheSame.)
THEOREM RowEndsAreTheDocuments ==
    ASSUME CR \notin InputEnds, "bytes" \notin Apis
    PROVE  Spec => []OnlyCrlfEndsRows
<1>1. IInv /\ TypeOK /\ TracksInv => OnlyCrlfEndsRows
  <2>1. TypeOK => api # "bytes"
    BY DEF TypeOK
  <2> QED BY <2>1, RowEndsTracked
<1> QED BY <1>1, IInvHolds, ParserHasItsTypes, ReadingIsTracked, PTL

\* Cells() of sequences of records, and when one is the beginning of another.
LEMMA CellsOf ==
    ASSUME NEW rows, Len(rows) \in Nat, DOMAIN rows = 1..Len(rows)
    PROVE  /\ IsSequence(Cells(rows)) /\ Len(Cells(rows)) = Len(rows)
           /\ \A k \in 1..Len(rows) : Cells(rows)[k] = rows[k].cells
<1> DEFINE S == {rows[k].cells : k \in 1..Len(rows)}
<1>1. Cells(rows) = [k \in 1..Len(rows) |-> rows[k].cells]
  BY DEF Cells
<1>2. \A k \in 1..Len(rows) : rows[k].cells \in S
  OBVIOUS
<1>3. [k \in 1..Len(rows) |-> rows[k].cells] \in Seq(S)
  BY <1>2, IsASeq
<1>4. Cells(rows) \in Seq(S)
  BY <1>1, <1>3
<1> HIDE DEF S
<1>5. IsSequence(Cells(rows))
  BY <1>4, SequenceOver
<1>6. Len(Cells(rows)) = Len(rows)
  <2>1. DOMAIN Cells(rows) = 1..Len(rows)
    BY <1>1
  <2>2. DOMAIN Cells(rows) = 1..Len(Cells(rows)) /\ Len(Cells(rows)) \in Nat
    BY <1>4, LenProperties
  <2>3. PICK a, b : a = Len(Cells(rows)) /\ b = Len(rows)
    OBVIOUS
  <2>4. a \in Nat /\ b \in Nat /\ 1..a = 1..b
    BY <2>1, <2>2, <2>3
  <2>5. a = b
    BY <2>4, SameBound
  <2> QED BY <2>3, <2>5
<1> QED BY <1>1, <1>5, <1>6

\* A sequence whose elements another one starts with is a prefix of it.
LEMMA BeginsWith ==
    ASSUME NEW s, NEW t, IsSequence(s), IsSequence(t), Len(s) <= Len(t),
           \A k \in 1..Len(s) : s[k] = t[k]
    PROVE  IsPrefix(s, t)
<1>1. PICK n : n = Len(s)
  OBVIOUS
<1>2. n \in Nat /\ Len(t) \in Nat /\ n <= Len(t)
  BY <1>1, LenProperties DEF IsSequence
<1>3. SubSeq(s, 1, n) = SubSeq(t, 1, n)
  <2> DEFINE S == {s[k] : k \in DOMAIN s}
             T == {t[k] : k \in DOMAIN t}
  <2>1. s \in Seq(S) /\ t \in Seq(T)
    BY DEF IsSequence
  <2> HIDE DEF S, T
  <2>2. PICK a, b : a = SubSeq(s, 1, n) /\ b = SubSeq(t, 1, n)
    OBVIOUS
  <2>3. a \in Seq(S) /\ Len(a) = n - 1 + 1 /\ \A k \in 1..(n - 1 + 1) : a[k] = s[1 + k - 1]
    BY <1>1, <1>2, <2>1, <2>2, Piece
  <2>4. b \in Seq(T) /\ Len(b) = n - 1 + 1 /\ \A k \in 1..(n - 1 + 1) : b[k] = t[1 + k - 1]
    BY <1>2, <2>1, <2>2, Piece
  <2>5. ASSUME NEW k \in 1..n PROVE a[k] = b[k]
    <3>1. k \in 1..(n - 1 + 1) /\ 1 + k - 1 = k /\ s[k] = t[k]
      BY <1>1, <1>2, <2>5
    <3> QED BY <2>3, <2>4, <3>1
  <2>6. Len(a) = n /\ Len(b) = n
    BY <1>2, <2>3, <2>4
  <2>7. a \in Seq(S \cup T) /\ b \in Seq(S \cup T)
    BY <2>3, <2>4
  <2>8. a = b
    BY <2>5, <2>6, <2>7, SeqEqual
  <2> QED BY <2>2, <2>8
<1> QED BY <1>1, <1>2, <1>3 DEF IsPrefix

\* Two sequences with the same elements are the same.
LEMMA SameSequence ==
    ASSUME NEW s, NEW t, IsSequence(s), IsSequence(t), Len(s) = Len(t),
           \A k \in 1..Len(s) : s[k] = t[k]
    PROVE  s = t
<1>1. s \in Seq({s[k] : k \in DOMAIN s} \cup {t[k] : k \in DOMAIN t})
  BY WiderSequence
<1>2. t \in Seq({s[k] : k \in DOMAIN s} \cup {t[k] : k \in DOMAIN t})
  BY WiderSequence
<1> QED BY <1>1, <1>2, SeqEqual

\* All but the last.
LEMMA SameFront ==
    ASSUME NEW s, NEW t, IsSequence(s), IsSequence(t), Len(s) = Len(t), Len(s) > 0,
           \A k \in 1..(Len(s) - 1) : s[k] = t[k]
    PROVE  Front(s) = Front(t)
<1>1. PICK n : n = Len(s) - 1
  OBVIOUS
<1>2. Len(s) \in Nat
  BY LenProperties DEF IsSequence
<1>3. n \in Nat /\ n <= Len(s) /\ n <= Len(t)
  BY <1>1, <1>2
<1> DEFINE S == {s[k] : k \in DOMAIN s}
           T == {t[k] : k \in DOMAIN t}
<1>4. s \in Seq(S) /\ t \in Seq(T)
  BY DEF IsSequence
<1> HIDE DEF S, T
<1>5. PICK a, b : a = SubSeq(s, 1, n) /\ b = SubSeq(t, 1, n)
  OBVIOUS
<1>6. a \in Seq(S) /\ Len(a) = n - 1 + 1 /\ \A k \in 1..(n - 1 + 1) : a[k] = s[1 + k - 1]
  BY <1>3, <1>4, <1>5, Piece
<1>7. b \in Seq(T) /\ Len(b) = n - 1 + 1 /\ \A k \in 1..(n - 1 + 1) : b[k] = t[1 + k - 1]
  BY <1>3, <1>4, <1>5, Piece
<1>8. ASSUME NEW k \in 1..n PROVE a[k] = b[k]
  <2>1. k \in 1..(n - 1 + 1) /\ 1 + k - 1 = k /\ s[k] = t[k]
    BY <1>1, <1>3, <1>8
  <2> QED BY <1>6, <1>7, <2>1
<1>9. Len(a) = n /\ Len(b) = n /\ a \in Seq(S \cup T) /\ b \in Seq(S \cup T)
  BY <1>3, <1>6, <1>7
<1>10. a = b
  BY <1>8, <1>9, SeqEqual
<1> QED BY <1>1, <1>5, <1>10 DEF Front

\* So the text of the cells is that of the document's.
LEMMA RowsTracked ==
    ASSUME ~OnlyCrlf, IInv, TypeOK, TracksInv
    PROVE  RowsAreTheDocuments
<1> SUFFICES ASSUME RowsFit
             PROVE  LET ref == Cells(Ref[doc]) IN
                    IF pc # "done" THEN IsPrefix(Cells(out), ref)
                    ELSE IF api = "bytes"
                    THEN \A k \in DOMAIN out :
                           out[k].kind = "row" => k <= Len(ref) /\ out[k].cells = ref[k]
                    ELSE IF EndsInEscapedCell(doc)
                    THEN Len(out) = Len(ref) /\ Front(Cells(out)) = Front(ref)
                    ELSE Cells(out) = ref
  BY DEF RowsAreTheDocuments
<1>1. PICK rows : rows = RefRows(doc)
  OBVIOUS
<1>2. Ref[doc] = rows
  BY <1>1 DEF Ref, TypeOK
<1>3. DOMAIN out = 1..Len(out) /\ Len(out) \in Nat
  BY DEF IInv, OutIsSequence
<1>4. doc \in Seq(Byte) /\ Len(doc) \in Nat
  BY DocsAssumption, LenProperties DEF TypeOK
<1>5. DOMAIN rows = 1..Len(rows) /\ Len(rows) \in Nat
  <2>1. Len(doc) \in 0..Len(doc)
    BY <1>4
  <2> QED BY <1>1, <1>4, <2>1, MaxColsAssumption, RowsReadAreTheDocuments
<1>6. PICK ref, got : ref = Cells(rows) /\ got = Cells(out)
  OBVIOUS
<1>7. /\ IsSequence(ref) /\ Len(ref) = Len(rows)
      /\ \A k \in 1..Len(rows) : ref[k] = rows[k].cells
  BY <1>5, <1>6, CellsOf
<1>8. /\ IsSequence(got) /\ Len(got) = Len(out)
      /\ \A k \in 1..Len(out) : got[k] = out[k].cells
  BY <1>3, <1>6, CellsOf
<1>9. PICK n \in Nat :
        /\ n <= Len(rows)
        /\ Len(out) = n \/ (pc = "done" /\ Len(out) = n + 1 /\ out[n + 1].kind = "final")
        /\ \A k \in 1..n : RowTracks(out[k], rows[k])
  BY <1>1, RowsSoFar
<1>10. \A k \in 1..n : out[k].cells = rows[k].cells
  BY <1>9 DEF RowTracks
<1>11. CASE pc # "done"
  <2>1. Len(got) = n
    BY <1>8, <1>9, <1>11
  <2>2. Len(got) <= Len(ref) /\ \A k \in 1..Len(got) : got[k] = ref[k]
    BY <1>5, <1>7, <1>8, <1>9, <1>10, <2>1
  <2>3. IsPrefix(got, ref)
    BY <1>7, <1>8, <2>2, BeginsWith
  <2> QED BY <1>2, <1>6, <1>11, <2>3
<1>12. CASE pc = "done" /\ api = "bytes"
  <2>1. ASSUME NEW k \in DOMAIN out, out[k].kind = "row"
        PROVE  k <= Len(ref) /\ out[k].cells = ref[k]
    <3>1. k \in 1..n
      <4>1. k # n + 1 \/ Len(out) = n
        BY <1>9, <2>1
      <4>2. PICK l : l = Len(out)
        OBVIOUS
      <4>3. k \in 1..l /\ l \in Nat /\ n \in Nat /\ (l = n \/ l = n + 1)
        BY <1>3, <1>9, <2>1, <4>2
      <4> QED BY <4>1, <4>2, <4>3
    <3> QED BY <1>5, <1>7, <1>9, <1>10, <3>1
  <2> QED BY <1>2, <1>6, <1>12, <2>1
<1>13. CASE pc = "done" /\ api # "bytes"
  <2>1. /\ Len(out) = Len(rows)
        /\ \A k \in 1..Len(rows) :
             (EndsInEscapedCell(doc) => k < Len(rows)) => out[k].cells = rows[k].cells
    BY <1>1, <1>13, RowsAtTheEnd
  <2>2. CASE EndsInEscapedCell(doc)
    <3>1. Len(rows) > 0
      <4>1. PICK e : e = RefStates(doc)[Len(doc)]
        OBVIOUS
      <4>2. e.start # Len(doc)
        <5>1. SubSeq(doc, e.cell + 1, Len(doc)) # <<>>
          BY <2>2, <4>1 DEF EndsInEscapedCell, RefState
        <5>2. IsReading(e, Len(doc))
          <6>1. Len(doc) \in 0..Len(doc)
            BY <1>4
          <6> QED BY <1>4, <4>1, <6>1, MaxColsAssumption, ReadingShape
        <5>3. e.cell \in 0..Len(doc) /\ e.start \in 0..e.cell
          BY <5>2 DEF IsReading
        <5>4. PICK c : c = e.cell
          OBVIOUS
        <5>5. c # Len(doc)
          <6>1. c = Len(doc) => SubSeq(doc, c + 1, Len(doc)) = <<>>
            <7>1. c = Len(doc) => Len(doc) < c + 1
              BY <1>4
            <7>2. c + 1 \in Int /\ Len(doc) \in Int
              BY <1>4, <5>3, <5>4
            <7> QED BY <7>1, <7>2, SubSeqEmpty
          <6> QED BY <5>1, <5>4, <6>1
        <5> QED BY <1>4, <5>3, <5>4, <5>5
      <4>3. Len(e.rows) \in Nat /\ Len(rows) = Len(e.rows) + 1
        BY <1>1, <1>4, <4>1, <4>2, MaxColsAssumption, RowsOfDocument
      <4> QED BY <4>3
    <3>2. Len(got) = Len(ref) /\ Len(got) > 0
      BY <1>7, <1>8, <2>1, <3>1
    <3>3. \A k \in 1..(Len(got) - 1) : got[k] = ref[k]
      <4> SUFFICES ASSUME NEW k \in 1..(Len(got) - 1) PROVE got[k] = ref[k]
        OBVIOUS
      <4>1. k \in 1..Len(rows) /\ k < Len(rows) /\ k \in 1..Len(out)
        BY <1>5, <1>8, <2>1
      <4> QED BY <1>7, <1>8, <2>1, <4>1
    <3>4. Front(got) = Front(ref)
      BY <1>7, <1>8, <3>2, <3>3, SameFront
    <3> QED BY <1>2, <1>6, <1>8, <1>13, <2>2, <3>2, <3>4
  <2>3. CASE ~EndsInEscapedCell(doc)
    <3>1. \A k \in 1..Len(got) : got[k] = ref[k]
      BY <1>7, <1>8, <2>1, <2>3
    <3>2. got = ref
      BY <1>7, <1>8, <2>1, <3>1, SameSequence
    <3> QED BY <1>2, <1>6, <1>13, <2>3, <3>2
  <2> QED BY <2>2, <2>3
<1> QED BY <1>11, <1>12, <1>13

\* Without --only-crlf, for every document whose rows fit the buffer and however
\* it is cut: the rows handed over are a prefix of the document's, cell by cell,
\* and all of them in the end.
THEOREM RowsReadAreThoseOfTheDocument ==
    ASSUME CR \notin InputEnds, ~OnlyCrlf
    PROVE  Spec => []RowsAreTheDocuments
<1>1. IInv /\ TypeOK /\ TracksInv => RowsAreTheDocuments
  BY RowsTracked
<1> QED BY <1>1, IInvHolds, ParserHasItsTypes, ReadingIsTracked, PTL
=============================================================================
