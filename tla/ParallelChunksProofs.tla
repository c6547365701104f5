------------------------ MODULE ParallelChunksProofs ------------------------
(***************************************************************************)
(* For every file, every number of chunks and every interleaving of the    *)
(* threads: where the code means the chunks to be right, the parallel      *)
(* commands handle each row of the file exactly once.                      *)
(*                                                                         *)
(* A parser that begins at a row of the file sees the rows from there on   *)
(* (ParserAssumption); one that begins at a wrong guess sees anything, and *)
(* nothing is said of it. The chunks are linked in the order in which they *)
(* are joined: each begins where the one before it ended, because a chunk  *)
(* never ends before the next cut (ReadingDone, NoRowBeforeCut) and a cut  *)
(* before that end is not accepted (JoinOverlap).                          *)
(***************************************************************************)
EXTENDS ParallelChunks, CommonLemmas, FiniteSetTheorems

All == Rows(file, 0)
First == rows_to_ignore + 2

\* What is constant in a behaviour: the file has the rows that the results are
\* stated for, and a line end behind each nominal cut.
Sound == Regular /\ CutsFound /\ (tool = "count" => rows_to_ignore = 0)

\* Row k begins at offset o; or all rows lie before o.
Begins(k, o) == IF k <= Len(All) THEN o = All[k].start ELSE o >= Size(file)
\* Offset o is where a data row begins, or lies behind all of them.
TrueStart(o) == o \in Nat /\ \E k \in First..Len(All)+1 : Begins(k, o)

\* What chunk d holds is right if it began at a true start.
Right(d) ==
    ~failed[d] /\ (tool = "select" => ~skip[d] /\ (inherited[d] # 0 => HasRow(d)))
RightUpTo(m) == \A d \in 1..m : Right(d)

\* Chunks that have been joined, so that nothing of them changes any more.
Joined == IF pc \in {"join", "again", "merge", "done"} /\ run_in_parallel THEN j - 1 ELSE 0
\* Worker j that is parsed again starts where it has to.
Begun == IF pc = "again" THEN j ELSE Joined

\* The threads, and where the main thread is.
ThreadInv ==
    /\ file \in Files /\ tool \in Tools /\ rows_to_ignore \in RowsToIgnore
    /\ Len(All) > rows_to_ignore
    /\ pc \in {"header", "create", "serial", "join", "again", "merge", "done", "error", "crashed"}
    /\ j \in 1..N /\ (pc \in {"header", "create", "join", "again"} => j < N)
    /\ pc = "merge" \/ (pc = "done" /\ run_in_parallel) => j = N
    /\ run_in_parallel \in BOOLEAN
    /\ pc = "serial" => ~run_in_parallel
    /\ pc \in {"create", "join", "again", "merge"} => run_in_parallel
    /\ w \in [Chunk -> {"none", "created", "parse", "crossed", "done"}]
    /\ w[0] # "created"
    /\ pc \in {"header", "create"} \/ ~run_in_parallel => w[0] = "none"
    /\ pc = "header" => w = [c \in Chunk |-> "none"]
    /\ pc = "create" => \A c \in Worker : c >= j => w[c] = "none"
    /\ pc \in {"join", "again", "merge"} \/ (pc = "done" /\ run_in_parallel) => w[0] # "none"
    /\ pc = "again" \/ Joined > 0 => w[0] = "done"
    /\ \A c \in 1..Joined : w[c] = "done"

\* Every per-chunk variable is a function on the chunks.
ShapeInv ==
    /\ start_offset = [c \in Chunk |-> start_offset[c]]
    /\ end_offset = [c \in Chunk |-> end_offset[c]]
    /\ seen = [c \in Chunk |-> seen[c]] /\ rows = [c \in Chunk |-> rows[c]]
    /\ next_row_start = [c \in Chunk |-> next_row_start[c]]
    /\ inherited = [c \in Chunk |-> inherited[c]]
    /\ skip \in [Chunk -> BOOLEAN] /\ failed \in [Chunk -> BOOLEAN]

\* The cuts stand until a chunk is parsed again.
CutInv ==
    /\ pc # "header" => \A c \in Chunk : end_offset[c] = ChunkEnd(file, Initial, c)
    /\ pc \in {"create", "join", "again", "merge"} =>
         \A c \in Worker : c > Begun => start_offset[c] = ChunkStart(file, Initial, c)

\* The parser of chunk c began at row k of the file and reads row p next.
Reads(c, k, p) ==
    /\ k \in First..Len(All)+1 /\ p \in k..Len(All)+1
    /\ IF c = 0 THEN k = First /\ seen[c] = p - 1
       ELSE k <= Len(All) /\ All[k].start = start_offset[c] /\ seen[c] = p - k
    /\ rows[c] = {All[i] : i \in k..p-1}
    /\ w[c] = "crossed" => p > k /\ All[p-1].end >= end_offset[c]
    /\ w[c] = "done" =>
         \/ /\ p > k /\ p <= Len(All) /\ All[p-1].end >= end_offset[c]
            /\ next_row_start[c] = All[p].start
         \/ /\ p = Len(All) + 1
            /\ \/ next_row_start[c] \in {Size(file), Size(file) + 1}
               \/ c # 0 /\ tool = "select" /\ inherited[c] # 0

\* What a worker has for its chunk.  The guess where it begins need not be
\* the start of a row: then nothing is said of what it reads.
ChunkInv(c) ==
    /\ w[c] \in {"none", "created"} => rows[c] = {}
    /\ w[c] \in {"parse", "crossed"} => start_offset[c] < end_offset[c]
    /\ w[c] = "done" /\ ~failed[c] =>
         \/ start_offset[c] < end_offset[c]
         \/ /\ ~(start_offset[c] < end_offset[c]) /\ rows[c] = {} /\ skip[c]
            /\ tool = "count" => next_row_start[c] = start_offset[c]
    /\ /\ w[c] \in {"parse", "crossed"}
          \/ (w[c] = "done" /\ ~failed[c] /\ start_offset[c] < end_offset[c])
       /\ TrueStart(start_offset[c])
       => \E k, p \in First..Len(All)+1 : Reads(c, k, p)

\* Chunk 0, which the main thread reads from the header on.
MainInv ==
    /\ w[0] = "none" /\ pc # "done" => rows[0] = {}
    /\ pc \in {"create", "serial"} => seen[0] = First - 1
    /\ w[0] \in {"parse", "crossed", "done"} => \E p \in First..Len(All)+1 : Reads(0, First, p)

\* Chunk m begins where the one before it ended, and behind all those before.
Linked(m) ==
    RightUpTo(m - 1) =>
        /\ start_offset[m] = next_row_start[m-1] /\ TrueStart(start_offset[m])
        /\ \A c \in 0..m-1 : next_row_start[c] \in 0..start_offset[m]

\* Without chunks the main thread has all rows, whatever their like.
SerialInv == pc = "done" /\ ~run_in_parallel => rows[0] = DataRows

StitchInv ==
    /\ ThreadInv /\ ShapeInv /\ SerialInv
    /\ Sound => CutInv /\ MainInv /\ (\A c \in Worker : ChunkInv(c)) /\ \A m \in 1..Begun : Linked(m)

\* The chunks below m hold the rows of the file that begin before the end of
\* the last of them.
Covered(m) ==
    RightUpTo(m - 1) =>
        UNION {rows[c] : c \in 0..m-1} = {r \in DataRows : r.start < next_row_start[m-1]}
-----------------------------------------------------------------------------
(* The rows of the file, and where it is cut *)

\* Rows follow one another, and lie in the file.
LEMMA RowsInOrder ==
    ASSUME ThreadInv
    PROVE  /\ Len(All) \in Nat /\ DOMAIN All = 1..Len(All) /\ Size(file) \in Nat
           /\ First \in 2..Len(All)+1 /\ rows_to_ignore \in Nat
           /\ \A k \in 1..Len(All) :
                /\ All[k].start \in Nat /\ All[k].end \in Nat
                /\ All[k].start <= All[k].end /\ All[k].end <= Size(file)
           /\ \A k, m \in 1..Len(All) : k < m => All[k].end < All[m].start
<1>1. file \in Files /\ Size(file) \in Nat
  BY FileAssumption DEF ThreadInv
<1>2. All \in Seq([start : Nat, end : Nat, data : BOOLEAN])
  BY <1>1, ParserAssumption DEF All
<1>3. Len(All) \in Nat /\ DOMAIN All = 1..Len(All)
  BY <1>2
<1>4. \A k \in 1..Len(All) : All[k].start \in Nat /\ All[k].end \in Nat
  <2>1. \A k \in 1..Len(All) : All[k] \in [start : Nat, end : Nat, data : BOOLEAN]
    BY <1>2, <1>3, ElementOfSeq
  <2> QED
    BY <2>1
<1>5. \A k \in DOMAIN All :
        /\ All[k].start <= All[k].end /\ All[k].end <= Size(file)
        /\ \A m \in k+1..Len(All) : All[k].end < All[m].start
  BY <1>1, ParserAssumption DEF All
<1>6. ASSUME NEW k \in 1..Len(All), NEW m \in 1..Len(All), k < m
      PROVE  All[k].end < All[m].start
  <2>1. m \in k+1..Len(All)
    BY <1>3, <1>6
  <2> QED
    BY <1>3, <1>5, <2>1
<1>7. rows_to_ignore \in Nat /\ Len(All) > rows_to_ignore
  BY OptionAssumption DEF ThreadInv
<1>8. First \in 2..Len(All)+1
  BY <1>3, <1>7 DEF First
<1> QED
  BY <1>1, <1>3, <1>4, <1>5, <1>6, <1>7, <1>8

\* The data rows are the rows from First on.
LEMMA DataRowsAre ==
    ASSUME ThreadInv
    PROVE  DataRows = {All[k] : k \in First..Len(All)}
BY DEF DataRows, All, First

\* Each data row has a row end and something in it.
LEMMA RegularRows ==
    ASSUME ThreadInv, Sound
    PROVE  /\ \A k \in First..Len(All) :
                /\ Ended(All[k]) /\ All[k].end < Size(file)
                /\ IF tool = "count" THEN All[k].start < All[k].end ELSE All[k].data
           /\ Initial \in 1..Size(file)
<1>1. \A k \in First..Len(All) : All[k] \in DataRows
  BY DataRowsAre
<1>2. \A k \in First..Len(All) :
        Ended(All[k]) /\ IF tool = "count" THEN All[k].start < All[k].end ELSE All[k].data
  BY <1>1 DEF Sound, Regular
<1>3. Ended(Header) /\ IF tool = "count" THEN Header.start < Header.end ELSE Header.data
  BY DEF Sound, Regular
<1>4. Header = All[First - 1] /\ First - 1 \in 1..Len(All)
  BY RowsInOrder DEF Header, All, First
<1>5. Header.start \in Nat /\ Header.end \in Nat /\ Size(file) \in Nat /\ Header.end < Size(file)
  BY <1>3, <1>4, RowsInOrder DEF Ended
<1>6. Initial \in 1..Size(file)
  BY <1>3, <1>5 DEF Initial
<1> QED
  BY <1>2, <1>6 DEF Ended

\* A cut lies in the file, behind a line end.
LEMMA CutIsFound ==
    ASSUME ThreadInv, Sound, NEW c \in Worker
    PROVE  LET s == ChunkStart(file, Initial, c)
           IN  /\ s \in 1..Size(file)-1
               /\ IF CrlfOnly(file) THEN s > 1 /\ CrLf(file, s - 2) ELSE NewLine(file, s - 1)
<1> DEFINE total == Size(file) - Initial
           from == c * (total \div N)
           s == zsv_find_chunk_start(file, from, total)
           newlines == {p \in from..total-1 : NewLine(file, p)}
           behind == IF CrlfOnly(file)
                     THEN {p \in from+2..total : CrLf(file, p - 2)}
                     ELSE {p \in Lowest(newlines)..total-1 : ~NewLine(file, p)}
<1>1. c \in Nat /\ c > 0 /\ N \in Nat /\ N > 0
  BY ChunkAssumption DEF Worker
<1>2. total \in Nat /\ total < Size(file) /\ Size(file) \in Nat
  BY RegularRows, RowsInOrder
<1>3. from \in Nat
  <2> HIDE DEF total
  <2>1. total \div N \in Nat
    BY <1>1, <1>2
  <2> QED
    BY <1>1, <2>1
<1>4. FoundStart(file, Initial, c) = s /\ s >= 0
  BY DEF FoundStart, Sound, CutsFound
<1>5. s = (IF newlines = {} \/ behind = {} THEN -1 ELSE Lowest(behind))
  BY DEF zsv_find_chunk_start
<1> HIDE DEF total, from, s
<1>6. newlines # {} /\ behind # {} /\ s = Lowest(behind)
  BY <1>4, <1>5
<1>7. newlines \subseteq Nat
  BY <1>2, <1>3
<1>8. Lowest(newlines) \in newlines
  BY <1>6, <1>7, LeastNatural DEF Lowest
<1>9. behind \subseteq Nat
  <2>1. {p \in from+2..total : CrLf(file, p - 2)} \subseteq Nat
    BY <1>2, <1>3
  <2>2. {p \in Lowest(newlines)..total-1 : ~NewLine(file, p)} \subseteq Nat
    <3>1. Lowest(newlines) \in Nat
      BY <1>7, <1>8
    <3> HIDE DEF newlines
    <3> QED
      BY <1>2, <3>1
  <2> QED
    BY <2>1, <2>2
<1>10. s \in behind /\ \A p \in behind : s <= p
  <2> HIDE DEF behind
  <2> QED
    BY <1>6, <1>9, LeastNatural DEF Lowest
<1>11. ChunkStart(file, Initial, c) = s
  <2>1. s \in Nat
    BY <1>9, <1>10
  <2> QED
    BY <1>1, <1>4, <2>1 DEF ChunkStart
<1>12. CASE CrlfOnly(file)
  BY <1>2, <1>3, <1>11, <1>10, <1>12
<1>13. CASE ~CrlfOnly(file)
  <2> DEFINE l == Lowest(newlines)
  <2>1. l \in Nat /\ NewLine(file, l) /\ s \in l..total-1 /\ ~NewLine(file, s)
        /\ \A p \in l..total-1 : p < s => NewLine(file, p)
    <3>1. s \in {p \in l..total-1 : ~NewLine(file, p)}
      BY <1>10, <1>13
    <3>2. l \in Nat /\ NewLine(file, l)
      BY <1>7, <1>8
    <3>3. ASSUME NEW p \in l..total-1, p < s PROVE NewLine(file, p)
      <4>1. p \in Nat /\ s \in Nat
        BY <3>1, <3>2
      <4>2. p \notin behind
        BY <1>10, <3>3, <4>1
      <4> QED
        BY <1>13, <4>2
    <3> QED
      BY <3>1, <3>2, <3>3
  <2> HIDE DEF l
  <2>2. s # l
    BY <2>1
  <2>3. s - 1 \in l..total-1 /\ s - 1 < s /\ s \in 1..Size(file)-1
    BY <1>2, <2>1, <2>2
  <2> QED
    BY <1>11, <1>13, <2>1, <2>3
<1> QED
  BY <1>12, <1>13

\* Where the part of a chunk ends: not before the next cut, nor, for the last
\* chunk, before the last byte.
LEMMA CutEnds ==
    ASSUME ThreadInv, Sound, NEW c \in Chunk
    PROVE  LET e == ChunkEnd(file, Initial, c)
           IN  /\ e \in Nat
               /\ c \in Worker => e < Size(file)
               /\ c < N - 1 => ChunkStart(file, Initial, c + 1) - 1 <= e
               /\ c = N - 1 => Size(file) - 1 <= e
<1>1. N \in Nat /\ N > 1 /\ Size(file) \in Nat /\ Initial \in 1..Size(file)
  BY ChunkAssumption, RowsInOrder, RegularRows
<1> DEFINE s == ChunkStart(file, Initial, c)
           t == ChunkStart(file, Initial, c + 1)
           end == IF c = N - 1 THEN Size(file) - 1 ELSE t - 1
<1>2. ChunkEnd(file, Initial, c) = IF s > end THEN s ELSE end
  BY DEF ChunkEnd
<1>3. c \in 0..N-1 /\ (c \in Worker <=> c # 0)
  BY <1>1 DEF Chunk, Worker
<1>4. s \in 1..Size(file) /\ (c \in Worker => s < Size(file))
  <2>1. CASE c = 0
    BY <1>1, <1>3, <2>1 DEF ChunkStart
  <2>2. CASE c # 0
    BY <1>1, <1>3, <2>2, CutIsFound
  <2> QED
    BY <2>1, <2>2
<1>5. c < N - 1 => t \in 1..Size(file)-1
  <2>1. c < N - 1 => c + 1 \in Worker
    BY <1>1, <1>3 DEF Worker
  <2> QED
    BY <2>1, CutIsFound
<1> HIDE DEF s, t
<1>6. end \in Nat /\ (c < N - 1 => end = t - 1) /\ (c = N - 1 => end = Size(file) - 1)
      /\ end < Size(file)
  BY <1>1, <1>3, <1>5
<1> HIDE DEF end
<1> QED
  BY <1>1, <1>2, <1>3, <1>4, <1>6 DEF s, t

\* A parser that starts where row k does sees the rows from k on.
LEMMA Suffix ==
    ASSUME ThreadInv, NEW k \in 1..Len(All)
    PROVE  LET rest == Rows(file, All[k].start)
           IN  /\ Len(rest) = Len(All) - k + 1
               /\ \A i \in 1..Len(All)-k+1 : rest[i] = All[k+i-1]
<1>1. file \in Files
  BY DEF ThreadInv
<1>2. All \in Seq([start : Nat, end : Nat, data : BOOLEAN]) /\ Len(All) \in Nat
  BY <1>1, ParserAssumption, RowsInOrder DEF All
<1>3. Rows(file, All[k].start) = SubSeq(All, k, Len(All))
  <2>1. k \in DOMAIN All
    BY RowsInOrder
  <2> QED
    BY <1>1, <2>1, ParserAssumption DEF All
<1>4. k \in 1..Len(All)+1 /\ Len(All) \in 0..Len(All)
  BY <1>2
<1>5. Len(SubSeq(All, k, Len(All))) = Len(All) - k + 1
  <2>1. Len(SubSeq(All, k, Len(All))) = IF k <= Len(All) THEN Len(All) - k + 1 ELSE 0
    BY <1>2, SubSeqProperties
  <2> QED
    BY <1>2, <2>1
<1>6. ASSUME NEW i \in 1..Len(All)-k+1
      PROVE  SubSeq(All, k, Len(All))[i] = All[k+i-1]
  BY <1>2, <1>4, <1>5, SubSeqProperties
<1> QED
  BY <1>3, <1>5, <1>6

\* What the parser of a chunk comes to next.
LEMMA NextRow ==
    ASSUME ThreadInv, NEW c \in Chunk, NEW k, NEW p, Reads(c, k, p)
    PROVE  /\ HasRow(c) <=> p <= Len(All)
           /\ p <= Len(All) => Row(c) = All[p]
<1>1. Len(All) \in Nat /\ First \in 2..Len(All)+1
  BY RowsInOrder
<1>2. k \in First..Len(All)+1 /\ p \in k..Len(All)+1
  BY DEF Reads
<1>3. CASE c = 0
  <2>1. Parsed(c) = All /\ seen[c] = p - 1
    BY <1>3 DEF Parsed, All, Reads
  <2> QED
    BY <1>1, <1>2, <2>1 DEF HasRow, Row
<1>4. CASE c # 0
  <2>1. k \in 1..Len(All) /\ All[k].start = start_offset[c] /\ seen[c] = p - k
    BY <1>1, <1>2, <1>4 DEF Reads
  <2>2. Parsed(c) = Rows(file, All[k].start)
    BY <1>4, <2>1 DEF Parsed
  <2>3. Len(Parsed(c)) = Len(All) - k + 1
    BY <2>1, <2>2, Suffix
  <2>4. p <= Len(All) => Parsed(c)[p - k + 1] = All[p]
    <3>1. SUFFICES ASSUME p <= Len(All) PROVE Parsed(c)[p - k + 1] = All[p]
      OBVIOUS
    <3> DEFINE n == Len(All)
    <3>2. n \in Nat /\ k \in 1..n /\ p \in k..n
      BY <1>1, <1>2, <2>1, <3>1
    <3>3. p - k + 1 \in 1..Len(All)-k+1 /\ k + (p - k + 1) - 1 = p
      <4> HIDE DEF n
      <4>1. p - k + 1 \in 1..n-k+1 /\ k + (p - k + 1) - 1 = p
        BY <3>2
      <4> QED
        BY <4>1 DEF n
    <3> QED
      BY <2>1, <2>2, <3>3, Suffix
  <2> QED
    BY <1>1, <1>2, <2>1, <2>3, <2>4 DEF HasRow, Row
<1> QED
  BY <1>3, <1>4

\* The rows before row p are those that begin before it.
LEMMA RowsBefore ==
    ASSUME ThreadInv, Sound, NEW p \in First..Len(All)+1, NEW b \in Nat, Begins(p, b)
    PROVE  \A i \in First..Len(All) : i < p <=> All[i].start < b
<1>1. Len(All) \in Nat /\ First \in 2..Len(All)+1 /\ Size(file) \in Nat
  BY RowsInOrder
<1> SUFFICES ASSUME NEW i \in First..Len(All) PROVE i < p <=> All[i].start < b
  OBVIOUS
<1>2. i \in 1..Len(All) /\ All[i].start \in Nat /\ All[i].end \in Nat
      /\ All[i].start <= All[i].end /\ All[i].end < Size(file)
  BY <1>1, RowsInOrder, RegularRows
<1>3. CASE p = Len(All) + 1
  <2>1. b >= Size(file)
    BY <1>1, <1>3 DEF Begins
  <2> QED
    BY <1>1, <1>2, <1>3, <2>1
<1>4. CASE p # Len(All) + 1
  <2>1. p \in 1..Len(All) /\ b = All[p].start
    BY <1>1, <1>4 DEF Begins
  <2>2. All[p].end \in Nat /\ All[p].start <= All[p].end
    BY <2>1, RowsInOrder
  <2>3. (i < p => All[i].end < All[p].start) /\ (p < i => All[p].end < All[i].start)
    BY <1>2, <2>1, RowsInOrder
  <2> QED
    BY <1>2, <2>1, <2>2, <2>3
<1> QED
  BY <1>3, <1>4

\* A chunk that holds the rows k to p - 1 holds those that begin from where row
\* k does and before row p.
LEMMA RowsBetween ==
    ASSUME ThreadInv, Sound, NEW k \in First..Len(All)+1, NEW p \in k..Len(All)+1,
           NEW a \in Nat, Begins(k, a), NEW b \in Nat, Begins(p, b)
    PROVE  {All[i] : i \in k..p-1} = {r \in DataRows : a <= r.start /\ r.start < b}
<1>1. Len(All) \in Nat /\ First \in 2..Len(All)+1
  BY RowsInOrder
<1>2. p \in First..Len(All)+1
  BY <1>1
<1>3. \A i \in First..Len(All) : (i < p <=> All[i].start < b) /\ (i < k <=> All[i].start < a)
  BY <1>2, RowsBefore
<1>4. \A i \in First..Len(All) : All[i].start \in Nat
  BY <1>1, RowsInOrder
<1>5. \A i \in First..Len(All) : i \in k..p-1 <=> a <= All[i].start /\ All[i].start < b
  <2> TAKE i \in First..Len(All)
  <2>1. All[i].start \in Nat /\ i \in Nat /\ (i < p <=> All[i].start < b) /\ (i < k <=> All[i].start < a)
    BY <1>1, <1>3, <1>4
  <2> QED
    BY <1>1, <2>1
<1>6. k..p-1 \subseteq First..Len(All)
  BY <1>1
<1>7. DataRows = {All[i] : i \in First..Len(All)}
  BY DataRowsAre
<1> QED
  BY <1>5, <1>6, <1>7

\* Where a chunk that has read its part ends, and what it has: the row that
\* it stopped at begins behind the next cut.
LEMMA ReadingDone ==
    ASSUME ThreadInv, Sound, CutInv, pc # "header", NEW c \in Chunk, w[c] = "done",
           c # 0 => Right(c), NEW k, NEW p, Reads(c, k, p)
    PROVE  LET b == next_row_start[c]
           IN  /\ b \in Nat /\ p \in First..Len(All)+1 /\ Begins(p, b)
               /\ c # 0 => k < p
               /\ c < N - 1 => ChunkStart(file, Initial, c + 1) <= b
<1> DEFINE b == next_row_start[c]
           e == ChunkEnd(file, Initial, c)
<1>1. Len(All) \in Nat /\ First \in 2..Len(All)+1 /\ Size(file) \in Nat /\ N \in Nat /\ N > 1
  BY RowsInOrder, ChunkAssumption
<1>2. k \in First..Len(All)+1 /\ p \in k..Len(All)+1 /\ (c # 0 => k <= Len(All))
  BY DEF Reads
<1>3. e \in Nat /\ end_offset[c] = e /\ (c < N - 1 => ChunkStart(file, Initial, c + 1) - 1 <= e)
  BY CutEnds DEF CutInv
<1>4. c < N - 1 => ChunkStart(file, Initial, c + 1) \in 1..Size(file)-1
  <2>1. c < N - 1 => c + 1 \in Worker
    BY <1>1 DEF Worker, Chunk
  <2> QED
    BY <2>1, CutIsFound
<1>5. CASE p <= Len(All)
  <2>1. p > k /\ All[p-1].end >= end_offset[c] /\ b = All[p].start
    <3>1. p # Len(All) + 1
      BY <1>1, <1>2, <1>5
    <3> QED
      BY <3>1 DEF Reads
  <2>2. p \in 1..Len(All) /\ p - 1 \in 1..Len(All) /\ p - 1 < p
    BY <1>1, <1>2, <1>5, <2>1
  <2>3. All[p-1].end \in Nat /\ b \in Nat /\ All[p-1].end < b
    BY <2>1, <2>2, RowsInOrder
  <2>4. Begins(p, b)
    BY <1>5, <2>1 DEF Begins
  <2>5. e < b
    BY <1>3, <2>1, <2>3
  <2> HIDE DEF b, e
  <2>6. c < N - 1 => ChunkStart(file, Initial, c + 1) <= b
    BY <1>1, <1>3, <1>4, <2>3, <2>5
  <2> QED
    BY <1>1, <1>2, <2>1, <2>3, <2>4, <2>6 DEF b
<1>6. CASE ~(p <= Len(All))
  <2>1. p = Len(All) + 1
    BY <1>1, <1>2, <1>6
  <2>2. ~HasRow(c)
    BY <1>6, NextRow
  <2>3. ~(c # 0 /\ tool = "select" /\ inherited[c] # 0)
    BY <2>2 DEF Right
  <2>4. b \in {Size(file), Size(file) + 1}
    BY <1>6, <2>3 DEF Reads
  <2>5. b \in Nat /\ b >= Size(file)
    BY <1>1, <2>4
  <2>6. Begins(p, b)
    BY <1>6, <2>5 DEF Begins
  <2>7. c < N - 1 => ChunkStart(file, Initial, c + 1) <= b
    BY <1>1, <1>4, <2>5
  <2>8. p \in First..Len(All)+1 /\ (c # 0 => k < p)
    BY <1>1, <1>2, <2>1
  <2> QED
    BY <2>5, <2>6, <2>7, <2>8
<1> QED
  BY <1>5, <1>6

\* A cut is not one byte behind the start of a row: an offset behind a row's
\* start that a line end comes before is no cut of the row's chunk.
LEMMA NoRowBeforeCut ==
    ASSUME ThreadInv, Sound, tool = "count", NEW c \in Worker, NEW k \in First..Len(All)
    PROVE  All[k].start # ChunkStart(file, Initial, c) - 1
<1> DEFINE s == ChunkStart(file, Initial, c)
<1>1. s \in 1..Size(file)-1 /\ Size(file) \in Nat
      /\ IF CrlfOnly(file) THEN s > 1 /\ CrLf(file, s - 2) ELSE NewLine(file, s - 1)
  BY CutIsFound, RowsInOrder
<1> HIDE DEF s
<1>2. SUFFICES ASSUME All[k].start = s - 1 PROVE FALSE
  BY DEF s
<1>3. k \in 1..Len(All) /\ k \in DOMAIN All
  BY RowsInOrder
<1>4. All[k].start \in Nat /\ All[k].start < All[k].end
  BY <1>3, RowsInOrder, RegularRows
<1>5. file \in Files
  BY DEF ThreadInv
<1>6. IF CrlfOnly(file) THEN All[k].start > 0 => ~CrLf(file, All[k].start - 1)
      ELSE NewLine(file, All[k].start) => All[k].start = All[k].end
  BY <1>3, <1>5, ParserAssumption DEF All
<1>7. CASE CrlfOnly(file)
  <2>1. s - 1 > 0 /\ (s - 1) - 1 = s - 2
    BY <1>1, <1>7
  <2> QED
    BY <1>1, <1>2, <1>6, <1>7, <2>1
<1>8. CASE ~CrlfOnly(file)
  <2>1. All[k].start # All[k].end
    <3>1. All[k].end \in Nat
      BY <1>3, RowsInOrder
    <3> QED
      BY <1>4, <3>1
  <2> QED
    BY <1>1, <1>2, <1>6, <1>8, <2>1
<1> QED
  BY <1>7, <1>8

\* A chunk that is done and began where it had to holds the rows up to where
\* it ended, which is where a row begins, and not before the next cut.
LEMMA ChunkDone ==
    ASSUME ThreadInv, Sound, CutInv, pc # "header", NEW c \in Worker, w[c] = "done",
           ChunkInv(c), Right(c), TrueStart(start_offset[c])
    PROVE  LET a == start_offset[c]
               b == next_row_start[c]
           IN  /\ a \in Nat /\ b \in Nat /\ TrueStart(b) /\ a <= b
               /\ rows[c] = {r \in DataRows : a <= r.start /\ r.start < b}
               /\ c < N - 1 => ChunkStart(file, Initial, c + 1) <= b
<1> DEFINE a == start_offset[c]
           b == next_row_start[c]
<1>1. Len(All) \in Nat /\ First \in 2..Len(All)+1 /\ Size(file) \in Nat /\ N \in Nat /\ N > 1
      /\ c \in Chunk /\ c # 0 /\ a \in Nat
  BY RowsInOrder, ChunkAssumption DEF Chunk, Worker, TrueStart
<1>2. CASE start_offset[c] < end_offset[c]
  <2>1. PICK k, p \in First..Len(All)+1 : Reads(c, k, p)
    BY <1>2 DEF ChunkInv, Right
  <2>2. b \in Nat /\ Begins(p, b) /\ k < p
        /\ (c < N - 1 => ChunkStart(file, Initial, c + 1) <= b)
    BY <1>1, <2>1, ReadingDone
  <2>3. k <= Len(All) /\ All[k].start = a /\ rows[c] = {All[i] : i \in k..p-1} /\ p \in k..Len(All)+1
    BY <1>1, <2>1 DEF Reads
  <2>4. Begins(k, a)
    BY <2>3 DEF Begins
  <2>5. rows[c] = {r \in DataRows : a <= r.start /\ r.start < b}
    BY <1>1, <2>2, <2>3, <2>4, RowsBetween
  <2>6. a < b
    <3>1. k \in First..Len(All)
      BY <1>1, <2>1, <2>3
    <3>2. k < p <=> All[k].start < b
      BY <2>1, <2>2, <3>1, RowsBefore
    <3> QED
      BY <2>2, <2>3, <3>2
  <2>7. TrueStart(b)
    BY <2>1, <2>2 DEF TrueStart
  <2> QED
    BY <1>1, <2>2, <2>5, <2>6, <2>7
<1>3. CASE ~(start_offset[c] < end_offset[c])
  <2>1. rows[c] = {} /\ skip[c] /\ (tool = "count" => b = a)
    BY <1>3 DEF ChunkInv, Right
  <2>2. tool = "count" /\ b = a
    BY <2>1, OptionAssumption DEF Right, ThreadInv
  <2>3. ASSUME c < N - 1
        PROVE  ChunkStart(file, Initial, c + 1) <= b
    <3> DEFINE t == ChunkStart(file, Initial, c + 1)
               e == ChunkEnd(file, Initial, c)
    <3>1. c + 1 \in Worker
      BY <1>1, <2>3 DEF Worker, Chunk
    <3>2. t \in 1..Size(file)-1
      BY <3>1, CutIsFound
    <3>3. e \in Nat /\ end_offset[c] = e /\ t - 1 <= e
      BY <1>1, <2>3, CutEnds DEF CutInv
    <3>4. PICK k \in First..Len(All)+1 : Begins(k, a)
      BY DEF TrueStart
    <3>5. CASE k <= Len(All)
      <4>1. k \in First..Len(All) /\ All[k].start = a
        BY <1>1, <3>4, <3>5 DEF Begins
      <4>2. a # t - 1
        BY <2>2, <3>1, <4>1, NoRowBeforeCut
      <4> HIDE DEF a, b, t, e
      <4>3. ~(a < e)
        BY <1>3, <3>3 DEF a
      <4> QED
        BY <1>1, <2>2, <3>2, <3>3, <4>2, <4>3 DEF t, b
    <3>6. CASE ~(k <= Len(All))
      <4>1. a >= Size(file)
        BY <3>4, <3>6 DEF Begins
      <4> HIDE DEF a, b, t, e
      <4> QED
        BY <1>1, <2>2, <3>2, <4>1 DEF t, b
    <3> QED
      BY <3>5, <3>6
  <2>4. {r \in DataRows : a <= r.start /\ r.start < b} = {}
    <3>1. \A r \in DataRows : r.start \in Nat
      <4>1. \A i \in First..Len(All) : All[i].start \in Nat
        BY <1>1, RowsInOrder
      <4> QED
        BY <4>1, DataRowsAre
    <3> QED
      BY <1>1, <2>2, <3>1
  <2> QED
    BY <1>1, <2>1, <2>2, <2>3, <2>4
<1> QED
  BY <1>2, <1>3

\* The last chunk stops for nothing but the end of the input: it holds the
\* rows from where it began, whatever it takes for where it ended.
LEMMA LastChunk ==
    ASSUME ThreadInv, Sound, CutInv, pc # "header", w[N-1] = "done", ChunkInv(N-1), ~failed[N-1],
           tool = "select" => ~skip[N-1], TrueStart(start_offset[N-1])
    PROVE  rows[N-1] = {r \in DataRows : start_offset[N-1] <= r.start}
<1> DEFINE c == N - 1
           a == start_offset[c]
<1>1. Len(All) \in Nat /\ First \in 2..Len(All)+1 /\ Size(file) \in Nat /\ N \in Nat /\ N > 1
      /\ c \in Worker /\ c \in Chunk /\ c # 0 /\ a \in Nat
  BY RowsInOrder, ChunkAssumption DEF Chunk, Worker, TrueStart
<1>2. \A i \in First..Len(All) : /\ All[i].start \in Nat /\ All[i].end \in Nat
                                 /\ All[i].start <= All[i].end /\ All[i].end < Size(file)
  BY <1>1, RowsInOrder, RegularRows
<1>3. \A r \in DataRows : r.start \in Nat /\ r.start < Size(file)
  <2>1. \A i \in First..Len(All) : All[i].start \in Nat /\ All[i].start < Size(file)
    <3> TAKE i \in First..Len(All)
    <3> QED
      BY <1>1, <1>2
  <2> QED
    BY <2>1, DataRowsAre
<1>4. LET e == ChunkEnd(file, Initial, c)
      IN  e \in Nat /\ end_offset[c] = e /\ Size(file) - 1 <= e
  BY <1>1, CutEnds DEF CutInv
<1> HIDE DEF c
<1>5. CASE start_offset[c] < end_offset[c]
  <2>1. PICK k, p \in First..Len(All)+1 : Reads(c, k, p)
    BY <1>5 DEF ChunkInv, c
  <2>2. k <= Len(All) /\ All[k].start = a /\ rows[c] = {All[i] : i \in k..p-1} /\ p \in k..Len(All)+1
    BY <1>1, <2>1 DEF Reads
  <2>3. p = Len(All) + 1
    <3>1. SUFFICES ASSUME p # Len(All) + 1 PROVE FALSE
      OBVIOUS
    <3>2. p > k /\ p <= Len(All) /\ All[p-1].end >= end_offset[c]
      BY <2>1, <3>1 DEF Reads, c
    <3>3. p \in 1..Len(All) /\ p - 1 \in 1..Len(All) /\ p - 1 < p /\ p \in First..Len(All)
      BY <1>1, <2>1, <3>2
    <3>4. All[p-1].end \in Nat /\ All[p-1].end < All[p].start
      BY <3>3, RowsInOrder
    <3>5. All[p].start \in Nat /\ All[p].start < Size(file)
      BY <1>1, <1>2, <3>3
    <3> QED
      BY <1>1, <1>4, <3>2, <3>4, <3>5
  <2>4. Begins(k, a) /\ Begins(p, Size(file))
    BY <1>1, <2>2, <2>3 DEF Begins
  <2>5. rows[c] = {r \in DataRows : a <= r.start /\ r.start < Size(file)}
    BY <1>1, <2>1, <2>2, <2>4, RowsBetween
  <2> QED
    BY <1>3, <2>5 DEF c
<1>6. CASE ~(start_offset[c] < end_offset[c])
  <2>1. rows[c] = {}
    BY <1>6 DEF ChunkInv, c
  <2>2. \A r \in DataRows : ~(a <= r.start)
    <3>1. SUFFICES ASSUME NEW i \in First..Len(All) PROVE ~(a <= All[i].start)
      BY DataRowsAre
    <3>2. All[i].start \in Nat /\ All[i].end \in Nat /\ All[i].end < Size(file) /\ All[i].start <= All[i].end
      BY <1>2
    <3>3. All[i].start # All[i].end
      BY <3>1, <3>2, RegularRows, <1>6, OptionAssumption DEF ThreadInv, ChunkInv, c
    <3> QED
      BY <1>1, <1>6, <1>4, <3>2, <3>3
  <2> QED
    BY <2>1, <2>2 DEF c
<1> QED
  BY <1>5, <1>6
-----------------------------------------------------------------------------
(* The threads *)

\* At the start no thread is there, and nothing is joined.
LEMMA InitThreads == Init => ThreadInv /\ ShapeInv
<1> SUFFICES ASSUME Init PROVE ThreadInv /\ ShapeInv
  OBVIOUS
<1> USE ChunkAssumption
<1>1. 0 \in Chunk /\ Joined = 0
  BY DEF Chunk, Init, Joined
<1>2. N \in Nat /\ N > 1 /\ j = 1 /\ pc = "header" /\ run_in_parallel = FALSE
      /\ w = [c \in Chunk |-> "none"] /\ Len(All) > rows_to_ignore
  BY DEF Init, All
<1>3. /\ w \in [Chunk -> {"none", "created", "parse", "crossed", "done"}]
      /\ w[0] = "none" /\ 1..Joined = {}
  BY <1>1, <1>2
<1>4. ThreadInv
  BY <1>1, <1>2, <1>3 DEF Init, ThreadInv
<1>5. ShapeInv
  BY DEF Init, ShapeInv
<1> QED
  BY <1>4, <1>5

\* No step turns a per-chunk variable into anything else.
LEMMA ShapeStep ==
    ASSUME ThreadInv, ShapeInv, [Next]_vars
    PROVE  ShapeInv'
<1> USE DEF input, chunkv
<1>1. 0 \in Chunk /\ (\A c \in Worker : c \in Chunk) /\ j \in Int
  BY ChunkAssumption DEF Chunk, Worker, ThreadInv
<1>2. ASSUME NEW c \in Chunk, RowHandler(c) PROVE ShapeInv'
  BY <1>2 DEF RowHandler, ShapeInv
<1>3. ASSUME NEW c \in Chunk, RowHandlerDone(c) PROVE ShapeInv'
  BY <1>3 DEF RowHandlerDone, ShapeInv
<1>4. ASSUME NEW c \in Chunk, InputEnds(c) PROVE ShapeInv'
  BY <1>4 DEF InputEnds, ShapeInv
<1>5. ASSUME NEW c \in Worker, ProcessSkip(c) PROVE ShapeInv'
  BY <1>1, <1>5 DEF ProcessSkip, ShapeInv
<1>6. ASSUME NEW c \in Worker, ProcessChunk(c) PROVE ShapeInv'
  BY <1>1, <1>6 DEF ProcessChunk, ShapeInv
<1>7. ASSUME NEW c \in Worker, ProcessFails(c) PROVE ShapeInv'
  BY <1>1, <1>7 DEF ProcessFails, ShapeInv
<1>8. CASE HeaderHandler
  BY <1>8 DEF HeaderHandler, ShapeInv
<1>9. CASE CreateThread
  BY <1>9 DEF CreateThread, ShapeInv
<1>10. CASE CreateThreadFails
  BY <1>10 DEF CreateThreadFails, ShapeInv
<1>11. CASE Serial
  BY <1>11 DEF Serial, ShapeInv
<1>12. CASE Join
  BY <1>12 DEF Join, NextJoin, ShapeInv
<1>13. CASE JoinOverlap
  BY <1>13 DEF JoinOverlap, ShapeInv
<1>14. CASE Reprocessed
  BY <1>14 DEF Reprocessed, ShapeInv
<1>15. CASE Merge
  BY <1>15 DEF Merge, ShapeInv
<1>16. CASE UNCHANGED vars
  BY <1>16 DEF vars, ShapeInv
<1> QED
  BY <1>1, <1>2, <1>3, <1>4, <1>5, <1>6, <1>7, <1>8, <1>9, <1>10, <1>11, <1>12, <1>13,
     <1>14, <1>15, <1>16 DEF Next, Main, Process, Parse, Finished

\* A chunk's own step leaves the main thread where it is.
LEMMA ChunkKeepsThreads ==
    ASSUME ThreadInv, NEW c \in Chunk, UNCHANGED <<input, pc, j, run_in_parallel>>,
           w[c] \in {"created", "parse", "crossed"}, NEW v \in {"parse", "crossed", "done"},
           w' = [w EXCEPT ![c] = v]
    PROVE  ThreadInv'
<1> USE DEF input
<1>1. All' = All /\ Joined' = Joined
  BY DEF All, Joined
<1>2. j \in Nat /\ Joined \in Nat /\ N \in Nat
  BY ChunkAssumption DEF ThreadInv, Joined
<1>3. w' \in [Chunk -> {"none", "created", "parse", "crossed", "done"}]
      /\ \A d \in Chunk : w'[d] = IF d = c THEN v ELSE w[d]
  BY DEF ThreadInv
<1>4. 0 \in Chunk /\ (\A d \in Worker : d \in Chunk) /\ \A d \in 1..Joined : d \in Chunk
  <2>1. Joined < N
    BY <1>2, ChunkAssumption DEF ThreadInv, Joined
  <2> QED
    BY <1>2, <2>1, ChunkAssumption DEF Chunk, Worker
<1>5. pc # "header" /\ (pc = "create" => \A d \in Worker : d >= j => w'[d] = "none")
  BY <1>3, <1>4 DEF ThreadInv
<1>6. \A d \in 1..Joined : w'[d] = "done"
  BY <1>3, <1>4 DEF ThreadInv
<1> QED
  BY <1>1, <1>3, <1>4, <1>5, <1>6 DEF ThreadInv

\* Every step leaves the main thread and the workers where they may be.
LEMMA ThreadStep ==
    ASSUME ThreadInv, [Next]_vars
    PROVE  ThreadInv'
<1> USE DEF input, chunkv
<1>1. /\ 0 \in Chunk /\ (\A c \in Worker : c \in Chunk) /\ j \in Nat /\ N \in Nat /\ N > 1
      /\ \A c \in 1..j : c < N => c \in Worker
  BY ChunkAssumption DEF Chunk, Worker, ThreadInv
<1>2. ASSUME NEW c \in Chunk, Parse(c) PROVE ThreadInv'
  <2>1. CASE RowHandler(c)
    BY <2>1, ChunkKeepsThreads DEF RowHandler
  <2>2. CASE RowHandlerDone(c)
    BY <2>2, ChunkKeepsThreads DEF RowHandlerDone
  <2>3. CASE InputEnds(c)
    BY <2>3, ChunkKeepsThreads DEF InputEnds
  <2> QED
    BY <1>2, <2>1, <2>2, <2>3 DEF Parse
<1>3. ASSUME NEW c \in Worker, Process(c) PROVE ThreadInv'
  <2>1. CASE ProcessSkip(c)
    BY <1>1, <2>1, ChunkKeepsThreads DEF ProcessSkip
  <2>2. CASE ProcessChunk(c)
    BY <1>1, <2>2, ChunkKeepsThreads DEF ProcessChunk
  <2>3. CASE ProcessFails(c)
    BY <1>1, <2>3, ChunkKeepsThreads DEF ProcessFails
  <2> QED
    BY <1>3, <2>1, <2>2, <2>3 DEF Process
<1>4. CASE HeaderHandler
  <2>1. zsv_guess_file_chunks_ok(file, Initial) \in BOOLEAN
    BY DEF zsv_guess_file_chunks_ok
  <2>2. Joined' = 0 /\ All' = All /\ w' = w
    BY <1>4 DEF HeaderHandler, Joined, All
  <2>3. \A c \in Worker : w[c] = "none"
    BY <1>1, <1>4 DEF HeaderHandler, ThreadInv
  <2> QED
    BY <1>1, <1>4, <2>1, <2>2, <2>3 DEF HeaderHandler, ThreadInv
<1>5. CASE CreateThread
  <2>1. Joined' = 0 /\ All' = All
    BY <1>1, <1>5 DEF CreateThread, Joined, All
  <2>2. j \in Worker /\ j # 0 /\ pc = "create" /\ j < N
    BY <1>1, <1>5 DEF CreateThread, Worker, ThreadInv
  <2>3. w' \in [Chunk -> {"none", "created", "parse", "crossed", "done"}]
        /\ (\A c \in Worker \ {j} : w'[c] = w[c]) /\ w'[0] = (IF j = N - 1 THEN "parse" ELSE w[0])
    BY <1>1, <1>5, <2>2 DEF CreateThread, ThreadInv, Worker
  <2>4. j' \in 1..N-1 /\ (j # N - 1 => \A c \in Worker : c >= j' => c # j /\ c >= j)
    BY <1>1, <1>5, <2>2 DEF CreateThread, Worker
  <2> QED
    BY <1>1, <1>5, <2>1, <2>2, <2>3, <2>4 DEF CreateThread, ThreadInv
<1>6. CASE CreateThreadFails
  <2>1. Joined' = 0 /\ All' = All
    BY <1>6 DEF CreateThreadFails, Joined, All
  <2> QED
    BY <1>1, <1>6, <2>1 DEF CreateThreadFails, ThreadInv
<1>7. CASE Serial
  <2>1. Joined' = 0 /\ All' = All
    BY <1>7 DEF Serial, Joined, All, ThreadInv
  <2> QED
    BY <1>1, <1>7, <2>1 DEF Serial, ThreadInv
<1>8. CASE Join
  <2>1. Joined = j - 1 /\ Joined' = j /\ All' = All
    BY <1>1, <1>8 DEF Join, NextJoin, Joined, All, ThreadInv
  <2>2. \A c \in 1..j : w[c] = "done"
    <3> TAKE c \in 1..j
    <3>1. c = j \/ c \in 1..j-1
      BY <1>1
    <3> QED
      BY <1>8, <2>1, <3>1 DEF Join, ThreadInv
  <2> QED
    BY <1>1, <1>8, <2>1, <2>2 DEF Join, NextJoin, ThreadInv
<1>9. CASE JoinOverlap
  <2>1. Joined = j - 1 /\ Joined' = j - 1 /\ All' = All
    BY <1>1, <1>9 DEF JoinOverlap, Joined, All, ThreadInv
  <2>2. w' \in [Chunk -> {"none", "created", "parse", "crossed", "done"}]
        /\ \A c \in Chunk : c # j => w'[c] = w[c]
    BY <1>1, <1>9 DEF JoinOverlap, ThreadInv
  <2>3. \A c \in 1..j-1 : c # j /\ c \in Chunk
    BY <1>1 DEF Chunk, ThreadInv
  <2> QED
    BY <1>1, <1>9, <2>1, <2>2, <2>3 DEF JoinOverlap, ThreadInv
<1>10. CASE Reprocessed
  <2>1. Joined = j - 1 /\ Joined' = j /\ All' = All
    BY <1>1, <1>10 DEF Reprocessed, NextJoin, Joined, All, ThreadInv
  <2>2. \A c \in 1..j : w[c] = "done"
    <3> TAKE c \in 1..j
    <3>1. c = j \/ c \in 1..j-1
      BY <1>1
    <3> QED
      BY <1>10, <2>1, <3>1 DEF Reprocessed, ThreadInv
  <2> QED
    BY <1>1, <1>10, <2>1, <2>2 DEF Reprocessed, NextJoin, ThreadInv
<1>11. CASE Merge
  <2>1. Joined = j - 1 /\ Joined' \in {0, j - 1} /\ All' = All
    BY <1>1, <1>11 DEF Merge, Joined, All, ThreadInv
  <2> QED
    BY <1>1, <1>11, <2>1 DEF Merge, ThreadInv
<1>12. CASE UNCHANGED vars
  <2>1. Joined' = Joined /\ All' = All
    BY <1>12 DEF vars, Joined, All
  <2> QED
    BY <1>12, <2>1 DEF vars, ThreadInv
<1> QED
  BY <1>1, <1>2, <1>3, <1>4, <1>5, <1>6, <1>7, <1>8, <1>9,
     <1>10, <1>11, <1>12 DEF Next, Main, Finished
-----------------------------------------------------------------------------
(* The cuts, what each chunk holds, and how the chunks are linked *)

\* Nothing happens to chunk c.
Unmoved(c) ==
    /\ start_offset'[c] = start_offset[c] /\ end_offset'[c] = end_offset[c]
    /\ w'[c] = w[c] /\ seen'[c] = seen[c] /\ rows'[c] = rows[c]
    /\ next_row_start'[c] = next_row_start[c] /\ inherited'[c] = inherited[c]
    /\ skip'[c] = skip[c] /\ failed'[c] = failed[c]

\* The input, and all that is defined by it, stays.
LEMMA InputKept ==
    ASSUME UNCHANGED input
    PROVE  /\ All' = All /\ First' = First /\ Initial' = Initial /\ DataRows' = DataRows
           /\ file' = file /\ tool' = tool /\ Sound' = Sound
           /\ \A o : TrueStart(o)' = TrueStart(o)
<1> USE DEF input
<1>1. All' = All /\ First' = First /\ Initial' = Initial /\ DataRows' = DataRows /\ Header' = Header
  BY DEF All, First, Initial, DataRows, Header, Ended
<1>2. Sound' = Sound
  BY <1>1 DEF Sound, Regular, CutsFound, Ended
<1>3. \A o : TrueStart(o)' = TrueStart(o)
  BY <1>1 DEF TrueStart, Begins
<1> QED
  BY <1>1, <1>2, <1>3

\* What a parser has read stays, if nothing happens to its chunk;
LEMMA ReadsKept ==
    ASSUME UNCHANGED input, NEW c, Unmoved(c), NEW k, NEW p
    PROVE  Reads(c, k, p)' = Reads(c, k, p)
BY InputKept DEF Reads, Unmoved, input

\* so does what is known of a worker's chunk,
LEMMA ChunkKept ==
    ASSUME UNCHANGED input, NEW c \in Worker, Unmoved(c), ChunkInv(c)
    PROVE  ChunkInv(c)'
<1>1. TrueStart(start_offset[c])' = TrueStart(start_offset[c])
  BY InputKept DEF Unmoved, TrueStart, Begins, input
<1>2. (\E k, p \in First..Len(All)+1 : Reads(c, k, p))'
      <=> \E k, p \in First..Len(All)+1 : Reads(c, k, p)
  BY InputKept, ReadsKept
<1> QED
  BY <1>1, <1>2, InputKept DEF ChunkInv, Unmoved

\* that it is right,
LEMMA RightKept ==
    ASSUME UNCHANGED input, NEW c \in Worker, Unmoved(c)
    PROVE  Right(c)' = Right(c)
BY DEF Right, HasRow, Parsed, Unmoved, input, Worker

\* and that it is linked to the chunks before it.
LEMMA LinkedKept ==
    ASSUME UNCHANGED input, NEW m \in Worker, \A d \in 0..m-1 : Unmoved(d),
           start_offset'[m] = start_offset[m], Linked(m)
    PROVE  Linked(m)'
<1>1. m \in Nat /\ m > 0 /\ m < N /\ N \in Nat
  BY ChunkAssumption DEF Worker
<1>2. \A d \in 1..m-1 : d \in Worker /\ Unmoved(d)
  BY <1>1 DEF Worker
<1>3. RightUpTo(m - 1)' = RightUpTo(m - 1)
  BY <1>2, RightKept DEF RightUpTo
<1>4. \A c \in 0..m-1 : next_row_start'[c] = next_row_start[c]
  BY DEF Unmoved
<1>5. next_row_start'[m-1] = next_row_start[m-1]
  BY <1>1, <1>4
<1>6. TrueStart(start_offset[m])' = TrueStart(start_offset[m])
  BY InputKept DEF TrueStart, Begins, input
<1> QED
  BY <1>3, <1>4, <1>5, <1>6 DEF Linked

\* A row that a parser comes to is in the scan: each ends with a row end.
LEMMA NextInScan ==
    ASSUME ThreadInv, Sound, NEW c \in Chunk, NEW k, NEW p, Reads(c, k, p)
    PROVE  InScan(c) <=> p <= Len(All)
<1>1. p \in First..Len(All)+1 /\ Len(All) \in Nat /\ First \in 2..Len(All)+1
  BY RowsInOrder DEF Reads
<1>2. p <= Len(All) => Ended(All[p])
  BY <1>1, RegularRows
<1> QED
  BY <1>2, NextRow DEF InScan

\* What the parser of chunk c does when it had begun at row k and comes to
\* row p. It takes the row.
LEMMA TakesRow ==
    ASSUME ThreadInv, ShapeInv, Sound, NEW c \in Chunk, NEW k, NEW p, Reads(c, k, p), RowHandler(c)
    PROVE  Reads(c, k, p + 1)'
<1>1. Len(All) \in Nat /\ First \in 2..Len(All)+1 /\ k \in First..Len(All)+1 /\ p \in k..Len(All)+1
  BY RowsInOrder DEF Reads
<1>2. p <= Len(All) /\ Row(c) = All[p]
  BY NextInScan, NextRow DEF RowHandler
<1>3. UNCHANGED input /\ start_offset' = start_offset /\ end_offset' = end_offset
  BY DEF RowHandler, chunkv
<1>4. rows'[c] = rows[c] \cup {All[p]} /\ seen'[c] = seen[c] + 1
  BY <1>2 DEF RowHandler, ShapeInv
<1>5. w'[c] = IF All[p].end >= end_offset[c] THEN "crossed" ELSE "parse"
  BY <1>2 DEF RowHandler, ThreadInv
<1>6. rows'[c] = {All[i] : i \in k..(p+1)-1}
  <2>1. k..(p+1)-1 = (k..p-1) \cup {p}
    BY <1>1
  <2> QED
    BY <1>4, <2>1 DEF Reads
<1>7. p + 1 \in k..Len(All)+1 /\ p + 1 > k /\ (p + 1) - 1 = p
  BY <1>1, <1>2
<1>8. IF c = 0 THEN k = First /\ seen'[c] = (p + 1) - 1
      ELSE k <= Len(All) /\ All[k].start = start_offset[c] /\ seen'[c] = (p + 1) - k
  <2>1. (c = 0 => seen[c] = p - 1) /\ (c # 0 => seen[c] = p - k)
    BY DEF Reads
  <2>2. (c = 0 => seen'[c] = (p + 1) - 1) /\ (c # 0 => seen'[c] = (p + 1) - k)
    BY <1>1, <1>4, <2>1
  <2> QED
    BY <2>2 DEF Reads
<1> QED
  BY <1>1, <1>3, <1>5, <1>6, <1>7, <1>8, InputKept DEF Reads

\* It stops at a row, which the next chunk has to begin with.
LEMMA StopsAtRow ==
    ASSUME ThreadInv, ShapeInv, Sound, NEW c \in Chunk, NEW k, NEW p, Reads(c, k, p), RowHandlerDone(c)
    PROVE  Reads(c, k, p)'
<1>1. Len(All) \in Nat /\ First \in 2..Len(All)+1 /\ k \in First..Len(All)+1 /\ p \in k..Len(All)+1
  BY RowsInOrder DEF Reads
<1>2. p <= Len(All) /\ Row(c) = All[p]
  BY NextInScan, NextRow DEF RowHandlerDone
<1>3. UNCHANGED input /\ start_offset' = start_offset /\ end_offset' = end_offset
      /\ rows' = rows /\ seen' = seen
  BY DEF RowHandlerDone, chunkv
<1>4. next_row_start'[c] = All[p].start
  <2>1. Ended(All[p])
    BY <1>1, <1>2, RegularRows
  <2> QED
    BY <1>2, <2>1 DEF RowHandlerDone, ShapeInv, RowStart
<1>5. w'[c] = "done" /\ p > k /\ All[p-1].end >= end_offset[c]
  BY DEF RowHandlerDone, ThreadInv, Reads
<1> QED
  BY <1>1, <1>2, <1>3, <1>4, <1>5, InputKept DEF Reads

\* It comes to the end of the input.
LEMMA ComesToEnd ==
    ASSUME ThreadInv, ShapeInv, Sound, NEW c \in Chunk, NEW k, NEW p, Reads(c, k, p), InputEnds(c)
    PROVE  Reads(c, k, p)'
<1>1. Len(All) \in Nat /\ First \in 2..Len(All)+1 /\ k \in First..Len(All)+1 /\ p \in k..Len(All)+1
      /\ Size(file) \in Nat
  BY RowsInOrder DEF Reads
<1>2. p = Len(All) + 1 /\ ~HasRow(c)
  <2>1. ~(p <= Len(All))
    BY NextInScan DEF InputEnds
  <2> QED
    BY <1>1, <2>1, NextRow
<1>3. UNCHANGED input /\ start_offset' = start_offset /\ end_offset' = end_offset
      /\ seen' = seen /\ inherited' = inherited
  BY DEF InputEnds, chunkv
<1>4. rows'[c] = rows[c]
  BY <1>2 DEF InputEnds, ShapeInv
<1>5. \/ next_row_start'[c] \in {Size(file), Size(file) + 1}
      \/ c # 0 /\ tool = "select" /\ inherited[c] # 0
  BY <1>2 DEF InputEnds, ShapeInv
<1>6. w'[c] = "done"
  BY DEF InputEnds, ThreadInv
<1> QED
  BY <1>1, <1>2, <1>3, <1>4, <1>5, <1>6, InputKept DEF Reads

\* A worker that begins at a row begins with it: no row is dropped.
LEMMA NoneDropped ==
    ASSUME ThreadInv, Sound, NEW c \in Worker, NEW k \in First..Len(All),
           All[k].start = start_offset[c]
    PROVE  Dropped(c) = 0
<1>1. k \in 1..Len(All) /\ Len(All) \in Nat
  BY RowsInOrder
<1> DEFINE p == Rows(file, start_offset[c])
<1>2. Len(p) = Len(All) - k + 1 /\ p[1] = All[k] /\ Len(p) \in Nat /\ Len(p) > 0
  <2>1. Len(p) = Len(All) - k + 1 /\ \A i \in 1..Len(All)-k+1 : p[i] = All[k+i-1]
    BY <1>1, Suffix
  <2>2. 1 \in 1..Len(All)-k+1 /\ k + 1 - 1 = k
    BY <1>1
  <2> HIDE DEF p
  <2> QED
    BY <1>1, <2>1, <2>2
<1>3. CASE tool = "count"
  BY <1>2, <1>3 DEF Dropped, Sound
<1>4. CASE tool # "count"
  <2> DEFINE empty == {i \in DOMAIN p : \A m \in 1..i : ~p[m].data}
  <2>1. p[1].data
    BY <1>2, <1>4, RegularRows
  <2>2. DOMAIN p \subseteq Nat \ {0}
    <3>1. file \in Files /\ k \in DOMAIN All
      BY <1>1, RowsInOrder DEF ThreadInv
    <3>2. p = SubSeq(All, k, Len(All)) /\ All \in Seq([start : Nat, end : Nat, data : BOOLEAN])
      BY <3>1, ParserAssumption DEF All
    <3> QED
      BY <1>1, <3>2, SubSeqProperties
  <2>3. empty = {}
    <3>1. \A i \in DOMAIN p : 1 \in 1..i
      BY <2>2
    <3> QED
      BY <2>1, <3>1
  <2>4. Dropped(c) = Cardinality(empty)
    BY <1>4 DEF Dropped
  <2> QED
    BY <2>3, <2>4, FS_EmptySet
<1> QED
  BY <1>3, <1>4

\* A step of chunk c alone: the others, and the main thread, stay.
OnlyChunk(c) ==
    /\ UNCHANGED <<input, pc, j, run_in_parallel, chunkv>>
    /\ \A d \in Chunk \ {c} : Unmoved(d)

\* The parser's and the worker's steps are such steps.
LEMMA StepsOfOneChunk ==
    ASSUME ThreadInv, ShapeInv, NEW c \in Chunk, Parse(c) \/ Process(c)
    PROVE  OnlyChunk(c) /\ w[c] \in {"created", "parse", "crossed"}
<1> USE DEF OnlyChunk, Unmoved, chunkv, ShapeInv
<1>1. w \in [Chunk -> {"none", "created", "parse", "crossed", "done"}]
  BY DEF ThreadInv
<1>2. CASE RowHandler(c)
  BY <1>1, <1>2 DEF RowHandler
<1>3. CASE RowHandlerDone(c)
  BY <1>1, <1>3 DEF RowHandlerDone
<1>4. CASE InputEnds(c)
  BY <1>1, <1>4 DEF InputEnds
<1>5. CASE ProcessSkip(c)
  BY <1>1, <1>5 DEF ProcessSkip
<1>6. CASE ProcessChunk(c)
  BY <1>1, <1>6 DEF ProcessChunk
<1>7. CASE ProcessFails(c)
  BY <1>1, <1>7 DEF ProcessFails
<1> QED
  BY <1>2, <1>3, <1>4, <1>5, <1>6, <1>7 DEF Parse, Process

\* A worker's step leaves its chunk as described.
LEMMA WorkerStep ==
    ASSUME ThreadInv, ShapeInv, Sound, CutInv, pc # "header", NEW c \in Worker, ChunkInv(c),
           Parse(c) \/ Process(c)
    PROVE  ChunkInv(c)'
<1>1. c \in Chunk /\ c # 0
  BY ChunkAssumption DEF Chunk, Worker
<1>2. OnlyChunk(c)
  BY <1>1, StepsOfOneChunk
<1>3. UNCHANGED input /\ start_offset' = start_offset /\ end_offset' = end_offset
  BY <1>2 DEF OnlyChunk, chunkv
<1>4. TrueStart(start_offset[c])' = TrueStart(start_offset[c])
  BY <1>3, InputKept DEF TrueStart, Begins, input
<1>5. ASSUME w[c] \in {"parse", "crossed"}, w'[c] \in {"parse", "crossed", "done"},
             failed' = failed,
             \A k, p \in First..Len(All)+1 :
                Reads(c, k, p) => \E q \in First..Len(All)+1 : Reads(c, k, q)'
      PROVE  ChunkInv(c)'
  <2>1. start_offset[c] < end_offset[c]
    BY <1>5 DEF ChunkInv
  <2>2. TrueStart(start_offset[c]) => \E k, p \in First..Len(All)+1 : Reads(c, k, p)'
    <3>1. TrueStart(start_offset[c]) => \E k, p \in First..Len(All)+1 : Reads(c, k, p)
      BY <1>5 DEF ChunkInv
    <3> QED
      BY <1>5, <3>1
  <2>3. (\E k, p \in First..Len(All)+1 : Reads(c, k, p))'
        <=> \E k, p \in First..Len(All)+1 : Reads(c, k, p)'
    BY <1>3, InputKept
  <2> QED
    BY <1>3, <1>4, <1>5, <2>1, <2>2, <2>3 DEF ChunkInv
<1>6. CASE RowHandler(c)
  <2>1. w[c] = "parse" /\ w'[c] \in {"parse", "crossed"} /\ failed' = failed
    BY <1>1, <1>6 DEF RowHandler, ThreadInv
  <2>2. ASSUME NEW k, NEW p \in First..Len(All)+1, Reads(c, k, p)
        PROVE  \E q \in First..Len(All)+1 : Reads(c, k, q)'
    <3>1. Reads(c, k, p + 1)'
      BY <1>1, <1>6, <2>2, TakesRow
    <3>2. p <= Len(All)
      BY <1>1, <1>6, <2>2, NextInScan DEF RowHandler
    <3>3. p + 1 \in First..Len(All)+1
      BY <3>2, RowsInOrder
    <3> QED
      BY <3>1, <3>3
  <2> QED
    BY <1>5, <2>1, <2>2
<1>7. CASE RowHandlerDone(c)
  <2>1. w[c] = "crossed" /\ w'[c] = "done" /\ failed' = failed
    BY <1>1, <1>7 DEF RowHandlerDone, ThreadInv
  <2> QED
    BY <1>1, <1>5, <1>7, <2>1, StopsAtRow
<1>8. CASE InputEnds(c)
  <2>1. w[c] \in {"parse", "crossed"} /\ w'[c] = "done" /\ failed' = failed
    BY <1>1, <1>8 DEF InputEnds, ThreadInv
  <2> QED
    BY <1>1, <1>5, <1>8, <2>1, ComesToEnd
<1>9. CASE ProcessSkip(c)
  <2>1. w'[c] = "done" /\ rows'[c] = {} /\ skip'[c]
        /\ (tool = "count" => next_row_start'[c] = start_offset[c])
        /\ start_offset[c] >= end_offset[c]
    BY <1>1, <1>9 DEF ProcessSkip, ThreadInv, ShapeInv, ChunkInv
  <2>2. TrueStart(start_offset[c]) => ~(start_offset[c] < end_offset[c])
    <3>1. end_offset[c] \in Nat
      BY <1>1, CutEnds DEF CutInv
    <3> QED
      BY <2>1, <3>1 DEF TrueStart
  <2> QED
    BY <1>3, <1>4, <2>1, <2>2 DEF ChunkInv, input
<1>10. CASE ProcessChunk(c)
  <2>1. w'[c] = "parse" /\ rows'[c] = {} /\ seen'[c] = Dropped(c)
        /\ start_offset[c] < end_offset[c]
    BY <1>1, <1>10 DEF ProcessChunk, ThreadInv, ShapeInv, ChunkInv
  <2>2. ASSUME TrueStart(start_offset[c])
        PROVE  \E k, p \in First..Len(All)+1 : Reads(c, k, p)'
    <3>1. PICK k \in First..Len(All)+1 : Begins(k, start_offset[c]) /\ start_offset[c] \in Nat
      BY <2>2 DEF TrueStart
    <3>2. Size(file) \in Nat /\ Len(All) \in Nat /\ First \in 2..Len(All)+1
      BY RowsInOrder
    <3>3. end_offset[c] \in Nat /\ end_offset[c] < Size(file)
      BY <1>1, CutEnds DEF CutInv
    <3>4. k <= Len(All) /\ All[k].start = start_offset[c]
      BY <2>1, <3>1, <3>2, <3>3 DEF Begins
    <3>5. k \in First..Len(All) /\ k..k-1 = {}
      BY <3>1, <3>2, <3>4
    <3>6. seen'[c] = k - k
      BY <2>1, <3>4, <3>5, NoneDropped
    <3>7. Reads(c, k, k)'
      BY <1>1, <1>3, <2>1, <3>1, <3>4, <3>5, <3>6, InputKept DEF Reads
    <3> QED
      BY <3>1, <3>7
  <2>3. (\E k, p \in First..Len(All)+1 : Reads(c, k, p))'
        <=> \E k, p \in First..Len(All)+1 : Reads(c, k, p)'
    BY <1>3, InputKept
  <2> QED
    BY <1>3, <1>4, <2>1, <2>2, <2>3 DEF ChunkInv
<1>11. CASE ProcessFails(c)
  <2>1. w'[c] = "done" /\ failed'[c]
    BY <1>1, <1>11 DEF ProcessFails, ThreadInv, ShapeInv
  <2> QED
    BY <2>1 DEF ChunkInv
<1> QED
  BY <1>6, <1>7, <1>8, <1>9, <1>10, <1>11 DEF Parse, Process

\* So does a step of the main thread's own parser.
LEMMA MainStep ==
    ASSUME ThreadInv, ShapeInv, Sound, MainInv, Parse(0)
    PROVE  MainInv'
<1>1. 0 \in Chunk
  BY ChunkAssumption DEF Chunk
<1>2. OnlyChunk(0)
  BY <1>1, StepsOfOneChunk
<1>3. UNCHANGED input /\ pc' = pc /\ run_in_parallel' = run_in_parallel
      /\ start_offset' = start_offset /\ end_offset' = end_offset
  BY <1>2 DEF OnlyChunk, chunkv
<1>4. w[0] \in {"parse", "crossed"} /\ w'[0] \in {"parse", "crossed", "done"}
  BY <1>1 DEF Parse, RowHandler, RowHandlerDone, InputEnds, ThreadInv
<1>5. pc \notin {"header", "create", "serial"}
  BY <1>4 DEF ThreadInv
<1>6. PICK k : k = First
  OBVIOUS
<1>7. PICK p \in First..Len(All)+1 : Reads(0, k, p)
  BY <1>4, <1>6 DEF MainInv
<1>8. \E q \in First..Len(All)+1 : Reads(0, k, q)'
  <2>1. CASE RowHandler(0)
    <3>1. Reads(0, k, p + 1)'
      BY <1>1, <1>7, <2>1, TakesRow
    <3>2. p <= Len(All)
      BY <1>1, <1>7, <2>1, NextInScan DEF RowHandler
    <3>3. p + 1 \in First..Len(All)+1
      BY <3>2, RowsInOrder
    <3> QED
      BY <3>1, <3>3
  <2>2. CASE RowHandlerDone(0)
    BY <1>1, <1>7, <2>2, StopsAtRow
  <2>3. CASE InputEnds(0)
    BY <1>1, <1>7, <2>3, ComesToEnd
  <2> QED
    BY <2>1, <2>2, <2>3 DEF Parse
<1>9. (\E q \in First..Len(All)+1 : Reads(0, First, q))'
  BY <1>3, <1>8, <1>6, InputKept
<1> QED
  BY <1>3, <1>4, <1>5, <1>9 DEF MainInv

\* Where the main thread ends its own chunk.
LEMMA MainDone ==
    ASSUME ThreadInv, Sound, CutInv, MainInv, w[0] = "done"
    PROVE  LET b == next_row_start[0]
           IN  /\ b \in Nat /\ TrueStart(b)
               /\ rows[0] = {r \in DataRows : r.start < b}
               /\ ChunkStart(file, Initial, 1) <= b
<1> DEFINE b == next_row_start[0]
<1>1. Len(All) \in Nat /\ First \in 2..Len(All)+1 /\ N \in Nat /\ N > 1 /\ 0 \in Chunk
      /\ pc # "header"
  BY RowsInOrder, ChunkAssumption DEF Chunk, ThreadInv
<1>2. PICK p \in First..Len(All)+1 : Reads(0, First, p)
  BY DEF MainInv
<1>3. b \in Nat /\ Begins(p, b) /\ (0 < N - 1 => ChunkStart(file, Initial, 0 + 1) <= b)
  BY <1>1, <1>2, ReadingDone
<1>4. rows[0] = {All[i] : i \in First..p-1}
  BY <1>2 DEF Reads
<1>5. \A i \in First..Len(All) : i \in First..p-1 <=> All[i].start < b
  <2> TAKE i \in First..Len(All)
  <2>1. i < p <=> All[i].start < b
    BY <1>2, <1>3, RowsBefore
  <2>2. i < p <=> i \in First..p-1
    BY <1>1, <1>2
  <2> QED
    BY <2>1, <2>2
<1>6. First..p-1 \subseteq First..Len(All)
  BY <1>1, <1>2
<1>7. rows[0] = {r \in DataRows : r.start < b}
  BY <1>4, <1>5, <1>6, DataRowsAre
<1>8. TrueStart(b)
  BY <1>2, <1>3 DEF TrueStart
<1> QED
  BY <1>1, <1>3, <1>7, <1>8

\* Where the chunks up to m, which are joined or the main thread's, end: at a
\* row, not before any of them does, and not before the next cut.
LEMMA JoinedEnds ==
    ASSUME StitchInv, Sound, w[0] = "done", NEW m \in 0..Joined, m < N - 1, RightUpTo(m)
    PROVE  /\ TrueStart(next_row_start[m])
           /\ \A c \in 0..m : next_row_start[c] \in 0..next_row_start[m]
           /\ ChunkStart(file, Initial, m + 1) <= next_row_start[m]
<1>1. ThreadInv /\ CutInv /\ MainInv /\ pc # "header" /\ Joined \in Nat /\ Begun \in {Joined, j}
      /\ N \in Nat /\ N > 1 /\ j \in 1..N
  BY ChunkAssumption DEF StitchInv, ThreadInv, Joined, Begun
<1>2. CASE m = 0
  <2>1. /\ next_row_start[0] \in Nat /\ TrueStart(next_row_start[0])
        /\ ChunkStart(file, Initial, 1) <= next_row_start[0]
    BY <1>1, MainDone
  <2>2. \A c \in 0..0 : c = 0
    OBVIOUS
  <2> QED
    BY <1>2, <2>1, <2>2
<1>3. CASE m # 0
  <2>1. m \in 1..Joined /\ m \in Worker /\ m \in 1..Begun /\ w[m] = "done" /\ ChunkInv(m) /\ Linked(m)
    <3>1. m \in 1..Joined /\ m \in Worker
      BY <1>1, <1>3 DEF Worker
    <3>2. m \in 1..Begun
      <4>1. Begun = Joined \/ Begun = Joined + 1
        BY <1>1 DEF Begun, Joined, ThreadInv
      <4> QED
        BY <1>1, <3>1, <4>1
    <3> QED
      BY <1>1, <3>1, <3>2 DEF StitchInv, ThreadInv
  <2>2. RightUpTo(m - 1) /\ Right(m)
    BY <1>1, <2>1 DEF RightUpTo
  <2>3. start_offset[m] = next_row_start[m-1] /\ TrueStart(start_offset[m])
        /\ \A c \in 0..m-1 : next_row_start[c] \in 0..start_offset[m]
    BY <2>1, <2>2 DEF Linked
  <2>4. /\ start_offset[m] \in Nat /\ next_row_start[m] \in Nat /\ TrueStart(next_row_start[m])
        /\ start_offset[m] <= next_row_start[m]
        /\ ChunkStart(file, Initial, m + 1) <= next_row_start[m]
    BY <1>1, <2>1, <2>2, <2>3, ChunkDone
  <2>5. ASSUME NEW c \in 0..m
        PROVE  next_row_start[c] \in 0..next_row_start[m]
    <3>1. c = m \/ c \in 0..m-1
      BY <1>1, <2>1
    <3> QED
      BY <2>3, <2>4, <2>5, <3>1
  <2> QED
    BY <2>4, <2>5
<1> QED
  BY <1>2, <1>3

\* A worker is linked when it begins where the chunk before it ended.
LEMMA LinkedNext ==
    ASSUME StitchInv, Sound, w[0] = "done", NEW m \in Worker, m = Joined + 1,
           UNCHANGED input, \A d \in 0..m-1 : Unmoved(d),
           RightUpTo(m - 1) => start_offset'[m] = next_row_start[m-1]
    PROVE  Linked(m)'
<1>1. m - 1 \in 0..Joined /\ m - 1 < N - 1 /\ (m - 1) + 1 = m /\ m \in Nat /\ m > 0
  BY ChunkAssumption DEF Worker, StitchInv, ThreadInv, Joined
<1>2. \A d \in 1..m-1 : d \in Worker /\ Unmoved(d)
  BY <1>1, ChunkAssumption DEF Worker
<1>3. SUFFICES ASSUME RightUpTo(m - 1)'
               PROVE  /\ start_offset'[m] = next_row_start'[m-1] /\ TrueStart(start_offset[m])'
                      /\ \A c \in 0..m-1 : next_row_start'[c] \in 0..start_offset'[m]
  BY Zenon DEF Linked
<1>4. RightUpTo(m - 1)
  BY <1>2, <1>3, RightKept DEF RightUpTo
<1>5. /\ TrueStart(next_row_start[m-1])
      /\ \A c \in 0..m-1 : next_row_start[c] \in 0..next_row_start[m-1]
  BY <1>1, <1>4, JoinedEnds
<1>6. \A c \in 0..m-1 : next_row_start'[c] = next_row_start[c]
  BY DEF Unmoved
<1>7. m - 1 \in 0..m-1
  BY <1>1
<1>8. start_offset'[m] = next_row_start[m-1]
  BY <1>4
<1>9. TrueStart(start_offset[m])' = TrueStart(next_row_start[m-1])
  BY <1>8, InputKept DEF TrueStart, Begins, input
<1> QED
  BY <1>5, <1>6, <1>7, <1>9, <1>8

\* What the proofs of the main thread's steps share: the chunks that have not
\* moved are as they were.
LEMMA MostKept ==
    ASSUME StitchInv, Sound, UNCHANGED input, NEW S, \A d \in Chunk \ S : Unmoved(d)
    PROVE  /\ \A c \in Worker \ S : ChunkInv(c)'
           /\ \A m \in 1..Begun : m < N /\ (\A d \in 0..m : d \notin S) => Linked(m)'
<1>1. N \in Nat /\ N > 1 /\ Begun \in Nat
  BY ChunkAssumption DEF StitchInv, ThreadInv, Begun, Joined
<1>2. ASSUME NEW c \in Worker \ S PROVE ChunkInv(c)'
  <2>1. c \in Chunk \ S /\ ChunkInv(c)
    BY <1>1, <1>2 DEF StitchInv, Chunk, Worker
  <2> QED
    BY <2>1, ChunkKept
<1>3. ASSUME NEW m \in 1..Begun, m < N, \A d \in 0..m : d \notin S PROVE Linked(m)'
  <2>1. m \in Worker /\ \A d \in 0..m : d \in Chunk \ S
    BY <1>1, <1>3 DEF Chunk, Worker
  <2>2. \A d \in 0..m-1 : Unmoved(d)
    BY <1>1, <2>1
  <2>3. start_offset'[m] = start_offset[m]
    <3>1. m \in 0..m
      BY <1>1
    <3> QED
      BY <2>1, <3>1 DEF Unmoved
  <2> QED
    BY <2>1, <2>2, <2>3, LinkedKept DEF StitchInv
<1> QED
  BY <1>2, <1>3
-----------------------------------------------------------------------------
(* The invariant *)

\* The invariant holds at the start.
LEMMA InitStitch == Init => StitchInv
<1> SUFFICES ASSUME Init PROVE StitchInv
  OBVIOUS
<1>1. ThreadInv /\ ShapeInv
  BY InitThreads
<1>2. 0 \in Chunk /\ (\A c \in Worker : c \in Chunk)
  BY ChunkAssumption DEF Chunk, Worker
<1>3. pc = "header" /\ Begun = 0 /\ \A c \in Chunk : w[c] = "none" /\ rows[c] = {}
  BY DEF Init, Begun, Joined
<1>4. CutInv /\ MainInv
  BY <1>2, <1>3 DEF CutInv, MainInv
<1>5. \A c \in Worker : ChunkInv(c)
  BY <1>2, <1>3 DEF ChunkInv
<1>6. \A m \in 1..Begun : Linked(m)
  BY <1>3
<1>7. SerialInv
  BY <1>3 DEF SerialInv
<1> QED
  BY <1>1, <1>4, <1>5, <1>6, <1>7 DEF StitchInv

\* What is known of the chunks when the file has the rows the results are
\* stated for.
Chunks == CutInv /\ MainInv /\ (\A c \in Worker : ChunkInv(c)) /\ \A m \in 1..Begun : Linked(m)

\* The header row is read, and the file is cut.
LEMMA HeaderStep ==
    ASSUME StitchInv, Sound, HeaderHandler
    PROVE  Chunks'
<1>1. 0 \in Chunk /\ (\A c \in Worker : c \in Chunk) /\ ThreadInv /\ ShapeInv /\ pc = "header"
  BY ChunkAssumption DEF Chunk, Worker, StitchInv, HeaderHandler
<1>2. UNCHANGED input /\ Begun' = 0 /\ rows' = rows /\ w' = w
  BY DEF HeaderHandler, Begun, Joined
<1>3. \A c \in Chunk : w[c] = "none"
  BY <1>1 DEF ThreadInv
<1>4. CutInv'
  BY <1>1, <1>2, InputKept DEF HeaderHandler, CutInv
<1>5. MainInv'
  <2>1. seen'[0] = First - 1
    <3>1. rows_to_ignore \in Nat
      BY <1>1, OptionAssumption DEF ThreadInv
    <3> QED
      BY <1>1, <3>1 DEF HeaderHandler, ShapeInv, First
  <2> QED
    BY <1>1, <1>2, <1>3, <2>1, InputKept DEF HeaderHandler, MainInv, StitchInv
<1>6. ASSUME NEW c \in Worker PROVE ChunkInv(c)'
  BY <1>1, <1>2, <1>3 DEF ChunkInv, StitchInv
<1>7. \A m \in 1..Begun' : Linked(m)'
  BY <1>2
<1> QED
  BY <1>4, <1>5, <1>6, <1>7 DEF Chunks

\* A worker is created; with the last one the main thread goes on.
LEMMA CreateStep ==
    ASSUME StitchInv, Sound, CreateThread
    PROVE  Chunks'
<1>1. 0 \in Chunk /\ (\A c \in Worker : c \in Chunk) /\ ThreadInv /\ ShapeInv /\ pc = "create"
      /\ j \in 1..N /\ j < N /\ j \in Worker /\ j # 0 /\ N \in Nat
  BY ChunkAssumption DEF Chunk, Worker, StitchInv, CreateThread, ThreadInv
<1>2. UNCHANGED <<input, start_offset, end_offset, rows, seen>> /\ Begun = 0 /\ Begun' = 0
  BY <1>1 DEF CreateThread, Begun, Joined, chunkv
<1>3. \A d \in Chunk \ {0, j} : Unmoved(d)
  BY <1>1 DEF CreateThread, Unmoved, ThreadInv, chunkv
<1>4. CutInv'
  BY <1>1, <1>2, InputKept DEF CreateThread, CutInv, StitchInv, input
<1>5. w'[j] = "created" /\ w[j] = "none" /\ w'[0] \in {"none", "parse"} /\ w[0] = "none"
  BY <1>1 DEF CreateThread, ThreadInv
<1>6. MainInv'
  <2>1. rows[0] = {} /\ seen[0] = First - 1
    BY <1>1, <1>5 DEF MainInv, StitchInv
  <2>2. w'[0] = "parse" => (\E p \in First..Len(All)+1 : Reads(0, First, p))'
    <3>1. SUFFICES ASSUME w'[0] = "parse" PROVE (\E p \in First..Len(All)+1 : Reads(0, First, p))'
      OBVIOUS
    <3>2. First \in First..Len(All)+1 /\ First..First-1 = {}
      BY <1>1, RowsInOrder
    <3>3. Reads(0, First, First)'
      BY <1>1, <1>2, <2>1, <3>1, <3>2, InputKept DEF Reads
    <3> QED
      BY <1>2, <3>2, <3>3, InputKept
  <2>3. pc' \in {"create", "join"}
    BY <1>1 DEF CreateThread
  <2> QED
    BY <1>2, <1>5, <2>1, <2>2, <2>3, InputKept DEF MainInv
<1>7. ASSUME NEW c \in Worker PROVE ChunkInv(c)'
  <2>1. CASE c = j
    <3>1. rows'[c] = {}
      BY <1>2, <1>5, <2>1 DEF ChunkInv, StitchInv
    <3> QED
      BY <1>5, <2>1, <3>1 DEF ChunkInv
  <2>2. CASE c # j
    <3>1. c \in Worker \ {0, j}
      BY <2>2, ChunkAssumption DEF Worker
    <3> QED
      BY <1>2, <1>3, <3>1, MostKept
  <2> QED
    BY <2>1, <2>2
<1>8. \A m \in 1..Begun' : Linked(m)'
  BY <1>2
<1> QED
  BY <1>4, <1>6, <1>7, <1>8 DEF Chunks

\* A step of one chunk, the main thread's own or a worker's.
LEMMA OneChunkStep ==
    ASSUME StitchInv, Sound, NEW c \in Chunk, Parse(c) \/ (c \in Worker /\ Process(c))
    PROVE  Chunks'
<1>1. 0 \in Chunk /\ (\A d \in Worker : d \in Chunk) /\ ThreadInv /\ ShapeInv /\ CutInv
      /\ N \in Nat /\ (c # 0 <=> c \in Worker)
  BY ChunkAssumption DEF Chunk, Worker, StitchInv
<1>2. OnlyChunk(c) /\ w[c] \in {"created", "parse", "crossed"}
  BY <1>1, StepsOfOneChunk
<1>3. UNCHANGED <<input, pc, j, run_in_parallel, start_offset, end_offset>>
      /\ (\A d \in Chunk \ {c} : Unmoved(d)) /\ Begun' = Begun /\ Joined' = Joined
  BY <1>2 DEF OnlyChunk, chunkv, Begun, Joined
<1>4. pc # "header"
  BY <1>1, <1>2 DEF ThreadInv
<1>5. CutInv'
  BY <1>1, <1>3, InputKept DEF CutInv, input
<1>6. MainInv'
  <2>1. CASE c = 0
    <3>1. Parse(0)
      BY <1>1, <2>1
    <3> QED
      BY <1>1, <3>1, MainStep DEF StitchInv
  <2>2. CASE c # 0
    <3>1. Unmoved(0)
      BY <1>1, <1>3, <2>2
    <3>2. (\E p \in First..Len(All)+1 : Reads(0, First, p))'
          <=> \E p \in First..Len(All)+1 : Reads(0, First, p)
      <4>1. \A k, p : Reads(0, k, p)' = Reads(0, k, p)
        BY <1>3, <3>1, ReadsKept
      <4> PICK k : k = First
        OBVIOUS
      <4>2. \A p : Reads(0, First, p)' = Reads(0, First, p)
        BY <1>3, <4>1, InputKept
      <4> QED
        BY <1>3, <4>2, InputKept
    <3> QED
      BY <1>3, <3>1, <3>2, InputKept DEF MainInv, Unmoved, StitchInv
  <2> QED
    BY <2>1, <2>2
<1>7. ASSUME NEW d \in Worker PROVE ChunkInv(d)'
  <2>1. CASE d = c
    BY <1>1, <1>4, <2>1, WorkerStep DEF StitchInv
  <2>2. CASE d # c
    BY <1>3, <2>2, MostKept
  <2> QED
    BY <2>1, <2>2
<1>8. ASSUME NEW m \in 1..Begun PROVE Linked(m)'
  <2>1. Joined \in Nat /\ j \in Nat /\ Joined < N /\ Begun \in {Joined, Joined + 1} /\ Begun < N
        /\ (Begun = Joined + 1 => pc = "again")
    BY <1>1 DEF ThreadInv, Joined, Begun
  <2>2. Begun \in Nat /\ Begun < N /\ m \in Nat /\ m > 0 /\ m < N /\ m - 1 <= Joined
    BY <1>1, <2>1
  <2>3. \A d \in 1..Joined : w[d] = "done"
    BY <1>1 DEF ThreadInv
  <2>4. w[0] = "done"
    BY <1>1, <2>1 DEF ThreadInv
  <2>5. \A d \in 0..m-1 : d \in Chunk /\ w[d] = "done"
    <3> TAKE d \in 0..m-1
    <3>1. d \in 0..N-1 /\ (d = 0 \/ d \in 1..Joined)
      BY <1>1, <2>1, <2>2
    <3> QED
      BY <2>3, <2>4, <3>1 DEF Chunk
  <2>6. \A d \in 0..m-1 : Unmoved(d)
    BY <1>2, <1>3, <2>5
  <2>7. m \in Worker
    BY <1>1, <2>2 DEF Worker
  <2> QED
    BY <1>3, <2>6, <2>7, LinkedKept DEF StitchInv
<1> QED
  BY <1>3, <1>5, <1>6, <1>7, <1>8 DEF Chunks

\* The main thread's steps that move no chunk, and join none.
LEMMA QuietStep ==
    ASSUME StitchInv, Sound, CreateThreadFails \/ Merge \/ UNCHANGED vars
    PROVE  Chunks'
<1>1. 0 \in Chunk /\ (\A d \in Worker : d \in Chunk) /\ ThreadInv /\ N \in Nat
  BY ChunkAssumption DEF Chunk, Worker, StitchInv
<1>2. UNCHANGED <<input, j, start_offset, end_offset, w, rows, seen, next_row_start,
                  inherited, skip, failed>>
  BY DEF CreateThreadFails, Merge, vars, chunkv
<1>3. \A d \in Chunk : Unmoved(d)
  BY <1>2 DEF Unmoved
<1>4. \/ pc' = pc /\ run_in_parallel' = run_in_parallel
      \/ pc = "create" /\ pc' = "crashed"
      \/ pc = "create" /\ pc' = "serial"
      \/ pc = "merge" /\ pc' \in {"done", "error", "crashed"} /\ run_in_parallel' = run_in_parallel
         /\ run_in_parallel
  BY <1>1 DEF CreateThreadFails, Merge, vars, ThreadInv
<1>5. Begun' = Begun \/ Begun' = 0
  BY <1>2, <1>4 DEF Begun, Joined
<1>6. CutInv'
  BY <1>1, <1>2, <1>4, <1>5, InputKept DEF CutInv, StitchInv, Begun, Joined, input
<1>7. MainInv'
  <2>1. Unmoved(0)
    BY <1>1, <1>3
  <2>2. (\E p \in First..Len(All)+1 : Reads(0, First, p))'
        <=> \E p \in First..Len(All)+1 : Reads(0, First, p)
    <3>1. \A k, p : Reads(0, k, p)' = Reads(0, k, p)
      BY <1>2, <2>1, ReadsKept
    <3>2. \A p : Reads(0, First, p)' = Reads(0, First, p)
      BY <1>2, <3>1, InputKept
    <3> QED
      BY <1>2, <3>2, InputKept
  <2>3. pc = "merge" => w[0] # "none"
    BY <1>1 DEF ThreadInv
  <2> QED
    BY <1>2, <1>4, <2>2, <2>3, InputKept DEF MainInv, StitchInv
<1>8. (\A c \in Worker : ChunkInv(c)') /\ \A m \in 1..Begun : m < N => Linked(m)'
  <2>1. PICK S : S = {}
    OBVIOUS
  <2>2. \A d \in Chunk \ S : Unmoved(d)
    BY <1>3
  <2>3. /\ \A c \in Worker \ S : ChunkInv(c)'
        /\ \A m \in 1..Begun : m < N /\ (\A d \in 0..m : d \notin S) => Linked(m)'
    BY <1>2, <2>2, MostKept
  <2> QED
    BY <2>1, <2>3
<1>9. \A m \in 1..Begun' : Linked(m)'
  <2>1. \A m \in 1..Begun : m < N
    BY <1>1 DEF Begun, Joined, ThreadInv
  <2> QED
    BY <1>5, <1>8, <2>1
<1> QED
  BY <1>6, <1>7, <1>8, <1>9 DEF Chunks

\* Without chunks.
LEMMA SerialStep ==
    ASSUME StitchInv, Sound, Serial
    PROVE  Chunks'
<1>1. 0 \in Chunk /\ (\A d \in Worker : d \in Chunk /\ d # 0) /\ ThreadInv /\ ShapeInv
      /\ ~run_in_parallel /\ pc = "serial" /\ N \in Nat
  BY ChunkAssumption DEF Chunk, Worker, StitchInv, ThreadInv, Serial
<1>2. UNCHANGED <<input, run_in_parallel, start_offset, end_offset, w>> /\ Begun' = 0 /\ pc' = "done"
  BY <1>1 DEF Serial, Begun, Joined, chunkv
<1>3. \A d \in Chunk \ {0} : Unmoved(d)
  BY <1>1 DEF Serial, Unmoved, ShapeInv, chunkv
<1>4. CutInv'
  BY <1>1, <1>2, InputKept DEF CutInv, StitchInv, input
<1>5. MainInv'
  <2>1. w[0] = "none"
    BY <1>1 DEF ThreadInv
  <2> QED
    BY <1>2, <2>1, InputKept DEF MainInv
<1>6. \A c \in Worker : ChunkInv(c)'
  BY <1>1, <1>2, <1>3, MostKept
<1>7. \A m \in 1..Begun' : Linked(m)'
  BY <1>2
<1> QED
  BY <1>4, <1>5, <1>6, <1>7 DEF Chunks

\* MainInv says nothing of where the main thread is once it joins.
LEMMA MainKept ==
    ASSUME StitchInv, Sound, UNCHANGED <<input, run_in_parallel>>, Unmoved(0),
           {pc, pc'} \subseteq {"join", "again", "merge"}
    PROVE  MainInv'
<1>1. (\E p \in First..Len(All)+1 : Reads(0, First, p))'
      <=> \E p \in First..Len(All)+1 : Reads(0, First, p)
  <2>1. \A k, p : Reads(0, k, p)' = Reads(0, k, p)
    BY ReadsKept
  <2>2. \A p : Reads(0, First, p)' = Reads(0, First, p)
    BY <2>1, InputKept
  <2> QED
    BY <2>2, InputKept
<1> QED
  BY <1>1 DEF MainInv, StitchInv, Unmoved

\* A worker is joined: it began where the chunk before it ended.
LEMMA JoinStep ==
    ASSUME StitchInv, Sound, Join \/ Reprocessed
    PROVE  Chunks'
<1>1. 0 \in Chunk /\ (\A d \in Worker : d \in Chunk) /\ ThreadInv /\ CutInv /\ pc \in {"join", "again"}
      /\ N \in Nat /\ j \in Nat /\ j \in 1..N /\ j < N /\ j \in Worker /\ run_in_parallel
  BY ChunkAssumption DEF Chunk, Worker, StitchInv, ThreadInv, Join, Reprocessed
<1>2. UNCHANGED <<input, run_in_parallel, start_offset, end_offset, w, rows, seen, next_row_start,
                  inherited, skip, failed>>
      /\ j' = j + 1 /\ pc' \in {"join", "merge"}
  BY DEF Join, Reprocessed, NextJoin, chunkv
<1>3. \A d \in Chunk : Unmoved(d)
  BY <1>2 DEF Unmoved
<1>4. Joined = j - 1 /\ Begun' = j /\ Begun \in {j - 1, j} /\ (pc = "again" => Begun = j)
  BY <1>1, <1>2 DEF Begun, Joined
<1>5. CutInv'
  <2>1. \A c \in Worker : c > j => c > Begun
    BY <1>1, <1>4 DEF Worker
  <2> QED
    BY <1>1, <1>2, <1>4, <2>1, InputKept DEF CutInv, input
<1>6. MainInv'
  BY <1>1, <1>2, <1>3, MainKept
<1>7. (\A c \in Worker : ChunkInv(c)') /\ \A m \in 1..Begun : m < N => Linked(m)'
  <2>1. PICK S : S = {}
    OBVIOUS
  <2>2. \A d \in Chunk \ S : Unmoved(d)
    BY <1>3
  <2>3. /\ \A c \in Worker \ S : ChunkInv(c)'
        /\ \A m \in 1..Begun : m < N /\ (\A d \in 0..m : d \notin S) => Linked(m)'
    BY <1>2, <2>2, MostKept
  <2> QED
    BY <2>1, <2>3
<1>8. ASSUME pc = "join", NEW m, m = j PROVE Linked(m)'
  <2>1. w[0] = "done" /\ next_row_start[m-1] <= start_offset[m] /\ m \in Worker /\ m = Joined + 1
    BY <1>1, <1>4, <1>8 DEF Join, Reprocessed
  <2>2. start_offset[m] = ChunkStart(file, Initial, m) /\ start_offset[m] \in Nat
    <3>1. m > Begun
      BY <1>1, <1>4, <1>8 DEF Begun
    <3>2. start_offset[m] = ChunkStart(file, Initial, m)
      BY <1>1, <1>8, <2>1, <3>1 DEF CutInv
    <3> QED
      BY <1>1, <2>1, <3>2, CutIsFound
  <2>3. RightUpTo(m - 1) =>
          next_row_start[m-1] \in Nat /\ ChunkStart(file, Initial, m) <= next_row_start[m-1]
    <3>1. m - 1 \in 0..Joined /\ m - 1 < N - 1 /\ (m - 1) + 1 = m
      BY <1>1, <1>4, <1>8
    <3> QED
      BY <2>1, <3>1, JoinedEnds DEF TrueStart
  <2>4. RightUpTo(m - 1) => start_offset'[m] = next_row_start[m-1]
    BY <1>2, <2>1, <2>2, <2>3
  <2>5. \A d \in 0..m-1 : Unmoved(d)
    BY <1>1, <1>3, <1>8 DEF Chunk
  <2> QED
    BY <1>2, <2>1, <2>4, <2>5, LinkedNext
<1>9. \A m \in 1..Begun' : Linked(m)'
  <2> TAKE m \in 1..Begun'
  <2>1. CASE m \in 1..Begun
    BY <1>1, <1>4, <1>7, <2>1
  <2>2. CASE m \notin 1..Begun
    <3>1. m = j /\ pc = "join"
      BY <1>1, <1>4, <2>2
    <3> QED
      BY <1>8, <3>1
  <2> QED
    BY <2>1, <2>2
<1> QED
  BY <1>5, <1>6, <1>7, <1>9 DEF Chunks

\* A worker that did not is sent back to where it has to begin.
LEMMA OverlapStep ==
    ASSUME StitchInv, Sound, JoinOverlap
    PROVE  Chunks'
<1>1. 0 \in Chunk /\ (\A d \in Worker : d \in Chunk) /\ ThreadInv /\ ShapeInv /\ CutInv /\ pc = "join"
      /\ N \in Nat /\ j \in Nat /\ j \in 1..N /\ j < N /\ j \in Worker /\ run_in_parallel
  BY ChunkAssumption DEF Chunk, Worker, StitchInv, ThreadInv, JoinOverlap
<1>2. UNCHANGED <<input, run_in_parallel, end_offset>> /\ j' = j /\ pc' = "again"
  BY DEF JoinOverlap
<1>3. \A d \in Chunk \ {j} : Unmoved(d)
  BY <1>1 DEF JoinOverlap, Unmoved, ThreadInv, ShapeInv
<1>4. Joined = j - 1 /\ Begun' = j /\ Begun = j - 1
  BY <1>1, <1>2 DEF Begun, Joined
<1>5. w'[j] = "created" /\ rows'[j] = {} /\ start_offset'[j] = next_row_start[j-1] /\ w[0] = "done"
  BY <1>1 DEF JoinOverlap, ThreadInv, ShapeInv
<1>6. CutInv'
  <2>1. \A c \in Worker : c > j => c > Begun /\ c \in Chunk \ {j}
    BY <1>1, <1>4 DEF Worker, Chunk
  <2>2. \A c \in Worker : c > j => start_offset'[c] = start_offset[c]
    BY <1>3, <2>1 DEF Unmoved
  <2> QED
    BY <1>1, <1>2, <1>4, <2>1, <2>2, InputKept DEF CutInv, input
<1>7. MainInv'
  <2>1. Unmoved(0)
    BY <1>1, <1>3
  <2> QED
    BY <1>1, <1>2, <2>1, MainKept
<1>8. ASSUME NEW c \in Worker PROVE ChunkInv(c)'
  <2>1. CASE c = j
    BY <1>5, <2>1 DEF ChunkInv
  <2>2. CASE c # j
    BY <1>2, <1>3, <2>2, MostKept
  <2> QED
    BY <2>1, <2>2
<1>9. ASSUME NEW m \in 1..Begun' PROVE Linked(m)'
  <2>1. CASE m = j
    <3>1. \A d \in 0..m-1 : Unmoved(d)
      BY <1>1, <1>3, <2>1 DEF Chunk
    <3>2. m = Joined + 1 /\ m \in Worker
      BY <1>1, <1>4, <2>1
    <3> QED
      BY <1>2, <1>5, <2>1, <3>1, <3>2, LinkedNext
  <2>2. CASE m # j
    <3>1. m \in 1..Begun /\ m < N /\ \A d \in 0..m : d \notin {j}
      BY <1>1, <1>4, <1>9, <2>2
    <3> QED
      BY <1>2, <1>3, <3>1, MostKept
  <2> QED
    BY <2>1, <2>2
<1> QED
  BY <1>6, <1>7, <1>8, <1>9 DEF Chunks

\* Without chunks the main thread takes every row, and keeps them.
LEMMA SerialKept ==
    ASSUME StitchInv, [Next]_vars, UNCHANGED input
    PROVE  SerialInv'
<1>1. 0 \in Chunk /\ (\A c \in Worker : c \in Chunk /\ c # 0) /\ ThreadInv /\ ShapeInv /\ SerialInv
  BY ChunkAssumption DEF Chunk, Worker, StitchInv
<1>2. ASSUME NEW c \in Chunk, Parse(c) \/ (c \in Worker /\ Process(c))
      PROVE  SerialInv'
  <2>1. OnlyChunk(c) /\ w[c] \in {"created", "parse", "crossed"}
    BY <1>1, <1>2, StepsOfOneChunk
  <2>2. pc = "done" /\ ~run_in_parallel => c # 0
    BY <1>1, <2>1 DEF ThreadInv
  <2> QED
    BY <1>1, <2>1, <2>2, InputKept DEF SerialInv, OnlyChunk, Unmoved
<1>3. CASE Serial
  BY <1>1, <1>3, InputKept DEF Serial, SerialInv, ShapeInv, DataRows, Parsed
<1>4. CASE HeaderHandler \/ CreateThread \/ CreateThreadFails \/ Join \/ JoinOverlap \/ Reprocessed
  BY <1>1, <1>4
    DEF SerialInv, HeaderHandler, CreateThread, CreateThreadFails, Join, NextJoin,
     JoinOverlap, Reprocessed
<1>5. CASE Merge
  BY <1>1, <1>5 DEF SerialInv, Merge, ThreadInv
<1>6. CASE UNCHANGED vars
  BY <1>1, <1>6, InputKept DEF SerialInv, vars
<1> QED
  BY <1>1, <1>2, <1>3, <1>4, <1>5, <1>6 DEF Next, Main, Finished

\* Every step keeps the invariant.
LEMMA StepStitch ==
    ASSUME StitchInv, [Next]_vars
    PROVE  StitchInv'
<1>1. ThreadInv' /\ ShapeInv'
  BY ThreadStep, ShapeStep DEF StitchInv
<1>2. UNCHANGED input
  BY DEF Next, Main, Process, Parse, Finished, vars, RowHandler, RowHandlerDone, InputEnds,
         ProcessSkip, ProcessChunk, ProcessFails, HeaderHandler, CreateThread,
         CreateThreadFails, Serial, Join, JoinOverlap, Reprocessed, Merge
<1>3. ASSUME Sound PROVE Chunks'
  <2>1. 0 \in Chunk /\ \A c \in Worker : c \in Chunk
    BY ChunkAssumption DEF Chunk, Worker
  <2> QED
    BY <1>3, <2>1, HeaderStep, CreateStep, OneChunkStep, QuietStep, SerialStep, JoinStep,
       OverlapStep DEF Next, Main, Finished
<1>4. SerialInv'
  BY <1>2, SerialKept
<1> QED
  BY <1>1, <1>2, <1>3, <1>4, InputKept DEF StitchInv, Chunks

\* What every reachable state has in common: where the threads are, what each
\* chunk holds, and that each chunk joined begins where the one before ended.
THEOREM ChunksAreLinked == Spec => []StitchInv
<1>1. Init => StitchInv
  BY InitStitch
<1>2. StitchInv /\ [Next]_vars => StitchInv'
  BY StepStitch
<1> QED
  BY <1>1, <1>2, PTL DEF Spec
-----------------------------------------------------------------------------
(* What the joined chunks hold *)

\* Where a data row begins is a number.
LEMMA RowStarts ==
    ASSUME ThreadInv
    PROVE  \A r \in DataRows : r.start \in Nat
<1>1. \A i \in First..Len(All) : All[i].start \in Nat
  <2> TAKE i \in First..Len(All)
  <2>1. i \in 1..Len(All)
    BY RowsInOrder
  <2> QED
    BY <2>1, RowsInOrder
<1> QED
  BY <1>1, DataRowsAre

\* A joined chunk is done, and begins where it has to.
LEMMA JoinedChunk ==
    ASSUME StitchInv, Sound, NEW m \in 1..Joined, RightUpTo(m - 1)
    PROVE  /\ m \in Worker /\ w[m] = "done" /\ ChunkInv(m) /\ CutInv /\ pc # "header"
           /\ start_offset[m] = next_row_start[m-1] /\ TrueStart(start_offset[m])
           /\ \A c \in 0..m-1 : next_row_start[c] \in 0..start_offset[m]
<1>1. ThreadInv /\ Joined \in Nat /\ Joined < N /\ N \in Nat /\ Begun \in {Joined, Joined + 1}
      /\ pc # "header"
  BY ChunkAssumption DEF StitchInv, ThreadInv, Joined, Begun
<1>2. m \in Worker /\ m \in 1..Begun
  BY <1>1 DEF Worker
<1>3. w[m] = "done"
  BY <1>1 DEF ThreadInv
<1>4. ChunkInv(m) /\ CutInv /\ Linked(m)
  BY <1>2 DEF StitchInv
<1>5. start_offset[m] = next_row_start[m-1] /\ TrueStart(start_offset[m])
      /\ \A c \in 0..m-1 : next_row_start[c] \in 0..start_offset[m]
  BY <1>4 DEF Linked
<1> QED
  BY <1>1, <1>2, <1>3, <1>4, <1>5

\* By the least number of joined chunks of which it would not be true.
LEMMA JoinedCover ==
    ASSUME StitchInv, Sound, w[0] = "done", NEW n \in 1..Joined+1
    PROVE  Covered(n)
<1> DEFINE Not == {m \in 1..Joined+1 : ~Covered(m)}
<1>1. ThreadInv /\ CutInv /\ MainInv /\ Joined \in Nat
  BY DEF StitchInv, ThreadInv, Joined
<1>2. SUFFICES ASSUME Not # {} PROVE FALSE
  OBVIOUS
<1>3. PICK m \in Not : \A x \in Not : m <= x
  <2>1. Not \subseteq Nat
    BY <1>1
  <2> HIDE DEF Not
  <2> QED
    BY <1>2, <2>1, LeastNatural
<1>4. m \in 1..Joined+1 /\ ~Covered(m) /\ m \in Nat /\ m > 0
  BY <1>1, <1>3
<1>5. RightUpTo(m - 1)
  BY <1>4 DEF Covered
<1>6. CASE m = 1
  <2>1. rows[0] = {r \in DataRows : r.start < next_row_start[0]}
    BY <1>1, MainDone
  <2>2. 0..m-1 = {0} /\ m - 1 = 0
    BY <1>6
  <2>3. UNION {rows[c] : c \in 0..m-1} = rows[0]
    BY <2>2
  <2> QED
    BY <1>4, <2>1, <2>2, <2>3 DEF Covered
<1>7. CASE m # 1
  <2> PICK l : l = m - 1
    OBVIOUS
  <2>1. l \in 1..Joined /\ l \in Nat /\ l > 0 /\ l < m /\ m = l + 1 /\ l \in 1..Joined+1
    BY <1>1, <1>4, <1>7
  <2>2. Covered(l)
    <3>1. ~(m <= l)
      BY <1>4, <2>1
    <3> QED
      BY <1>3, <2>1, <3>1
  <2>3. RightUpTo(l - 1) /\ Right(l)
    BY <1>5, <2>1 DEF RightUpTo
  <2> DEFINE a == start_offset[l]
             b == next_row_start[l]
  <2>4. l \in Worker /\ w[l] = "done" /\ ChunkInv(l) /\ pc # "header"
        /\ a = next_row_start[l-1] /\ TrueStart(a)
    BY <2>1, <2>3, JoinedChunk
  <2>5. a \in Nat /\ b \in Nat /\ a <= b /\ rows[l] = {r \in DataRows : a <= r.start /\ r.start < b}
    BY <1>1, <2>3, <2>4, ChunkDone
  <2>6. UNION {rows[c] : c \in 0..l-1} = {r \in DataRows : r.start < a}
    BY <2>2, <2>3, <2>4 DEF Covered
  <2>7. 0..m-1 = (0..l-1) \cup {l} /\ m - 1 = l
    BY <2>1
  <2>8. UNION {rows[c] : c \in 0..m-1} = (UNION {rows[c] : c \in 0..l-1}) \cup rows[l]
    BY <2>7
  <2>9. \A r \in DataRows : r.start < b <=> r.start < a \/ (a <= r.start /\ r.start < b)
    BY <1>1, <2>5, RowStarts
  <2>10. UNION {rows[c] : c \in 0..m-1} = {r \in DataRows : r.start < b}
    BY <2>5, <2>6, <2>8, <2>9
  <2> QED
    BY <1>4, <2>7, <2>10 DEF Covered
<1> QED
  BY <1>6, <1>7

\* What the properties are stated for is what makes the chunks right.
LEMMA AppliesMeansRight ==
    ASSUME ThreadInv, run_in_parallel, NEW k \in Nat, k < N, Applies(k)
    PROVE  Sound /\ RightUpTo(k) /\ \A c \in Worker : ~failed[c] /\ (tool = "select" => ~skip[c])
<1>1. tool \in {"count", "select"} /\ \A d \in 1..k : d \in Worker
  BY OptionAssumption, ChunkAssumption DEF ThreadInv, Worker
<1>2. Sound
  BY <1>1 DEF Applies, Sound
<1>3. \A c \in Worker : ~failed[c] /\ (tool = "select" => ~skip[c])
  BY <1>1 DEF Applies, NoneFailed, NoneSkipped
<1>4. tool = "select" => \A c \in 1..k : inherited[c] # 0 => HasRow(c)
  BY <1>1 DEF Applies, OwnEnds
<1>5. RightUpTo(k)
  BY <1>1, <1>3, <1>4 DEF RightUpTo, Right
<1> QED
  BY <1>2, <1>3, <1>5

\* While the chunks are joined, those that are hold exactly the rows that
\* begin before the offset at which the next one has to begin.
THEOREM JoinedChunksHoldTheRowsSoFar == Spec => []StitchedSoFar
<1>1. StitchInv => StitchedSoFar
  <2> SUFFICES ASSUME StitchInv, pc \in {"join", "merge"}, w[0] = "done", Applies(j - 1)
               PROVE  UNION {rows[c] : c \in 0..j-1} = {r \in DataRows : r.start < next_row_start[j-1]}
    BY DEF StitchedSoFar
  <2>1. ThreadInv /\ run_in_parallel /\ j \in 1..N /\ N \in Nat /\ Joined = j - 1
    BY ChunkAssumption DEF StitchInv, ThreadInv, Joined
  <2>2. j - 1 \in Nat /\ j - 1 < N /\ j \in 1..Joined+1
    BY <2>1
  <2>3. Sound /\ RightUpTo(j - 1)
    BY <2>1, <2>2, AppliesMeansRight
  <2> QED
    BY <2>2, <2>3, JoinedCover DEF Covered
<1> QED
  BY <1>1, ChunksAreLinked, PTL

\* When all are joined, each chunk's rows lie between where it begins and
\* where the next one does.
LEMMA RowsOfChunk ==
    ASSUME StitchInv, pc = "done", run_in_parallel, Applies(N - 2), NEW c \in Chunk
    PROVE  /\ c # 0 => start_offset[c] \in Nat /\ \A r \in rows[c] : start_offset[c] <= r.start
           /\ c # N - 1 => \A r \in rows[c] : r.start < next_row_start[c]
           /\ rows[c] \subseteq DataRows
           /\ c # 0 => \A d \in 0..c-1 : next_row_start[d] \in 0..start_offset[c]
<1>1. ThreadInv /\ MainInv /\ CutInv /\ Joined = N - 1 /\ N \in Nat /\ N > 1 /\ w[0] = "done"
      /\ Sound /\ RightUpTo(N - 2) /\ ~failed[N-1] /\ (tool = "select" => ~skip[N-1])
  <2>1. ThreadInv /\ N \in Nat /\ N > 1 /\ j = N
    BY ChunkAssumption DEF StitchInv, ThreadInv
  <2>2. Joined = N - 1 /\ Joined > 0 /\ w[0] = "done" /\ N - 1 \in Worker /\ N - 2 \in Nat /\ N - 2 < N
    BY <2>1 DEF Joined, ThreadInv, Worker
  <2>3. Sound /\ RightUpTo(N - 2) /\ ~failed[N-1] /\ (tool = "select" => ~skip[N-1])
    BY <2>1, <2>2, AppliesMeansRight
  <2> QED
    BY <2>1, <2>2, <2>3 DEF StitchInv
<1>2. CASE c = 0
  BY <1>1, <1>2, MainDone
<1>3. CASE c # 0
  <2>1. c \in 1..Joined /\ c \in Nat /\ (c # N - 1 => c \in 1..N-2)
    BY <1>1, <1>3 DEF Chunk
  <2>2. RightUpTo(c - 1) /\ (c # N - 1 => Right(c))
    <3>1. \A d \in 1..c-1 : d \in 1..N-2
      BY <1>1, <2>1
    <3> QED
      BY <1>1, <2>1, <3>1 DEF RightUpTo
  <2>3. /\ c \in Worker /\ w[c] = "done" /\ ChunkInv(c) /\ pc # "header" /\ TrueStart(start_offset[c])
        /\ \A d \in 0..c-1 : next_row_start[d] \in 0..start_offset[c]
    BY <1>1, <2>1, <2>2, JoinedChunk
  <2>4. start_offset[c] \in Nat
    BY <2>3 DEF TrueStart
  <2>5. CASE c = N - 1
    BY <1>1, <1>3, <2>3, <2>4, <2>5, LastChunk
  <2>6. CASE c # N - 1
    BY <1>1, <1>3, <2>2, <2>3, <2>4, <2>6, ChunkDone
  <2> QED
    BY <2>5, <2>6
<1> QED
  BY <1>2, <1>3

\* However the threads run, whatever the guesses hit and however many chunks
\* there are: each row of the file is handled for exactly one of them.
THEOREM EachRowIsHandledOnce == Spec => []EveryRowOnce
<1>1. N \in Nat /\ N > 1 /\ 0 \in Chunk /\ N - 1 \in Chunk
  BY ChunkAssumption DEF Chunk
<1>2. ASSUME StitchInv, pc = "done", ~run_in_parallel
      PROVE  /\ UNION {Result(c) : c \in Chunk} = DataRows
             /\ \A c \in Chunk : \A d \in Chunk \ {c} : Result(c) \cap Result(d) = {}
  <2>1. \A c \in Chunk : Result(c) = IF c = 0 THEN DataRows ELSE {}
    BY <1>2 DEF Result, StitchInv, SerialInv
  <2>2. UNION {Result(c) : c \in Chunk} = DataRows
    BY <1>1, <2>1
  <2> QED
    BY <2>1, <2>2
<1>3. ASSUME StitchInv, pc = "done", run_in_parallel, Applies(N - 2)
      PROVE  UNION {Result(c) : c \in Chunk} = DataRows
  <2>1. ThreadInv /\ MainInv /\ CutInv /\ Joined = N - 1 /\ w[0] = "done"
        /\ Sound /\ RightUpTo(N - 2) /\ ~failed[N-1] /\ (tool = "select" => ~skip[N-1])
    <3>1. ThreadInv /\ j = N
      BY <1>3 DEF StitchInv, ThreadInv
    <3>2. Joined = N - 1 /\ Joined > 0 /\ w[0] = "done" /\ N - 1 \in Worker /\ N - 2 \in Nat /\ N - 2 < N
      BY <1>1, <1>3, <3>1 DEF Joined, ThreadInv, Worker
    <3>3. Sound /\ RightUpTo(N - 2) /\ ~failed[N-1] /\ (tool = "select" => ~skip[N-1])
      BY <1>3, <3>1, <3>2, AppliesMeansRight
    <3> QED
      BY <1>3, <3>1, <3>2, <3>3 DEF StitchInv
  <2> DEFINE a == start_offset[N-1]
  <2>2. N - 1 \in 1..Joined /\ N - 1 \in 1..Joined+1 /\ (N - 1) - 1 = N - 2
    BY <1>1, <2>1
  <2>3. w[N-1] = "done" /\ ChunkInv(N-1) /\ pc # "header" /\ TrueStart(a) /\ a = next_row_start[N-2]
    BY <1>3, <2>1, <2>2, JoinedChunk
  <2>4. rows[N-1] = {r \in DataRows : a <= r.start}
    BY <2>1, <2>3, LastChunk
  <2>5. UNION {rows[c] : c \in 0..N-2} = {r \in DataRows : r.start < a}
    BY <1>3, <2>1, <2>2, <2>3, JoinedCover DEF Covered
  <2>6. \A c \in Chunk : Result(c) = rows[c]
    BY <1>3 DEF Result
  <2>7. Chunk = (0..N-2) \cup {N - 1}
    BY <1>1 DEF Chunk
  <2>8. UNION {Result(c) : c \in Chunk} = (UNION {rows[c] : c \in 0..N-2}) \cup rows[N-1]
    BY <2>6, <2>7
  <2>9. \A r \in DataRows : r.start < a \/ a <= r.start
    BY <2>1, <2>3, RowStarts DEF TrueStart
  <2> QED
    BY <2>4, <2>5, <2>8, <2>9
<1>4. ASSUME StitchInv, pc = "done", run_in_parallel, Applies(N - 2),
             NEW c \in Chunk, NEW d \in Chunk, c < d
      PROVE  Result(c) \cap Result(d) = {}
  <2>1. Result(c) = rows[c] /\ Result(d) = rows[d]
    BY <1>4 DEF Result
  <2>2. c \in Nat /\ d \in Nat /\ d # 0 /\ c # N - 1 /\ c \in 0..d-1
    BY <1>1, <1>4 DEF Chunk
  <2>3. /\ \A r \in rows[c] : r.start < next_row_start[c]
        /\ rows[c] \subseteq DataRows
        /\ start_offset[d] \in Nat /\ \A r \in rows[d] : start_offset[d] <= r.start
        /\ next_row_start[c] \in 0..start_offset[d]
    BY <1>4, <2>2, RowsOfChunk
  <2>4. \A r \in rows[c] : r.start \in Nat
    BY <1>4, <2>3, RowStarts DEF StitchInv
  <2> QED
    BY <2>1, <2>3, <2>4
<1>5. StitchInv => EveryRowOnce
  <2>1. ASSUME NEW c \in Chunk, NEW d \in Chunk \ {c} PROVE c < d \/ d < c
    BY <1>1, <2>1 DEF Chunk
  <2>2. ASSUME StitchInv, pc = "done", Applies(N - 2), run_in_parallel,
               NEW c \in Chunk, NEW d \in Chunk \ {c}
        PROVE  Result(c) \cap Result(d) = {}
    BY <1>4, <2>1, <2>2
  <2> QED
    BY <1>2, <1>3, <2>2 DEF EveryRowOnce, StitchInv, ThreadInv
<1> QED
  BY <1>5, ChunksAreLinked, PTL
=============================================================================
