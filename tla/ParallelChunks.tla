--------------------------- MODULE ParallelChunks ---------------------------
(***************************************************************************)
(* `count -j N` and `select -j N` (app/count.c, app/select.c,              *)
(* app/utils/chunk.c): the file is cut at guessed row starts; the main     *)
(* thread goes on with the first chunk while one worker thread per other   *)
(* chunk parses from the guessed offset; then the chunks are stitched in   *)
(* order, and a chunk whose guess was wrong is parsed again from where     *)
(* the chunk before it really ended.                                       *)
(*                                                                         *)
(* A parser started at offset o of file f sees the rows Rows(f, o): each   *)
(* has the offset of its first byte, the offset of the byte that ends it   *)
(* (the size of the file if nothing ends it) and whether a cell of it is   *)
(* not empty.  Chunk 0 belongs to the main thread.                         *)
(***************************************************************************)
EXTENDS Integers, Sequences, FiniteSets

CONSTANTS
    Files,      \* the input files, each with the options to read it
    CrlfOnly(_),     \* opts.only_crlf_rowend
    Size(_),    \* size of a file in bytes
    Rows(_, _), \* rows a parser started at an offset of the file sees
    NewLine(_, _),   \* is the byte of the file at this offset a CR or LF
    CrLf(_, _),      \* is it a CR that an LF follows
    N,          \* num_chunks
    MinBytes,   \* ZSV_COUNT_PARALLEL_MIN_BYTES, ZSV_SELECT_PARALLEL_MIN_BYTES
    Tools,      \* subset of {"count", "select"}
    RowsToIgnore,  \* values of opts.rows_to_ignore
    Word        \* 2^64: size_t arithmetic is modulo it

Chunk == 0..N-1
Worker == 1..N-1

ASSUME ChunkAssumption == N \in Nat /\ N > 1 /\ MinBytes \in Nat /\ MinBytes >= N
ASSUME FileAssumption ==
    \A f \in Files :
        /\ Size(f) \in Nat /\ Size(f) < Word
        /\ CrlfOnly(f) \in BOOLEAN
        /\ \A o \in 0..Size(f)-1 : NewLine(f, o) \in BOOLEAN /\ CrLf(f, o) \in BOOLEAN
\* Rows follow one another; a parser started at a row sees the rows from there
\* on; no row begins inside a row end, and only an empty one with one.
ASSUME ParserAssumption ==
    \A f \in Files :
        LET all == Rows(f, 0)
        IN  /\ all \in Seq([start : Nat, end : Nat, data : BOOLEAN])
            /\ \A k \in DOMAIN all :
                  /\ all[k].start <= all[k].end /\ all[k].end <= Size(f)
                  /\ \A m \in k+1..Len(all) : all[k].end < all[m].start
                  /\ Rows(f, all[k].start) = SubSeq(all, k, Len(all))
                  /\ IF CrlfOnly(f) THEN all[k].start > 0 => ~CrLf(f, all[k].start - 1)
                     ELSE NewLine(f, all[k].start) => all[k].start = all[k].end
ASSUME OptionAssumption ==
    Word \in Nat /\ Tools \subseteq {"count", "select"} /\ RowsToIgnore \subseteq Nat

VARIABLES
    file, tool, rows_to_ignore,
    pc, j,                      \* the main thread, and its loop index
    run_in_parallel,
    start_offset, end_offset,   \* of each chunk
    w,                          \* where the parser of each chunk is
    seen,                       \* rows its parser has gone through
    rows,                       \* rows counted or written for each chunk
    next_row_start,             \* actual_next_row_start; of 0: data.next_row_start
    inherited,                  \* data.next_row_start as copied by a select worker
    skip, failed,
    status                      \* of zsv_merge_worker_outputs()

input == <<file, tool, rows_to_ignore>>
chunkv == <<start_offset, end_offset>>
vars == <<input, pc, j, run_in_parallel, chunkv, w, seen, rows, next_row_start,
          inherited, skip, failed, status>>
-----------------------------------------------------------------------------
(* Cutting the file: app/utils/chunk.c *)

Lowest(S) == CHOOSE x \in S : \A y \in S : x <= y

\* First offset behind a CRLF (--only-crlf) or behind the run of newlines
\* that is found first, searching [from, boundary); -1 if there is none.
zsv_find_chunk_start(f, from, boundary) ==
    LET newlines == {p \in from..boundary-1 : NewLine(f, p)}
        behind   == IF CrlfOnly(f)
                    THEN {p \in from+2..boundary : CrLf(f, p - 2)}
                    ELSE {p \in Lowest(newlines)..boundary-1 : ~NewLine(f, p)}
    IN  IF newlines = {} \/ behind = {} THEN -1 ELSE Lowest(behind)

\* The cuts ignore that the first chunk starts at initial: both the nominal
\* boundary and the end of the search are counted from 0.
FoundStart(f, initial, c) ==
    LET total == Size(f) - initial
    IN  zsv_find_chunk_start(f, c * (total \div N), total)

ChunkStart(f, initial, c) ==
    IF c = 0 THEN initial
    ELSE IF FoundStart(f, initial, c) < 0 THEN c * ((Size(f) - initial) \div N)
    ELSE FoundStart(f, initial, c)

ChunkEnd(f, initial, c) ==
    LET end == IF c = N - 1 THEN Size(f) - 1 ELSE ChunkStart(f, initial, c + 1) - 1
    IN  IF ChunkStart(f, initial, c) > end THEN ChunkStart(f, initial, c) ELSE end

zsv_guess_file_chunks_ok(f, initial) == Size(f) - initial >= MinBytes
-----------------------------------------------------------------------------
(* A parser and its row handlers *)

\* the rows of the parser of chunk c
Parsed(c) == Rows(file, IF c = 0 THEN 0 ELSE start_offset[c])
Row(c)    == Parsed(c)[seen[c] + 1]
HasRow(c) == seen[c] < Len(Parsed(c))
Ended(r)  == r.end < Size(file)
\* zsv_parse_more() delivers a row once its row end is read
InScan(c) == HasRow(c) /\ Ended(Row(c))

\* without the subtraction
RowStartFromEnd(r) == IF Ended(r) THEN r.end ELSE r.start
\* zsv_cum_scanned_length() - zsv_row_length_raw_bytes() in a row handler.
\* For a row that zsv_finish() delivers, the former is the row's start.
RowStart(r) == IF Ended(r) THEN r.start ELSE 2 * r.start - r.end

\* in size_t (count), or as off_t (select)
AsOffset(x) == IF tool = "count" THEN x % Word ELSE x

\* row_parallel(), worker_row(), zsv_select_data_row_parallel()
RowHandler(c) ==
    /\ w[c] = "parse" /\ InScan(c)
    /\ rows' = [rows EXCEPT ![c] = @ \cup {Row(c)}]
    /\ seen' = [seen EXCEPT ![c] = @ + 1]
    /\ w' = [w EXCEPT ![c] = IF Row(c).end >= end_offset[c] THEN "crossed" ELSE @]
    /\ UNCHANGED <<input, pc, j, run_in_parallel, chunkv, next_row_start,
                   inherited, skip, failed, status>>

\* row_parallel_done(), worker_row_done(), zsv_select_data_row_parallel_done()
RowHandlerDone(c) ==
    /\ w[c] = "crossed" /\ InScan(c)
    /\ next_row_start' = [next_row_start EXCEPT ![c] = RowStart(Row(c))]
    /\ w' = [w EXCEPT ![c] = "done"]
    /\ UNCHANGED <<input, pc, j, run_in_parallel, chunkv, seen, rows,
                   inherited, skip, failed, status>>

\* The input ends first.  zsv_finish() hands over a row that nothing ended;
\* a select worker does not call it.
InputEnds(c) ==
    LET finishes == c = 0 \/ tool = "count"
        extra    == finishes /\ HasRow(c)
        done     == IF extra /\ w[c] = "crossed" THEN AsOffset(RowStart(Row(c))) ELSE 0
        cum      == IF c = 0 /\ extra THEN Row(c).start ELSE Size(file)
        past     == IF tool = "count" THEN cum ELSE cum + 1
    IN
    /\ w[c] \in {"parse", "crossed"} /\ ~InScan(c)
    /\ rows' = [rows EXCEPT ![c] = IF extra /\ w[c] = "parse" THEN @ \cup {Row(c)} ELSE @]
    /\ next_row_start' = [next_row_start EXCEPT ![c] =
          IF extra /\ w[c] = "crossed" /\ (done # 0 \/ c # 0) THEN done
          ELSE IF c # 0 /\ tool = "select" /\ inherited[c] # 0
          THEN inherited[c] + start_offset[c]
          ELSE past]
    /\ w' = [w EXCEPT ![c] = "done"]
    /\ UNCHANGED <<input, pc, j, run_in_parallel, chunkv, seen,
                   inherited, skip, failed, status>>
-----------------------------------------------------------------------------
(* process_chunk_internal(), zsv_select_process_chunk_internal() *)

\* Rows the new parser drops: those of --skip-head, which the options of a
\* count worker still ask for, and empty ones at the start for select.
Dropped(c) ==
    LET p == Rows(file, start_offset[c])
    IN  IF tool = "count"
        THEN IF rows_to_ignore < Len(p) THEN rows_to_ignore ELSE Len(p)
        ELSE Cardinality({k \in DOMAIN p : \A m \in 1..k : ~p[m].data})

\* an empty chunk, or one that the chunk before it has eaten
ProcessSkip(c) ==
    /\ w[c] = "created"
    /\ start_offset[c] >= end_offset[c]
    /\ skip' = [skip EXCEPT ![c] = TRUE]
    /\ next_row_start' = IF tool = "count"
                         THEN [next_row_start EXCEPT ![c] = start_offset[c]]
                         ELSE next_row_start
    /\ w' = [w EXCEPT ![c] = "done"]
    /\ UNCHANGED <<input, pc, j, run_in_parallel, chunkv, seen, rows,
                   inherited, failed, status>>

\* A select worker copies the state of the main thread, which is running.
ProcessChunk(c) ==
    /\ w[c] = "created"
    /\ start_offset[c] < end_offset[c]
    /\ seen' = [seen EXCEPT ![c] = Dropped(c)]
    /\ inherited' = [inherited EXCEPT ![c] = next_row_start[0]]
    /\ failed' = [failed EXCEPT ![c] = FALSE]
    /\ w' = [w EXCEPT ![c] = "parse"]
    /\ UNCHANGED <<input, pc, j, run_in_parallel, chunkv, rows, next_row_start,
                   skip, status>>

\* the worker cannot open the file, or get memory
ProcessFails(c) ==
    /\ w[c] = "created"
    /\ start_offset[c] < end_offset[c]
    /\ failed' = [failed EXCEPT ![c] = TRUE]
    /\ w' = [w EXCEPT ![c] = "done"]
    /\ UNCHANGED <<input, pc, j, run_in_parallel, chunkv, seen, rows,
                   next_row_start, inherited, skip, status>>
-----------------------------------------------------------------------------
(* The main thread *)

Header == Rows(file, 0)[rows_to_ignore + 1]

\* where the first chunk starts: zsv_cum_scanned_length() in the header row's
\* handler, and for select one more
Initial == LET header_end == IF Ended(Header) THEN Header.end ELSE Header.start
           IN  IF tool = "count" THEN header_end ELSE header_end + 1

\* header_handler(), zsv_select_header_finish(): the header row is read
HeaderHandler ==
    /\ pc = "header"
    /\ run_in_parallel' = zsv_guess_file_chunks_ok(file, Initial)
    /\ pc' = IF run_in_parallel' THEN "create" ELSE "serial"
    /\ start_offset' = [c \in Chunk |-> ChunkStart(file, Initial, c)]
    /\ end_offset' = [c \in Chunk |-> ChunkEnd(file, Initial, c)]
    /\ seen' = [seen EXCEPT ![0] = rows_to_ignore + 1]
    /\ UNCHANGED <<input, j, w, rows, next_row_start, inherited, skip, failed, status>>

CreateThread ==
    /\ pc = "create"
    /\ w' = [w EXCEPT ![j] = "created", ![0] = IF j = N - 1 THEN "parse" ELSE @]
    /\ j' = IF j = N - 1 THEN 1 ELSE j + 1
    /\ pc' = IF j = N - 1 THEN "join" ELSE pc
    /\ UNCHANGED <<input, run_in_parallel, chunkv, seen, rows, next_row_start,
                   inherited, skip, failed, status>>

\* count goes on alone and leaves the threads it has to themselves; select
\* joins all N - 1, the ones it did not create too
CreateThreadFails ==
    /\ pc = "create"
    /\ pc' = IF tool = "count" THEN "serial" ELSE "crashed"
    /\ run_in_parallel' = (tool = "select")
    /\ UNCHANGED <<input, j, chunkv, w, seen, rows, next_row_start, inherited,
                   skip, failed, status>>

\* row_simple(), zsv_select_data_row(): no chunks, every row is handled here
Serial ==
    /\ pc = "serial"
    /\ rows' = [rows EXCEPT ![0] =
                   {Parsed(0)[k] : k \in rows_to_ignore + 2 .. Len(Parsed(0))}]
    /\ pc' = "done"
    /\ UNCHANGED <<input, j, run_in_parallel, chunkv, w, seen, next_row_start,
                   inherited, skip, failed, status>>

NextJoin ==
    /\ j' = j + 1
    /\ pc' = IF j = N - 1 THEN "merge" ELSE "join"

\* as Join, whatever the chunk before has read
JoinRegardless ==
    /\ pc = "join" /\ w[0] = "done" /\ w[j] = "done"
    /\ NextJoin
    /\ UNCHANGED <<input, run_in_parallel, chunkv, w, seen, rows, next_row_start,
                   inherited, skip, failed, status>>

\* Chunk 0 is done; join worker j, whose chunk began where the chunk before
\* it ended.
Join ==
    /\ pc = "join" /\ w[0] = "done" /\ w[j] = "done"
    /\ next_row_start[j - 1] <= start_offset[j]
    /\ NextJoin
    /\ UNCHANGED <<input, run_in_parallel, chunkv, w, seen, rows, next_row_start,
                   inherited, skip, failed, status>>

\* ... or before that: drop what it has and parse it again from there, in
\* this thread.
JoinOverlap ==
    /\ pc = "join" /\ w[0] = "done" /\ w[j] = "done"
    /\ next_row_start[j - 1] > start_offset[j]
    /\ start_offset' = [start_offset EXCEPT ![j] = next_row_start[j - 1]]
    /\ w' = [w EXCEPT ![j] = "created"]
    /\ rows' = [rows EXCEPT ![j] = {}]
    /\ pc' = "again"
    /\ UNCHANGED <<input, j, run_in_parallel, end_offset, seen, next_row_start,
                   inherited, skip, failed, status>>

Reprocessed ==
    /\ pc = "again" /\ w[j] = "done"
    /\ NextJoin
    /\ status' = IF tool = "select" /\ failed[j] THEN "error" ELSE status
    /\ UNCHANGED <<input, run_in_parallel, chunkv, w, seen, rows, next_row_start,
                   inherited, skip, failed>>

\* The counts are added up; select appends the output of the chunks that it
\* did not skip: with an error none, and a failed worker has left no output.
Merge ==
    /\ pc = "merge"
    /\ pc' = IF status = "error" THEN "error"
             ELSE IF tool = "select" /\ \E c \in Worker : failed[c] /\ ~skip[c]
             THEN "crashed" ELSE "done"
    /\ UNCHANGED <<input, j, run_in_parallel, chunkv, w, seen, rows,
                   next_row_start, inherited, skip, failed, status>>

Finished == pc \in {"done", "error", "crashed"} /\ UNCHANGED vars
-----------------------------------------------------------------------------
Init ==
    /\ file \in Files /\ tool \in Tools /\ rows_to_ignore \in RowsToIgnore
    /\ Len(Rows(file, 0)) > rows_to_ignore /\ Header.data
    /\ pc = "header" /\ j = 1 /\ run_in_parallel = FALSE
    /\ start_offset = [c \in Chunk |-> 0] /\ end_offset = [c \in Chunk |-> 0]
    /\ w = [c \in Chunk |-> "none"]
    /\ seen = [c \in Chunk |-> 0]
    /\ rows = [c \in Chunk |-> {}]
    /\ next_row_start = [c \in Chunk |-> 0] /\ inherited = [c \in Chunk |-> 0]
    /\ skip = [c \in Chunk |-> FALSE] /\ failed = [c \in Chunk |-> FALSE]
    /\ status = "ok"

Process(c) == ProcessSkip(c) \/ ProcessChunk(c) \/ ProcessFails(c)
Parse(c) == RowHandler(c) \/ RowHandlerDone(c) \/ InputEnds(c)

Main == \/ HeaderHandler \/ CreateThread \/ CreateThreadFails \/ Serial
        \/ Join \/ JoinOverlap \/ Reprocessed \/ Merge
        \/ Parse(0)

Next == \/ Main
        \/ \E c \in Worker : Process(c) \/ Parse(c)
        \/ Finished

Spec == Init /\ [][Next]_vars
-----------------------------------------------------------------------------
DataRows == {Rows(file, 0)[k] : k \in rows_to_ignore + 2 .. Len(Rows(file, 0))}

\* every row ends with a row end and is not empty (for select: has a cell
\* that is not empty)
Regular == \A r \in DataRows \cup {Header} :
              Ended(r) /\ IF tool = "count" THEN r.start < r.end ELSE r.data

\* what chunk c adds to the total or to the output
Result(c) == IF run_in_parallel \/ c = 0 THEN rows[c] ELSE {}

NoneFailed == \A c \in Worker : ~failed[c]

\* behind each nominal cut there is a newline and then another line
CutsFound == \A c \in Worker : FoundStart(file, Initial, c) >= 0

\* no chunk is empty or eaten by a row of the chunk before it
NoneSkipped == \A c \in Worker : ~skip[c]

\* Each of the workers up to k comes to the row behind its chunk; or else it
\* has started before the main thread came there.  (A worker that ends with
\* its input keeps the next_row_start it has copied from the main thread.)
OwnEnds(k) == \A c \in 1..k : inherited[c] # 0 => HasRow(c)

\* what the two properties below are stated for
Applies(k) ==
    /\ NoneFailed /\ Regular
    /\ run_in_parallel =>
          CutsFound /\ IF tool = "count" THEN rows_to_ignore = 0 ELSE NoneSkipped /\ OwnEnds(k)

\* When the chunks before j have been joined, what they hold is exactly the
\* rows of the file that begin before the offset at which j has to begin.
StitchedSoFar ==
    /\ pc \in {"join", "merge"} /\ w[0] = "done" /\ Applies(j - 1)
    => UNION {rows[c] : c \in 0..j-1} = {r \in DataRows : r.start < next_row_start[j-1]}

\* Whatever the guesses hit (a newline inside quotes, the second line of the
\* header, a row end), however far the row at a cut reaches, and however the
\* threads run, each row of the file is handled for exactly one chunk: the
\* parallel commands count and write what the serial ones do.  For count,
\* without --skip-head; for select, as long as no chunk is skipped and no
\* worker takes the main thread's next_row_start for its own.
EveryRowOnce ==
    pc = "done" /\ Applies(N - 2)
    => /\ UNION {Result(c) : c \in Chunk} = DataRows
       /\ \A c \in Chunk : \A d \in Chunk \ {c} : Result(c) \cap Result(d) = {}

\* The test of the parallel commands (app/test/parallel/Makefile) compares
\* their output with that of the serial ones; this says they are the same
\* for every file in which each row has data.  Refuted for select: a worker
\* does not call zsv_finish(), so a last row without row end is lost.
ParallelIsSerial ==
    /\ pc = "done" /\ NoneFailed /\ \A r \in DataRows : r.data
    => UNION {Result(c) : c \in Chunk} = DataRows
=============================================================================
