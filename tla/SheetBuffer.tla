----------------------------- MODULE SheetBuffer -----------------------------
(***************************************************************************)
(* One buffer of `zsv sheet` (app/sheet.c, app/sheet/, app/utils/index.c)  *)
(* and the two threads that share it: the UI thread, which opens the       *)
(* buffer, polls it, moves over it and closes it, and its one worker.  For *)
(* a plain file the worker builds the row index; for the result of a       *)
(* transformation it goes on writing the file and indexes what it writes.  *)
(*                                                                         *)
(* Rows are 0 (the header) .. total-1.  A row is RowLen bytes, the last of *)
(* which is its newline, so row k starts at byte k * RowLen.  What the     *)
(* code does under uib->mutex is one action; status strings are addresses  *)
(* in a heap that may hand out a freed address again.                      *)
(***************************************************************************)
EXTENDS Integers, Sequences, FiniteSets

CONSTANTS
    MaxRows,       \* bound on the rows of a file, the header included
    RowLen,        \* bytes of a row
    RowN,          \* ZSV_INDEX_ROW_N: every RowN-th line end is stored
    BuffRows,      \* zsvsheet_screen_buffer_rows(), the header included
    Addr,          \* addresses of status strings
    Kinds,         \* subset of {"file", "transformation"}
    BlankSets,     \* which rows may be blank
    FlagStores     \* subset of BOOLEAN: values of atomic_flags

Null == 0

ASSUME SizeAssumption == MaxRows \in Nat /\ MaxRows > 0 /\ RowLen \in Nat /\ RowLen > 1
                         /\ RowN \in Nat /\ RowN > 0 /\ BuffRows \in Nat /\ BuffRows > 1
ASSUME SheetAssumption == Null \notin Addr /\ Kinds \subseteq {"file", "transformation"}
                          /\ BlankSets \subseteq SUBSET (1..MaxRows-1) /\ FlagStores \subseteq BOOLEAN

VARIABLES
    atomic_flags,    \* is a store to one bit-field of struct zsvsheet_ui_buffer
                     \* atomic with respect to a store to its neighbour
    kind, total, blank,
    terminated,      \* plain file: does a newline end the last row
    has_on_done,     \* transformation: trn->on_done
    nrows,           \* rows in the file, or handed to the writer
    out, flushed,    \* bytes handed to the writer; bytes in the file
    writer_wrote,    \* trn->writer_wrote
    ix,              \* struct zsv_index
    index_ready, index_started, write_done, worker_active, worker_cancelled,
    placeholder,     \* status_is_index_placeholder
    status, default_status, to_free, heap, bad_free,
    message,         \* history, of a plain file: set_status() has set the status
    row_count, buff_used_rows, input_offset, update_buffer,
    shown,           \* the last read: its start row and the rows it showed
    ui, worker,      \* where the threads are
    loaded           \* the flags the UI thread has loaded but not stored back

input  == <<atomic_flags, kind, total, blank, terminated, has_on_done>>
file   == <<nrows, out, flushed, writer_wrote>>
flags  == <<index_ready, index_started, write_done, worker_active>>
string == <<status, default_status, placeholder, to_free, heap, bad_free, message>>
view   == <<row_count, buff_used_rows, input_offset, update_buffer, shown>>
vars   == <<input, file, ix, flags, worker_cancelled, string, view, ui, worker, loaded>>
-----------------------------------------------------------------------------
(* The row index: app/utils/index.c *)

NewIndex == [header_line_end |-> 0, row_count |-> 0, row_count_local |-> 0, u64s |-> <<>>]

\* counts the row after looking whether its line end is to be stored
AddRowLate(i, line_end) ==
    IF i.header_line_end = 0 THEN [i EXCEPT !.header_line_end = line_end]
    ELSE [i EXCEPT !.row_count_local = @ + 1,
                   !.u64s = IF i.row_count_local % RowN = 0 THEN Append(@, line_end) ELSE @]
zsv_index_add_row(i, line_end) ==
    IF i.header_line_end = 0 THEN [i EXCEPT !.header_line_end = line_end]
    ELSE [i EXCEPT !.row_count_local = @ + 1,
                   !.u64s = IF (i.row_count_local + 1) % RowN = 0 THEN Append(@, line_end) ELSE @]

\* the header counted too
CommitHeaderToo(i) == [i EXCEPT !.row_count = i.row_count_local + 1]
zsv_index_commit_rows(i) == [i EXCEPT !.row_count = i.row_count_local]

\* zsv_index_row_end_offset(): the stored offset to start from ...
BaseOffset(i, row) == IF row < RowN THEN i.header_line_end ELSE i.u64s[row \div RowN]
\* ... and *remaining_rows_out
RemainingRows(row) == IF row < RowN THEN row ELSE row % RowN

\* seek_and_check_newline()
NewlineAt(offset) == offset < flushed /\ offset % RowLen = RowLen - 1

\* A parser passes over the blank rows it starts with (skip_to_first_row_w_data()).
FirstData(row) == CHOOSE r \in row..total : r \notin blank /\ \A q \in row..r-1 : q \in blank

RowInFile(row) == row * RowLen < flushed
EndInFile(row) == NewlineAt(row * RowLen + RowLen - 1)

\* zsv_index_seek_row(): the row at which the stream is left, or -1
zsv_index_seek_row(i, row) ==
    LET base == BaseOffset(i, row)
        from == (base + 1) \div RowLen
        last == FirstData(from) + RemainingRows(row) - 1
    IN  IF row > i.row_count \/ ~NewlineAt(base) THEN -1
        ELSE IF RemainingRows(row) = 0 THEN from
        ELSE IF EndInFile(last) THEN last + 1 ELSE -1
-----------------------------------------------------------------------------
(* Status strings *)

\* free(a) in a heap h
Freed(h, a) == h \ {a}
BadFree(h, a) == a # Null /\ a \notin h

\* old is freed, then a string new (or Null) is made the status
ReplaceStatus(old, new) ==
    /\ new \notin Freed(heap, old)
    /\ status' = new
    /\ bad_free' = (bad_free \/ BadFree(heap, old))
    /\ heap' = Freed(heap, old) \cup ({new} \ {Null})
-----------------------------------------------------------------------------
(* The writer of a transformation: app/utils/writer.c *)

\* The writer has 0 < used <= ZSV_OUTPUT_BUFF_SIZE bytes: writing a cell, a
\* delimiter or a newline may first flush all that was handed over before.
WriterAt(new) ==
    /\ out' = new
    /\ flushed' \in {flushed} \cup out..new
    /\ writer_wrote' = (writer_wrote \/ flushed' # flushed)

\* with on_row called behind the newline
WriteRowLate ==
    /\ nrows < total
    /\ nrows' = nrows + 1
    /\ WriterAt(IF nrows = 0 THEN RowLen - 1 ELSE out + RowLen)
    /\ ix' = IF nrows = 0 THEN ix ELSE zsv_index_add_row(ix, out + 1)
\* the row handler of the transformation writes the next row of its output
WriteRow ==
    /\ nrows < total
    /\ nrows' = nrows + 1
    /\ WriterAt(IF nrows = 0 THEN RowLen - 1 ELSE out + RowLen)
    /\ ix' = IF nrows = 0 THEN ix ELSE zsv_index_add_row(ix, out)

\* without the flush
DeleteUnflushed(i) ==
    /\ out' = out + 1 /\ flushed' = flushed
    /\ ix' = i
    /\ UNCHANGED <<nrows, writer_wrote>>
\* zsvsheet_transformation_delete() and what zsv_writer_delete() does in it
Deleted(i) ==
    /\ out' = out + 1 /\ flushed' = out + 1
    /\ ix' = i
    /\ UNCHANGED <<nrows, writer_wrote>>
LastRowAdded == zsv_index_add_row(ix, out + 1)
-----------------------------------------------------------------------------
(* The UI thread opens the buffer *)

\* zsvsheet_push_transformation() transforms until something is in the file
FillRow ==
    /\ ui = "fill" /\ WriteRow
    /\ UNCHANGED <<input, flags, worker_cancelled, string, view, ui, worker, loaded>>

FillWrote ==
    /\ ui = "fill" /\ writer_wrote
    /\ writer_wrote' = FALSE /\ ui' = "open"
    /\ UNCHANGED <<input, nrows, out, flushed, ix, flags, worker_cancelled, string, view,
                   worker, loaded>>

\* no_more_input: zsv_finish(), zsv_writer_flush()
FillEnd ==
    /\ ui = "fill" /\ nrows = total
    /\ flushed' = out /\ writer_wrote' = FALSE /\ ui' = "opendone"
    /\ UNCHANGED <<input, nrows, out, ix, flags, worker_cancelled, string, view, worker, loaded>>

\* read_data() from the start of the file, without an index: rows_read counts
\* a row of which only a part is in the file
RowsInFile == Cardinality({r \in 0..total-1 : RowInFile(r)})
Smaller(a, b) == IF a < b THEN a ELSE b
FirstRead ==
    LET rows_read == Smaller(RowsInFile, BuffRows)
    IN  /\ row_count' = rows_read /\ buff_used_rows' = rows_read
        /\ shown' = [start |-> 0, first |-> 1, last |-> rows_read - 1, indexed |-> FALSE, ok |-> TRUE]
        /\ UNCHANGED <<input_offset, update_buffer>>

\* zsvsheet_ui_buffer_open_file_opts() of a plain file: read_data() puts up the
\* placeholder status if there is more than a header to index
OpenFile ==
    /\ ui = "open" /\ kind = "file"
    /\ FirstRead
    /\ index_started' = TRUE
    /\ IF row_count' > 1
       THEN /\ \E s \in Addr : ReplaceStatus(Null, s)
            /\ placeholder' = TRUE /\ ui' = "create"
       ELSE /\ ui' = "loop" /\ UNCHANGED <<placeholder, status, heap, bad_free>>
    /\ UNCHANGED <<input, file, ix, index_ready, write_done, worker_active, worker_cancelled,
                   default_status, to_free, message, worker, loaded>>

\* the output is still to be completed: default_status says so
OpenTransformation ==
    /\ ui = "open" /\ kind = "transformation"
    /\ FirstRead
    /\ ix' = zsv_index_commit_rows(ix)
    /\ index_started' = TRUE
    /\ \E s \in Addr : ReplaceStatus(Null, s) /\ default_status' = s
    /\ ui' = "create"
    /\ UNCHANGED <<input, file, index_ready, write_done, worker_active, worker_cancelled,
                   placeholder, to_free, message, worker, loaded>>

\* what is left to do without a worker: on_done(), delete, commit
CompleteHere(old) ==
    /\ write_done' = TRUE /\ index_ready' = TRUE
    /\ \E s \in IF has_on_done THEN Addr ELSE {Null} : ReplaceStatus(old, s)
    /\ Deleted(zsv_index_commit_rows(LastRowAdded))
    /\ ui' = "loop"

OpenCompleted ==
    /\ ui = "opendone"
    /\ FirstRead
    /\ index_started' = TRUE
    /\ CompleteHere(Null)
    /\ UNCHANGED <<input, worker_active, worker_cancelled, placeholder, default_status, to_free,
                   message, worker, loaded>>

\* zsvsheet_ui_buffer_create_worker()
CreateWorker ==
    /\ ui = "create"
    /\ worker' = IF kind = "file" THEN "index" ELSE "parse"
    /\ ui' = "mark"
    /\ UNCHANGED <<input, file, ix, flags, worker_cancelled, string, view, loaded>>

CreateFails ==
    /\ ui = "create"
    /\ IF kind = "file"
       THEN /\ ReplaceStatus(status, Null) /\ placeholder' = FALSE /\ ui' = "loop"
            /\ UNCHANGED <<file, ix, index_ready, write_done, default_status>>
       ELSE CompleteHere(status) /\ default_status' = Null /\ UNCHANGED placeholder
    /\ UNCHANGED <<input, index_started, worker_active, worker_cancelled, to_free, message, view,
                   worker, loaded>>

\* ub->worker_active = 1, without the mutex, into the byte that also holds
\* index_ready and write_done: the byte is loaded ...
MarkActive ==
    /\ ui = "mark" /\ atomic_flags
    /\ worker_active' = TRUE /\ ui' = "loop"
    /\ UNCHANGED <<input, file, ix, index_ready, index_started, write_done, worker_cancelled,
                   string, view, worker, loaded>>

MarkLoad ==
    /\ ui = "mark" /\ ~atomic_flags
    /\ loaded' = <<index_ready, write_done>> /\ ui' = "store"
    /\ UNCHANGED <<input, file, ix, flags, worker_cancelled, string, view, worker>>

\* ... and stored back
MarkStore ==
    /\ ui = "store"
    /\ worker_active' = TRUE /\ index_ready' = loaded[1] /\ write_done' = loaded[2]
    /\ loaded' = <<FALSE, FALSE>> /\ ui' = "loop"
    /\ UNCHANGED <<input, file, ix, index_started, worker_cancelled, string, view, worker>>

\* A worker stores index_ready and write_done under the mutex; the store of
\* worker_active may fall between its load and its store.
WorkerSets(ready, done) ==
    /\ index_ready' = ready /\ write_done' = done
    /\ UNCHANGED <<index_started, loaded>>
    /\ \/ UNCHANGED <<worker_active, ui>>
       \/ ~atomic_flags /\ ui = "mark" /\ ui' = "loop" /\ UNCHANGED worker_active
-----------------------------------------------------------------------------
(* The index worker: get_data_index(), build_memory_index() *)

Indexed == IF ix.header_line_end = 0 THEN 0 ELSE ix.row_count_local + 1
LineEnd(row) == row * RowLen + RowLen - 1
\* rows that zsv_parse_more() delivers; the last one may be left to zsv_finish()
Scanned == IF terminated THEN total ELSE total - 1

\* the file cannot be opened: no index
IndexFails ==
    /\ worker = "index" /\ Indexed = 0
    /\ worker' = "restore"
    /\ UNCHANGED <<input, file, ix, flags, worker_cancelled, string, view, ui, loaded>>

\* build_memory_index_row_handler()
IndexRow ==
    /\ worker = "index" /\ Indexed < Scanned
    /\ ix' = zsv_index_add_row(ix, LineEnd(Indexed))
    /\ UNCHANGED <<input, file, flags, worker_cancelled, string, view, ui, worker, loaded>>

\* another 32 MB have been scanned
IndexCommit ==
    /\ worker = "index" /\ Indexed > 0
    /\ ix' = zsv_index_commit_rows(ix)
    /\ WorkerSets(TRUE, write_done)
    /\ worker' = IF worker_cancelled THEN "finish" ELSE worker
    /\ UNCHANGED <<input, file, worker_cancelled, string, view>>

IndexEnd ==
    /\ worker = "index" /\ Indexed = Scanned
    /\ worker' = "finish"
    /\ UNCHANGED <<input, file, ix, flags, worker_cancelled, string, view, ui, loaded>>

\* zsv_finish() delivers the row nothing ended, whose cumulative length is its
\* start; after a cancellation that is the row at which the scan stood, if any
FinishedIndex ==
    LET added == zsv_index_add_row(ix, Indexed * RowLen)
    IN  IF Indexed = total THEN {ix} ELSE IF Indexed = Scanned THEN {added} ELSE {ix, added}

\* without the commit
IndexFinishUncommitted ==
    /\ worker = "finish"
    /\ ix' \in FinishedIndex
    /\ WorkerSets(TRUE, write_done)
    /\ worker' = "restore"
    /\ UNCHANGED <<input, file, worker_cancelled, string, view>>
IndexFinish ==
    /\ worker = "finish"
    /\ \E i \in FinishedIndex : ix' = zsv_index_commit_rows(i)
    /\ WorkerSets(TRUE, write_done)
    /\ worker' = "restore"
    /\ UNCHANGED <<input, file, worker_cancelled, string, view>>

\* end of get_data_index(); the status before the placeholder was NULL
IndexRestore ==
    /\ worker = "restore"
    /\ IF placeholder
       THEN to_free' = status /\ status' = Null /\ message' = FALSE
       ELSE UNCHANGED <<to_free, status, message>>
    /\ placeholder' = FALSE
    /\ worker' = "free"
    /\ UNCHANGED <<input, file, ix, flags, worker_cancelled, default_status, heap, bad_free, view,
                   ui, loaded>>

\* free(to_free), the last thing either worker does
WorkerFree ==
    /\ worker = "free"
    /\ bad_free' = (bad_free \/ BadFree(heap, to_free)) /\ heap' = Freed(heap, to_free)
    /\ to_free' = Null
    /\ worker' = "exit"
    /\ UNCHANGED <<input, file, ix, flags, worker_cancelled, status, default_status, placeholder,
                   message, view, ui, loaded>>
-----------------------------------------------------------------------------
(* The transformation worker: zsvsheet_run_buffer_transformation() *)

TransformRow ==
    /\ worker = "parse" /\ WriteRow
    /\ UNCHANGED <<input, flags, worker_cancelled, string, view, ui, worker, loaded>>

\* zsv_parse_more() has returned ok
TransformCommit ==
    /\ worker = "parse"
    /\ IF writer_wrote
       THEN ix' = zsv_index_commit_rows(ix) /\ WorkerSets(TRUE, write_done)
       ELSE UNCHANGED <<ix, flags, ui, loaded>>
    /\ writer_wrote' = FALSE
    /\ worker' = IF worker_cancelled THEN "done" ELSE worker
    /\ UNCHANGED <<input, nrows, out, flushed, worker_cancelled, string, view>>

TransformEnd ==
    /\ worker = "parse" /\ nrows = total
    /\ worker' = "done"
    /\ UNCHANGED <<input, file, ix, flags, worker_cancelled, string, view, ui, loaded>>

\* zsvsheet_filter_file_on_done(): the old string is freed behind the unlock
OnDone ==
    /\ worker = "done"
    /\ IF has_on_done
       THEN \E s \in Addr \ heap : /\ status' = s /\ heap' = heap \cup {s}
                                   /\ to_free' = status /\ placeholder' = FALSE
                                   /\ worker' = "freeold"
       ELSE worker' = "delete" /\ UNCHANGED <<status, heap, to_free, placeholder>>
    /\ UNCHANGED <<input, file, ix, flags, worker_cancelled, default_status, bad_free, message,
                   view, ui, loaded>>

FreeOld ==
    /\ worker = "freeold"
    /\ bad_free' = (bad_free \/ BadFree(heap, to_free)) /\ heap' = Freed(heap, to_free)
    /\ to_free' = Null
    /\ worker' = "delete"
    /\ UNCHANGED <<input, file, ix, flags, worker_cancelled, status, default_status, placeholder,
                   message, view, ui, loaded>>

TransformDelete ==
    /\ worker = "delete"
    /\ Deleted(LastRowAdded)
    /\ worker' = "final"
    /\ UNCHANGED <<input, flags, worker_cancelled, string, view, ui, loaded>>

\* the string to be freed stays the status
TransformFinalKeeps ==
    /\ worker = "final"
    /\ ix' = zsv_index_commit_rows(ix)
    /\ WorkerSets(TRUE, TRUE)
    /\ to_free' = IF status = default_status THEN status ELSE to_free
    /\ worker' = "free"
    /\ UNCHANGED <<input, file, worker_cancelled, status, default_status, placeholder, heap,
                   bad_free, message, view>>
\* default_status may have been freed since, and its address used again
TransformFinal ==
    /\ worker = "final"
    /\ ix' = zsv_index_commit_rows(ix)
    /\ WorkerSets(TRUE, TRUE)
    /\ IF status = default_status
       THEN to_free' = status /\ status' = Null /\ placeholder' = FALSE
       ELSE UNCHANGED <<to_free, status, placeholder>>
    /\ worker' = "free"
    /\ UNCHANGED <<input, file, worker_cancelled, default_status, heap, bad_free, message, view>>
-----------------------------------------------------------------------------
(* The UI thread's main loop *)

\* zsvsheet_ui_buffer_set_status(), by any key handler; the flag stays set
SetStatusKeepsFlag ==
    /\ ui = "loop"
    /\ \E s \in Addr : ReplaceStatus(status, s)
    /\ message' = (kind = "file")
    /\ ui' = "poll"
    /\ UNCHANGED <<input, file, ix, flags, worker_cancelled, default_status, placeholder, to_free,
                   view, worker, loaded>>
\* zsvsheet_ui_buffer_set_status(), by any key handler
SetStatus ==
    /\ ui = "loop"
    /\ \E s \in Addr : ReplaceStatus(status, s)
    /\ placeholder' = FALSE /\ message' = (kind = "file")
    /\ ui' = "poll"
    /\ UNCHANGED <<input, file, ix, flags, worker_cancelled, default_status, to_free, view,
                   worker, loaded>>

input_offset_centered(count, target) ==
    LET half == BuffRows \div 2
    IN  IF count <= BuffRows \/ target <= half THEN 0
        ELSE IF target + half > count THEN count - BuffRows
        ELSE target - half

\* is this row outside the part of the input that the screen buffer holds
OutsideBuffer(row) == row < input_offset + 1 \/ row + 2 > input_offset + BuffRows

\* zsvsheet_goto_input_raw_row(), for a key that moves the cursor so far that the
\* target, or the last row to be displayed below it, is not in the screen buffer
GotoRow ==
    /\ ui = "loop"
    /\ \E target \in 1..row_count-1 :
          /\ \E last \in target..row_count : OutsideBuffer(last)
          /\ input_offset' = input_offset_centered(row_count, target)
    /\ update_buffer' = TRUE
    /\ ui' = "poll"
    /\ UNCHANGED <<input, file, ix, flags, worker_cancelled, string, row_count, buff_used_rows,
                   shown, worker, loaded>>

\* getch() times out every 0.2 s
Timeout ==
    /\ ui = "loop" /\ ui' = "poll"
    /\ UNCHANGED <<input, file, ix, flags, worker_cancelled, string, view, worker, loaded>>

\* zsvsheet_check_buffer_worker_updates()
Poll ==
    /\ ui = "poll"
    /\ IF index_ready /\ row_count # ix.row_count + 1
       THEN row_count' = ix.row_count + 1 /\ update_buffer' = TRUE
       ELSE UNCHANGED <<row_count, update_buffer>>
    /\ ui' = IF update_buffer' THEN "read" ELSE "loop"
    /\ UNCHANGED <<input, file, ix, flags, worker_cancelled, string, buff_used_rows, input_offset,
                   shown, worker, loaded>>

\* the row at which read_data() starts to fill the screen buffer
ReadFrom(start) ==
    IF index_ready THEN zsv_index_seek_row(ix, start) ELSE start + 1
\* rows it reads from there
LastRead(row) ==
    LET there == {r \in row..total-1 : RowInFile(r)}
    IN  Smaller(row + Cardinality(there) - 1, row + BuffRows - 2)

\* read_data() of the buffer at input_offset
Read ==
    LET from      == ReadFrom(input_offset)
        first     == IF index_ready THEN FirstData(from) ELSE from
        rows_read == LastRead(first) - first + 2
    IN
    /\ ui = "read" /\ ui' = "loop" /\ update_buffer' = FALSE
    /\ IF from = -1
       THEN /\ shown' = [start |-> input_offset, first |-> 0, last |-> 0,
                         indexed |-> TRUE, ok |-> FALSE]
            /\ UNCHANGED <<row_count, buff_used_rows>>
       ELSE /\ shown' = [start |-> input_offset, first |-> first, last |-> LastRead(first),
                         indexed |-> index_ready, ok |-> TRUE]
            /\ IF rows_read > buff_used_rows
               THEN row_count' = rows_read /\ buff_used_rows' = rows_read
               ELSE UNCHANGED <<row_count, buff_used_rows>>
    /\ UNCHANGED <<input, file, ix, flags, worker_cancelled, string, input_offset, worker, loaded>>

\* without waiting for the worker
CloseNoJoin ==
    /\ ui = "loop"
    /\ worker_cancelled' = worker_active
    /\ ui' = "delete"
    /\ UNCHANGED <<input, file, ix, flags, string, view, worker, loaded>>
\* zsvsheet_ui_buffer_delete(): cancel the worker and wait for it
Close ==
    /\ ui = "loop"
    /\ worker_cancelled' = worker_active
    /\ ui' = IF worker_active THEN "join" ELSE "delete"
    /\ UNCHANGED <<input, file, ix, flags, string, view, worker, loaded>>

\* zsvsheet_ui_buffer_join_worker()
JoinWorker ==
    /\ ui = "join" /\ worker = "exit"
    /\ worker_active' = FALSE /\ ui' = "delete"
    /\ UNCHANGED <<input, file, ix, index_ready, index_started, write_done, worker_cancelled,
                   string, view, worker, loaded>>

Delete ==
    /\ ui = "delete"
    /\ bad_free' = (bad_free \/ BadFree(heap, status)) /\ heap' = Freed(heap, status)
    /\ ui' = "closed"
    /\ UNCHANGED <<input, file, ix, flags, worker_cancelled, status, default_status, placeholder,
                   to_free, message, view, worker, loaded>>

Closed == ui = "closed" /\ worker \in {"none", "exit"} /\ UNCHANGED vars
-----------------------------------------------------------------------------
Init ==
    /\ atomic_flags \in FlagStores /\ kind \in Kinds /\ total \in 1..MaxRows
    /\ blank \in {b \in BlankSets : b \subseteq 1..total-1}
    /\ terminated \in IF kind = "file" THEN BOOLEAN ELSE {TRUE}
    /\ has_on_done \in IF kind = "file" THEN {FALSE} ELSE BOOLEAN
    /\ nrows = IF kind = "file" THEN total ELSE 0
    /\ out = IF kind = "file" THEN total * RowLen - (IF terminated THEN 0 ELSE 1) ELSE 0
    /\ flushed = out
    /\ writer_wrote = FALSE
    /\ ix = NewIndex
    /\ index_ready = FALSE /\ index_started = FALSE /\ write_done = FALSE
    /\ worker_active = FALSE /\ worker_cancelled = FALSE
    /\ placeholder = FALSE /\ status = Null /\ default_status = Null /\ to_free = Null
    /\ heap = {} /\ bad_free = FALSE /\ message = FALSE
    /\ row_count = 0 /\ buff_used_rows = 0 /\ input_offset = 0 /\ update_buffer = FALSE
    /\ shown = [start |-> 0, first |-> 1, last |-> 0, indexed |-> FALSE, ok |-> TRUE]
    /\ ui = IF kind = "file" THEN "open" ELSE "fill"
    /\ worker = "none"
    /\ loaded = <<FALSE, FALSE>>

UiOpens == FillRow \/ FillWrote \/ FillEnd \/ OpenFile \/ OpenTransformation \/ OpenCompleted
           \/ CreateWorker \/ CreateFails \/ MarkActive \/ MarkLoad \/ MarkStore
UiRuns  == Poll \/ Read \/ JoinWorker \/ Delete
User    == SetStatus \/ GotoRow \/ Close
Worker  == IndexFails \/ IndexRow \/ IndexCommit \/ IndexEnd \/ IndexFinish \/ IndexRestore
           \/ TransformRow \/ TransformCommit \/ TransformEnd \/ OnDone \/ FreeOld
           \/ TransformDelete \/ TransformFinal \/ WorkerFree

Next == UiOpens \/ UiRuns \/ User \/ Timeout \/ Worker \/ Closed

\* Each thread goes on while it can.  Nobody need press a key, but getch()
\* returns without one.
Fairness == WF_vars(UiOpens) /\ WF_vars(UiRuns) /\ WF_vars(Timeout) /\ WF_vars(Worker)

Spec == Init /\ [][Next]_vars /\ Fairness
-----------------------------------------------------------------------------
(* Properties *)

Closing == ui \in {"join", "delete", "closed"}
WorkerGone == worker \in {"none", "exit"}

\* The state is what the declarations of struct zsvsheet_ui_buffer and struct
\* zsv_index say; in particular no row offset is below zero, and (the assertion
\* in zsv_index_row_end_offset()) no more rows are committed than were added.
TypeOK ==
    /\ atomic_flags \in FlagStores
    /\ kind \in Kinds /\ total \in 1..MaxRows /\ blank \subseteq 1..total-1
    /\ terminated \in BOOLEAN /\ has_on_done \in BOOLEAN
    /\ nrows \in 0..total /\ out \in Nat /\ flushed \in 0..out /\ writer_wrote \in BOOLEAN
    /\ ix.header_line_end \in Nat /\ ix.row_count_local \in 0..total-1
    /\ ix.row_count \in 0..ix.row_count_local /\ ix.u64s \in Seq(Nat)
    /\ {index_ready, index_started, write_done, worker_active, worker_cancelled,
        placeholder, update_buffer, bad_free, message} \subseteq BOOLEAN
    /\ {status, default_status, to_free} \subseteq Addr \cup {Null} /\ heap \subseteq Addr
    /\ row_count \in 0..total /\ buff_used_rows \in 0..BuffRows /\ input_offset \in 0..total-1
    /\ shown.start \in Nat /\ shown.first \in 0..total /\ shown.last \in -1..total-1
    /\ shown.indexed \in BOOLEAN /\ shown.ok \in BOOLEAN
    /\ ui \in {"fill", "open", "opendone", "create", "mark", "store", "loop", "poll", "read",
               "join", "delete", "closed"}
    /\ worker \in {"none", "index", "finish", "restore", "parse", "done", "freeold", "delete",
                   "final", "free", "exit"}
    /\ loaded \in BOOLEAN \X BOOLEAN

\* Whichever of set_status(), on_done(), the index worker and the closing of
\* the buffer gets to a status string first: each string is freed once and
\* only once, and the one on display has not been.  (If the stores to the flags
\* are atomic: see FlagsOnlyRise.)
StatusFreedOnce == atomic_flags =>
    /\ ~bad_free
    /\ status # Null /\ ui # "closed" => status \in heap
    /\ ui = "closed" /\ WorkerGone => heap = {}

\* Closing a buffer waits for its worker: no worker runs on with a buffer that
\* zsvsheet_ui_buffer_delete() has freed.  (If worker_active cannot get lost.)
NoWorkerAfterDelete == atomic_flags /\ ui \in {"delete", "closed"} => WorkerGone

\* A status that a key handler sets while the index is being built is not taken
\* for the worker's placeholder, and is still there when the worker is done.
MessageOutlivesIndexing == [][kind = "file" /\ message => message']_vars

\* When a buffer is not busy (the test in zsvsheet_push_transformation()), its
\* file has all that will ever be in it: a transformation that starts now reads
\* whole rows and all rows.
NotBusyMeansComplete ==
    index_started /\ (kind = "transformation" => write_done)
        => flushed = out /\ (kind = "transformation" => out = nrows * RowLen)

\* A read through the index shows the row after its start row first, though the
\* index was built or is being built by another thread and only knows every
\* RowN-th line end; unless a parser is started at a blank row, which it skips.
IndexShowsTheRow ==
    shown.ok /\ shown.indexed
    /\ shown.start + 1 \notin blank /\ (shown.start \div RowN) * RowN + 1 \notin blank
        => shown.first = shown.start + 1

\* A seek fails only on a file that is still being written, to a row that is
\* committed to the index and still in the writer's buffer (or on blank rows).
SettledReadsSucceed ==
    [][ui = "read" /\ ui' # "read" /\ blank = {} /\ (kind = "file" \/ write_done) => shown'.ok]_vars

\* Once the worker is done, the row count that the cursor is bounded by comes
\* to be, and stays, the number of rows of the file; a read that only knows the
\* rows it has read sets it back for no longer than until the next poll.
RowCountSettles ==
    atomic_flags => <>[](Closing \/ row_count = nrows \/ (WorkerGone /\ ~index_ready))

\* zsvsheet_buffer_info_internal(): the properties that background threads update
\* "only ever transition from false to true".
FlagsOnlyRise ==
    [][(index_ready => index_ready') /\ (write_done => write_done')
       /\ (index_started => index_started')]_vars
=============================================================================
