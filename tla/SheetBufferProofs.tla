-------------------------- MODULE SheetBufferProofs --------------------------
(***************************************************************************)
(* For files of any size, any index granularity, any screen buffer and any *)
(* heap: a buffer is never freed under its worker, and every status string *)
(* is freed exactly once; a buffer that is not busy has all of its file;   *)
(* and a read through the row index shows the row it was asked for.        *)
(***************************************************************************)
EXTENDS SheetBuffer, CommonLemmas, FiniteSetTheorems

\* A worker that runs is known to the UI thread by the time it may close the
\* buffer: this is what makes Close wait.
JoinInv ==
    /\ ui # "store"
    /\ ui \in {"fill", "open", "opendone", "create"} => worker = "none"
    /\ ui \in {"loop", "poll", "read"} => worker_active \/ WorkerGone
    /\ ui \in {"delete", "closed"} => WorkerGone

\* The live strings are the status and the one a worker is about to free, and
\* these are not the same string.
StringInv ==
    /\ ~bad_free
    /\ ui \in {"fill", "open", "opendone"} => status = Null
    /\ heap = IF ui = "closed" THEN {} ELSE {status, to_free} \ {Null}
    /\ to_free # Null => to_free # status /\ worker \in {"free", "freeold"}

SheetInv == atomic_flags => JoinInv /\ StringInv

\* Every buffer starts without a worker and without a string.
LEMMA SheetInvInit == Init => SheetInv
BY DEF Init, SheetInv, JoinInv, StringInv, WorkerGone, Null

\* Opening: no worker runs before CreateWorker, and the first status replaces none.
LEMMA OpensKeepInv == SheetInv /\ UiOpens => SheetInv'
<1> SUFFICES ASSUME SheetInv, UiOpens, atomic_flags' PROVE (JoinInv /\ StringInv)'
  BY DEF SheetInv
<1> USE SheetAssumption DEF SheetInv, JoinInv, StringInv, WorkerGone, Null
<1>1. CASE FillRow
  BY <1>1 DEF FillRow, input, string, flags
<1>2. CASE FillWrote
  BY <1>2 DEF FillWrote, input, string, flags
<1>3. CASE FillEnd
  BY <1>3 DEF FillEnd, input, string, flags
<1>4. CASE OpenFile
  BY <1>4 DEF OpenFile, ReplaceStatus, Freed, BadFree, input
<1>5. CASE OpenTransformation
  BY <1>5 DEF OpenTransformation, ReplaceStatus, Freed, BadFree, input
<1>6. CASE OpenCompleted
  BY <1>6 DEF OpenCompleted, CompleteHere, ReplaceStatus, Freed, BadFree, input
<1>7. CASE CreateWorker
  BY <1>7 DEF CreateWorker, input, string, flags
<1>8. CASE CreateFails
  BY <1>8 DEF CreateFails, CompleteHere, ReplaceStatus, Freed, BadFree, input
<1>9. CASE MarkActive
  BY <1>9 DEF MarkActive, input, string
<1>10. CASE MarkLoad
  BY <1>10 DEF MarkLoad, input
<1>11. CASE MarkStore
  BY <1>11 DEF MarkStore, input
<1> QED
  BY <1>1, <1>2, <1>3, <1>4, <1>5, <1>6, <1>7, <1>8, <1>9, <1>10, <1>11, UiOpens DEF UiOpens

\* The main loop: a key handler may replace the status under a running worker,
\* and the buffer is only deleted behind the join.
LEMMA LoopKeepsInv == SheetInv /\ (UiRuns \/ User \/ Timeout \/ Closed) => SheetInv'
<1> SUFFICES ASSUME SheetInv, UiRuns \/ User \/ Timeout \/ Closed, atomic_flags'
             PROVE (JoinInv /\ StringInv)'
  BY DEF SheetInv
<1> USE SheetAssumption DEF SheetInv, JoinInv, StringInv, WorkerGone, Null
<1>1. CASE Poll
  BY <1>1 DEF Poll, input, string, flags
<1>2. CASE Read
  BY <1>2 DEF Read, input, string, flags
<1>3. CASE JoinWorker
  BY <1>3 DEF JoinWorker, input, string
<1>4. CASE Delete
  BY <1>4 DEF Delete, Freed, BadFree, input, flags
<1>5. CASE SetStatus
  BY <1>5 DEF SetStatus, ReplaceStatus, Freed, BadFree, input, flags
<1>6. CASE GotoRow
  BY <1>6 DEF GotoRow, input, string, flags
<1>7. CASE Close
  BY <1>7 DEF Close, input, string, flags
<1>8. CASE Timeout
  BY <1>8 DEF Timeout, input, string, flags
<1>9. CASE Closed
  BY <1>9 DEF Closed, vars, input, string, flags
<1> QED
  BY <1>1, <1>2, <1>3, <1>4, <1>5, <1>6, <1>7, <1>8, <1>9 DEF UiRuns, User

\* The workers: each takes the status over before it frees it.
LEMMA WorkerKeepsInv == SheetInv /\ Worker => SheetInv'
<1> SUFFICES ASSUME SheetInv, Worker, atomic_flags' PROVE (JoinInv /\ StringInv)'
  BY DEF SheetInv
<1> USE SheetAssumption DEF SheetInv, JoinInv, StringInv, WorkerGone, Null
<1>1. CASE IndexFails
  BY <1>1 DEF IndexFails, input, string, flags
<1>2. CASE IndexRow
  BY <1>2 DEF IndexRow, input, string, flags
<1>3. CASE IndexCommit
  BY <1>3 DEF IndexCommit, WorkerSets, input, string
<1>4. CASE IndexEnd
  BY <1>4 DEF IndexEnd, input, string, flags
<1>5. CASE IndexFinish
  BY <1>5 DEF IndexFinish, WorkerSets, input, string
<1>6. CASE IndexRestore
  BY <1>6 DEF IndexRestore, input, flags
<1>7. CASE TransformRow
  BY <1>7 DEF TransformRow, input, string, flags
<1>8. CASE TransformCommit
  BY <1>8 DEF TransformCommit, WorkerSets, input, string, flags
<1>9. CASE TransformEnd
  BY <1>9 DEF TransformEnd, input, string, flags
<1>10. CASE OnDone
  BY <1>10 DEF OnDone, input, flags
<1>11. CASE FreeOld
  BY <1>11 DEF FreeOld, Freed, BadFree, input, flags
<1>12. CASE TransformDelete
  BY <1>12 DEF TransformDelete, input, string, flags
<1>13. CASE TransformFinal
  BY <1>13 DEF TransformFinal, WorkerSets, input
<1>14. CASE WorkerFree
  BY <1>14 DEF WorkerFree, Freed, BadFree, input, flags
<1> QED
  BY <1>1, <1>2, <1>3, <1>4, <1>5, <1>6, <1>7, <1>8, <1>9, <1>10, <1>11, <1>12, <1>13, <1>14
  DEF Worker

\* The invariant that carries both results holds in every state.
THEOREM SheetInvHolds == Spec => []SheetInv
<1>1. SheetInv /\ UNCHANGED vars => SheetInv'
  BY DEF SheetInv, JoinInv, StringInv, WorkerGone, vars, input, string, flags
<1>2. SheetInv /\ [Next]_vars => SheetInv'
  BY <1>1, OpensKeepInv, LoopKeepsInv, WorkerKeepsInv DEF Next
<1> QED
  BY <1>2, SheetInvInit, PTL DEF Spec

\* zsvsheet_ui_buffer_delete() frees a buffer only when its worker is gone.
THEOREM DeleteIsSafe == Spec => []NoWorkerAfterDelete
<1>1. SheetInv => NoWorkerAfterDelete
  BY DEF SheetInv, JoinInv, NoWorkerAfterDelete
<1> QED
  BY <1>1, SheetInvHolds, PTL

\* Whoever frees a status string is the only one to free it, and none is left.
THEOREM StatusIsFreedOnce == Spec => []StatusFreedOnce
<1>1. SheetInv => StatusFreedOnce
  BY DEF SheetInv, StringInv, StatusFreedOnce
<1> QED
  BY <1>1, SheetInvHolds, PTL


-----------------------------------------------------------------------------
(* The file and its index *)

Opening == ui \in {"fill", "open", "opendone", "create"}

\* The writer of a transformation has been deleted: nothing will be added to
\* its output.
Complete == worker \in {"final", "free", "exit"} \/ (worker = "none" /\ ~Opening)

\* Which threads there are, by the kind of the buffer.
ControlInv ==
    /\ ui \in {"fill", "open", "opendone", "create", "mark", "store", "loop", "poll", "read",
               "join", "delete", "closed"}
    /\ worker \in {"none", "free", "exit"} \cup
         (IF kind = "file" THEN {"index", "finish", "restore"}
          ELSE {"parse", "done", "freeold", "delete", "final"})
    /\ kind = "file" => ui \notin {"fill", "opendone"}
    /\ Opening => worker = "none"
    /\ ui \in {"mark", "store"} => worker # "none"

\* What the caller of the buffer has given it.
InputInv ==
    /\ atomic_flags \in FlagStores
    /\ kind \in Kinds /\ total \in 1..MaxRows /\ blank \subseteq 1..total-1
    /\ terminated \in BOOLEAN /\ has_on_done \in BOOLEAN

\* The output of a transformation is whole rows, but for the newline of the
\* last one until the writer is deleted.
FileInv ==
    /\ nrows \in 0..total /\ out \in Nat /\ flushed \in 0..out /\ writer_wrote \in BOOLEAN
    /\ kind = "file" =>
         nrows = total /\ flushed = out /\ out = total * RowLen - (IF terminated THEN 0 ELSE 1)
    /\ kind = "transformation" =>
         /\ out = IF Complete THEN nrows * RowLen ELSE IF nrows = 0 THEN 0 ELSE nrows * RowLen - 1
         /\ Complete => flushed = out
         /\ ui # "fill" \/ writer_wrote => nrows > 0
         /\ write_done \/ loaded[2] => Complete

FlagInv ==
    /\ index_ready \in BOOLEAN /\ index_started \in BOOLEAN /\ write_done \in BOOLEAN
    /\ worker_active \in BOOLEAN /\ worker_cancelled \in BOOLEAN /\ update_buffer \in BOOLEAN
    /\ loaded \in BOOLEAN \X BOOLEAN
    /\ placeholder \in BOOLEAN /\ bad_free \in BOOLEAN /\ message \in BOOLEAN
    /\ status \in Addr \cup {Null} /\ default_status \in Addr \cup {Null}
    /\ to_free \in Addr \cup {Null} /\ heap \subseteq Addr

\* The line end of row n as an index has it: the offset of its newline; of a
\* row that nothing ended, its start; of the last row that a writer has
\* written, the offset behind it.  Of these only the first is a newline.
IsLineEnd(v, n) == v \in {LineEnd(n), n * RowLen, (n + 1) * RowLen}

\* An index of rows, the header one of them: entry k is for row k * RowN.
RowsOf(i) == IF i.header_line_end = 0 THEN 0 ELSE i.row_count_local + 1
IndexOK(i) ==
    /\ i = [header_line_end |-> i.header_line_end, row_count |-> i.row_count,
            row_count_local |-> i.row_count_local, u64s |-> i.u64s]
    /\ IsLineEnd(i.header_line_end, 0)
    /\ i.row_count_local \in Nat /\ i.row_count \in 0..i.row_count_local
    /\ i.header_line_end = 0 => i.row_count_local = 0
    /\ i.u64s \in Seq(Nat) /\ Len(i.u64s) = i.row_count_local \div RowN
    /\ \A k \in 1..Len(i.u64s) : IsLineEnd(i.u64s[k], k * RowN)

\* The index has every row of the file once, and no other.
IndexInv ==
    /\ IndexOK(ix)
    /\ RowsOf(ix) <= total
    /\ kind = "transformation" =>
         RowsOf(ix) = IF Complete THEN nrows ELSE IF nrows = 0 THEN 0 ELSE nrows - 1

ViewInv ==
    /\ row_count \in 0..total /\ buff_used_rows \in 0..BuffRows /\ input_offset \in 0..total-1
    /\ shown = [start |-> shown.start, first |-> shown.first, last |-> shown.last,
                indexed |-> shown.indexed, ok |-> shown.ok]
    /\ shown.start \in Nat /\ shown.first \in 0..total /\ shown.last \in -1..total-1
    /\ shown.indexed \in BOOLEAN /\ shown.ok \in BOOLEAN
    /\ IndexShowsTheRow

BufferInv == InputInv /\ ControlInv /\ FileInv /\ FlagInv /\ IndexInv /\ ViewInv

\* Division with remainder, by the number of rows between index entries.
LEMMA Division ==
    ASSUME NEW a \in Nat, NEW b \in Nat, b > 0
    PROVE  a \div b \in Nat /\ a % b \in 0..b-1 /\ a = (a \div b) * b + (a % b)
<1>1. a \div b \in Nat
  OBVIOUS
<1>2. a % b \in 0..b-1
  OBVIOUS
<1>3. a = (a \div b) * b + (a % b)
  OBVIOUS
<1> QED
  BY <1>1, <1>2, <1>3

\* The quotient grows by one at each multiple and nowhere else.
LEMMA NextQuotient ==
    ASSUME NEW a \in Nat, NEW b \in Nat, b > 0
    PROVE  (a + 1) \div b = IF (a + 1) % b = 0 THEN a \div b + 1 ELSE a \div b
<1> DEFINE q == a \div b  p == (a + 1) \div b  r == a % b  s == (a + 1) % b
<1>1. q \in Nat /\ r \in 0..b-1 /\ a = q * b + r
  BY Division
<1>2. p \in Nat /\ s \in 0..b-1 /\ a + 1 = p * b + s
  BY Division
<1> SUFFICES p = IF s = 0 THEN q + 1 ELSE q
  OBVIOUS
<1> HIDE DEF q, p, r, s
<1>3. p * b + s = q * b + r + 1
  BY <1>1, <1>2
<1>4. CASE r + 1 < b
  <2>1. p = q /\ s = r + 1
    BY <1>1, <1>2, <1>3, <1>4
  <2> QED
    BY <1>1, <2>1
<1>5. CASE r + 1 = b
  <2>1. (q + 1) * b = q * b + b
    BY <1>1
  <2>2. p * b + s = (q + 1) * b
    BY <1>1, <1>2, <1>3, <1>5, <2>1
  <2>3. p = q + 1 /\ s = 0
    BY <1>1, <1>2, <2>2
  <2> QED
    BY <2>3
<1> QED
  BY <1>1, <1>4, <1>5

\* Adding the line end of the next row adds a row.
LEMMA AddRowOK ==
    ASSUME NEW i, IndexOK(i), NEW e \in Nat, IsLineEnd(e, RowsOf(i))
    PROVE  LET n == zsv_index_add_row(i, e)
           IN  /\ IndexOK(n) /\ n.row_count = i.row_count
               /\ RowsOf(n) = (IF i.header_line_end = 0 /\ e = 0 THEN 0 ELSE RowsOf(i) + 1)
<1> DEFINE n == zsv_index_add_row(i, e)
           c == i.row_count_local
<1>1. CASE i.header_line_end = 0
  <2>1. n = [i EXCEPT !.header_line_end = e]
    BY <1>1 DEF zsv_index_add_row
  <2> HIDE DEF n
  <2>2. /\ n = [header_line_end |-> n.header_line_end, row_count |-> n.row_count,
                row_count_local |-> n.row_count_local, u64s |-> n.u64s]
        /\ n.header_line_end = e /\ n.row_count = i.row_count /\ n.row_count_local = c
        /\ n.u64s = i.u64s
    BY <2>1 DEF IndexOK
  <2>3. IndexOK(n)
    BY <1>1, <2>2 DEF IndexOK, RowsOf
  <2> QED
    BY <1>1, <2>2, <2>3 DEF RowsOf, n, IndexOK
<1>2. CASE i.header_line_end # 0
  <2> DEFINE u == IF (c + 1) % RowN = 0 THEN Append(i.u64s, e) ELSE i.u64s
             m == [i EXCEPT !.row_count_local = c + 1]
  <2>1. n = [m EXCEPT !.u64s = u]
    BY <1>2 DEF zsv_index_add_row
  <2>2. /\ m = [header_line_end |-> m.header_line_end, row_count |-> m.row_count,
                row_count_local |-> m.row_count_local, u64s |-> m.u64s]
        /\ m.header_line_end = i.header_line_end /\ m.row_count = i.row_count
        /\ m.row_count_local = c + 1
    BY DEF IndexOK
  <2> HIDE DEF n, u, m
  <2>3. /\ n = [header_line_end |-> n.header_line_end, row_count |-> n.row_count,
                row_count_local |-> n.row_count_local, u64s |-> n.u64s]
        /\ n.header_line_end = i.header_line_end /\ n.row_count = i.row_count
        /\ n.row_count_local = c + 1 /\ n.u64s = u
    BY <2>1, <2>2
  <2>4. c \in Nat /\ i.u64s \in Seq(Nat) /\ Len(i.u64s) = c \div RowN
        /\ \A k \in 1..Len(i.u64s) : IsLineEnd(i.u64s[k], k * RowN)
    BY DEF IndexOK
  <2>5. u \in Seq(Nat) /\ Len(u) = (c + 1) \div RowN
        /\ \A k \in 1..Len(u) : IsLineEnd(u[k], k * RowN)
    <3> HIDE DEF c
    <3>1. CASE (c + 1) % RowN = 0
      <4>1. u = Append(i.u64s, e)
        BY <3>1 DEF u
      <4>2. Len(u) = Len(i.u64s) + 1 /\ u \in Seq(Nat) /\ Len(i.u64s) \in Nat
        BY <2>4, <4>1
      <4>3. Len(u) = (c + 1) \div RowN
        BY <2>4, <3>1, <4>2, NextQuotient, SizeAssumption
      <4>4. Len(u) * RowN = c + 1
        <5>1. c + 1 = ((c + 1) \div RowN) * RowN + ((c + 1) % RowN)
          BY <2>4, Division, SizeAssumption
        <5>3. c + 1 \in Nat
          BY <2>4
        <5>2. ((c + 1) \div RowN) \in Nat
          BY <5>3, Division, SizeAssumption
        <5> QED
          BY <3>1, <4>3, <5>1, <5>2, SizeAssumption
      <4>5. IsLineEnd(e, Len(u) * RowN)
        BY <1>2, <4>4 DEF RowsOf, c
      <4>6. \A k \in 1..Len(u) : IsLineEnd(u[k], k * RowN)
        <5> SUFFICES ASSUME NEW k \in 1..Len(u) PROVE IsLineEnd(u[k], k * RowN)
          OBVIOUS
        <5>1. CASE k \in 1..Len(i.u64s)
          <6>1. u[k] = i.u64s[k]
            BY <2>4, <4>1, <5>1
          <6> QED
            BY <2>4, <5>1, <6>1
        <5>2. CASE k = Len(u)
          <6>1. u[k] = e
            BY <2>4, <4>1, <4>2, <5>2
          <6> QED
            BY <4>5, <5>2, <6>1
        <5> QED
          BY <4>2, <5>1, <5>2
      <4> QED
        BY <4>2, <4>3, <4>6
    <3>2. CASE (c + 1) % RowN # 0
      <4>1. u = i.u64s
        BY <3>2 DEF u
      <4> QED
        BY <2>4, <3>2, <4>1, NextQuotient, SizeAssumption
    <3> QED
      BY <3>1, <3>2
  <2>6. IndexOK(n)
    <3>1. n.row_count_local \in Nat /\ n.row_count \in 0..n.row_count_local
      BY <2>3, <2>4 DEF IndexOK
    <3>2. n.header_line_end # 0 /\ IsLineEnd(n.header_line_end, 0)
      BY <1>2, <2>3 DEF IndexOK
    <3> QED
      BY <2>3, <2>5, <3>1, <3>2 DEF IndexOK
  <2> QED
    BY <1>2, <2>3, <2>4, <2>6 DEF RowsOf, n
<1> QED
  BY <1>1, <1>2

\* Committing the rows adds none.
LEMMA CommitOK ==
    ASSUME NEW i, IndexOK(i)
    PROVE  LET n == zsv_index_commit_rows(i)
           IN  IndexOK(n) /\ RowsOf(n) = RowsOf(i) /\ n.row_count = i.row_count_local
<1> DEFINE n == zsv_index_commit_rows(i)
<1>1. /\ n = [header_line_end |-> n.header_line_end, row_count |-> n.row_count,
              row_count_local |-> n.row_count_local, u64s |-> n.u64s]
      /\ n.header_line_end = i.header_line_end /\ n.row_count = i.row_count_local
      /\ n.row_count_local = i.row_count_local /\ n.u64s = i.u64s
  BY DEF IndexOK, zsv_index_commit_rows
<1> HIDE DEF n
<1> QED
  BY <1>1 DEF IndexOK, RowsOf, n

\* Writing a row of a transformation adds the line end of the row before it.
LEMMA WriteRowIndexed ==
    ASSUME InputInv, FileInv, IndexInv, WriteRow, kind = "transformation", ~Complete
    PROVE  IndexOK(ix') /\ RowsOf(ix') = nrows
<1> USE SizeAssumption
<1>1. /\ IndexOK(ix) /\ nrows \in Nat /\ RowsOf(ix) = (IF nrows = 0 THEN 0 ELSE nrows - 1)
      /\ out = (IF nrows = 0 THEN 0 ELSE nrows * RowLen - 1)
  BY DEF IndexInv, FileInv, InputInv
<1>2. CASE nrows = 0
  BY <1>1, <1>2 DEF WriteRow
<1>3. CASE nrows # 0
  <2>1. ix' = zsv_index_add_row(ix, out)
    BY <1>3 DEF WriteRow
  <2>2. out = LineEnd(nrows - 1)
    <3>1. (nrows - 1) * RowLen = nrows * RowLen - RowLen
      BY <1>1
    <3> QED
      BY <1>1, <1>3, <3>1 DEF LineEnd
  <2>3. out \in Nat /\ out # 0
    BY <1>1, <1>3, <2>2 DEF LineEnd, FileInv
  <2>4. IsLineEnd(out, RowsOf(ix))
    BY <1>1, <1>3, <2>2 DEF IsLineEnd
  <2> QED
    BY <1>1, <1>3, <2>1, <2>3, <2>4, AddRowOK
<1> QED
  BY <1>2, <1>3

\* Deleting the writer adds the offset behind the last row.
LEMMA LastRowIndexed ==
    ASSUME InputInv, FileInv, IndexInv, kind = "transformation", ~Complete, nrows > 0
    PROVE  IndexOK(LastRowAdded) /\ RowsOf(LastRowAdded) = nrows
<1> USE SizeAssumption
<1>1. /\ IndexOK(ix) /\ nrows \in Nat /\ RowsOf(ix) = nrows - 1 /\ out = nrows * RowLen - 1
  BY DEF IndexInv, FileInv, InputInv
<1>2. out + 1 \in Nat /\ out + 1 # 0
  BY <1>1 DEF FileInv
<1>3. IsLineEnd(out + 1, RowsOf(ix))
  BY <1>1 DEF IsLineEnd
<1> QED
  BY <1>1, <1>2, <1>3, AddRowOK DEF LastRowAdded

\* zsv_finish() adds the row that nothing ended, or the row at which the scan
\* was cancelled.
LEMMA FinishedIndexOK ==
    ASSUME InputInv, FileInv, IndexInv, NEW i \in FinishedIndex
    PROVE  IndexOK(i) /\ RowsOf(i) <= total
<1> DEFINE e == Indexed * RowLen
           added == zsv_index_add_row(ix, e)
<1> USE SizeAssumption
<1>1. /\ IndexOK(ix) /\ Indexed = RowsOf(ix) /\ RowsOf(ix) \in Nat
      /\ RowsOf(ix) <= total /\ total \in Nat
  BY DEF IndexInv, Indexed, RowsOf, IndexOK, InputInv
<1>2. i = ix \/ (i = added /\ Indexed # total)
  BY DEF FinishedIndex
<1>3. CASE i = added /\ Indexed # total
  <2>1. e \in Nat /\ IsLineEnd(e, RowsOf(ix))
    BY <1>1 DEF IsLineEnd
  <2> HIDE DEF e
  <2>2. IndexOK(added) /\ RowsOf(added) <= RowsOf(ix) + 1 /\ RowsOf(added) \in Nat
    BY <1>1, <2>1, AddRowOK
  <2> HIDE DEF added
  <2> QED
    BY <1>1, <1>3, <2>2
<1> QED
  BY <1>1, <1>2, <1>3

\* What is committed are rows of the file behind the header.
LEMMA CommittedRows ==
    ASSUME InputInv, IndexInv
    PROVE  ix.row_count \in 0..total-1 /\ ix.row_count <= ix.row_count_local
BY DEF InputInv, IndexInv, IndexOK, RowsOf

\* As many rows as there are from one of them on.
LEMMA RowsFrom ==
    ASSUME NEW n \in Nat, NEW k \in 0..n, NEW S, S \subseteq k..n-1
    PROVE  Cardinality(S) \in 0..n-k
<1>1. k \in Int /\ n - 1 \in Int
  OBVIOUS
<1>2. IsFiniteSet(k..n-1) /\ Cardinality(k..n-1) = IF k > n - 1 THEN 0 ELSE n - 1 - k + 1
  BY <1>1, FS_Interval, Z3
<1>3. Cardinality(S) <= Cardinality(k..n-1) /\ Cardinality(S) \in Nat
  BY <1>2, FS_Subset, FS_CardinalityType
<1> QED
  BY <1>2, <1>3

\* read_data() of an opened buffer.
LEMMA FirstReadView == InputInv /\ ViewInv /\ FirstRead /\ UNCHANGED input => ViewInv'
<1> USE SizeAssumption
<1> SUFFICES ASSUME InputInv, FirstRead, ViewInv, UNCHANGED input
             PROVE ViewInv'
  OBVIOUS
<1> DEFINE rows_read == Smaller(RowsInFile, BuffRows)
<1>1. RowsInFile \in 0..total
  <2> DEFINE S == {r \in 0..total-1 : RowInFile(r)}
  <2>1. S \subseteq 0..total-1 /\ total \in Nat
    BY DEF InputInv
  <2> HIDE DEF S
  <2>2. 0 \in 0..total
    BY <2>1
  <2>3. Cardinality(S) \in 0..total-0
    BY <2>1, <2>2, RowsFrom
  <2> QED
    BY <2>1, <2>3 DEF RowsInFile, S
<1>2. rows_read \in 0..total /\ rows_read \in 0..BuffRows
  BY <1>1 DEF Smaller, InputInv
<1>3. /\ row_count' = rows_read /\ buff_used_rows' = rows_read
      /\ shown' = [start |-> 0, first |-> 1, last |-> rows_read - 1, indexed |-> FALSE, ok |-> TRUE]
      /\ input_offset' = input_offset
  BY DEF FirstRead
<1> HIDE DEF rows_read
<1> QED
  BY <1>2, <1>3 DEF ViewInv, IndexShowsTheRow, InputInv, input

\* There is data in the last row, so that a parser started at any row finds a
\* first row, the row itself unless that is blank.
LEMMA FirstDataRow ==
    ASSUME InputInv, NEW row \in 1..total
    PROVE  FirstData(row) \in row..total /\ (row \notin blank => FirstData(row) = row)
<1> DEFINE S == {r \in row..total : r \notin blank}
           Good(r) == r \notin blank /\ \A q \in row..r-1 : q \in blank
<1>1. total \in Nat /\ total \in S /\ S \subseteq Nat
  BY SizeAssumption DEF InputInv
<1>2. PICK m \in S : \A y \in S : m <= y
  BY <1>1, LeastNatural
<1>3. m \in row..total /\ Good(m)
  BY <1>1, <1>2
<1>4. FirstData(row) = CHOOSE r \in row..total : Good(r)
  BY DEF FirstData
<1>5. FirstData(row) \in row..total /\ Good(FirstData(row))
  BY <1>3, <1>4
<1>6. ASSUME row \notin blank PROVE FirstData(row) = row
  <2>1. row \in row..FirstData(row)-1 => row \in blank
    BY <1>5
  <2> QED
    BY <1>1, <1>5, <1>6, <2>1
<1> QED
  BY <1>5, <1>6

\* No byte lies behind the last row.
LEMMA FlushedBound ==
    ASSUME InputInv, FileInv, kind \in {"file", "transformation"}
    PROVE  flushed <= total * RowLen /\ flushed \in Nat /\ total \in Nat
<1> USE SizeAssumption
<1>1. total \in Nat /\ nrows \in 0..total /\ out \in Nat /\ flushed \in 0..out
  BY DEF InputInv, FileInv
<1>2. total * RowLen \in Nat /\ nrows * RowLen \in Nat
  BY <1>1
<1>3. CASE kind = "file"
  BY <1>1, <1>2, <1>3 DEF FileInv
<1>4. CASE kind = "transformation"
  <2>1. out <= nrows * RowLen
    BY <1>1, <1>2, <1>4 DEF FileInv
  <2>2. nrows * RowLen <= total * RowLen
    BY <1>1
  <2> QED
    BY <1>1, <1>2, <2>1, <2>2
<1> QED
  BY <1>3, <1>4

\* Of the offsets an index may hold for a row only the end of the row has a
\* newline; the parser that starts behind it starts at the next row.
LEMMA NewlineRow ==
    ASSUME InputInv, FileInv, NEW n \in Nat, NEW v, IsLineEnd(v, n), NewlineAt(v)
    PROVE  v = LineEnd(n) /\ n < total /\ (v + 1) \div RowLen = n + 1
<1> USE SizeAssumption
<1>1. n * RowLen \in Nat /\ (n + 1) * RowLen = n * RowLen + RowLen
  OBVIOUS
<1>2. v \in Nat /\ v < flushed /\ v % RowLen = RowLen - 1
  BY <1>1 DEF IsLineEnd, LineEnd, NewlineAt
<1>3. v = (v \div RowLen) * RowLen + RowLen - 1 /\ v \div RowLen \in Nat
  BY <1>2, Division
<1>4. v # n * RowLen /\ v # (n + 1) * RowLen
  <2> DEFINE d == v \div RowLen
  <2>1. d \in Nat /\ v = d * RowLen + RowLen - 1
    BY <1>3
  <2> HIDE DEF d
  <2>2. ASSUME NEW p \in Nat PROVE v # p * RowLen
    <3>1. CASE p <= d
      <4>1. p * RowLen <= d * RowLen
        BY <2>1, <3>1
      <4> QED
        BY <2>1, <4>1
    <3>2. CASE p >= d + 1
      <4>1. p * RowLen >= (d + 1) * RowLen /\ (d + 1) * RowLen = d * RowLen + RowLen
        BY <2>1, <3>2
      <4> QED
        BY <2>1, <4>1
    <3> QED
      BY <2>1, <3>1, <3>2
  <2>3. n \in Nat /\ n + 1 \in Nat
    OBVIOUS
  <2> QED
    BY <2>2, <2>3
<1>5. v = LineEnd(n)
  BY <1>4 DEF IsLineEnd
<1>6. v + 1 = (n + 1) * RowLen
  BY <1>1, <1>5 DEF LineEnd
<1>7. (v + 1) \div RowLen = n + 1
  BY <1>6
<1>8. n < total
  <2>1. kind \in {"file", "transformation"}
    BY SheetAssumption DEF InputInv
  <2>2. (n + 1) * RowLen <= total * RowLen /\ total \in Nat
    BY <1>2, <1>6, <2>1, FlushedBound
  <2> QED
    BY <2>2
<1> QED
  BY <1>5, <1>7, <1>8

\* zsv_index_seek_row() fails or leaves the stream at a row of the file; at
\* the row after the one asked for if the parsers it starts skip no blank row.
LEMMA SeekRow ==
    ASSUME InputInv, FileInv, IndexInv, NEW row \in 0..total-1, zsv_index_seek_row(ix, row) # -1
    PROVE  /\ zsv_index_seek_row(ix, row) \in 1..total
           /\ (row \div RowN) * RowN + 1 \notin blank => zsv_index_seek_row(ix, row) = row + 1
<1> USE SizeAssumption
<1> DEFINE q == row \div RowN
           rem == row % RowN
           base == BaseOffset(ix, row)
           from == (base + 1) \div RowLen
           last == FirstData(from) + rem - 1
           s == zsv_index_seek_row(ix, row)
<1>1. q \in Nat /\ rem \in 0..RowN-1 /\ row = q * RowN + rem /\ row \in Nat /\ total \in Nat
  BY Division DEF InputInv
<1>2. RemainingRows(row) = rem
  <2>1. row < RowN => rem = row
    BY <1>1
  <2> QED
    BY <2>1 DEF RemainingRows
<1>3. row <= ix.row_count /\ NewlineAt(base)
  <2>1. ix.row_count \in Int
    BY DEF IndexInv, IndexOK
  <2>2. ~(row > ix.row_count) /\ NewlineAt(base)
    BY DEF zsv_index_seek_row
  <2> QED
    BY <1>1, <2>1, <2>2
<1>4. s = IF rem = 0 THEN from ELSE IF EndInFile(last) THEN last + 1 ELSE -1
  BY <1>2, <1>3 DEF zsv_index_seek_row
<1> HIDE DEF q, rem, s
<1>5. IsLineEnd(base, q * RowN)
  <2>1. CASE row < RowN
    <3>1. q = 0
      BY <1>1, <2>1
    <3> QED
      BY <2>1, <3>1 DEF BaseOffset, IndexInv, IndexOK
  <2>2. CASE row >= RowN
    <3>1. base = ix.u64s[q]
      BY <1>1, <2>2 DEF BaseOffset, q
    <3>2. ix.row_count_local \in Nat /\ row <= ix.row_count_local
      BY <1>1, <1>3 DEF IndexInv, IndexOK
    <3> DEFINE L == ix.row_count_local \div RowN
               t == ix.row_count_local % RowN
    <3>3. L \in Nat /\ t \in 0..RowN-1 /\ ix.row_count_local = L * RowN + t
      BY <3>2, Division
    <3> HIDE DEF L, t
    <3>4. q * RowN + rem <= L * RowN + t
      BY <1>1, <3>2, <3>3
    <3>5. q <= L
      BY <1>1, <3>3, <3>4
    <3>6. q >= 1
      BY <1>1, <2>2
    <3>7. q \in 1..L
      BY <1>1, <3>3, <3>5, <3>6
    <3> QED
      BY <3>1, <3>7 DEF IndexInv, IndexOK, L
  <2> QED
    BY <1>1, <2>1, <2>2
<1>6. q * RowN \in Nat
  BY <1>1
<1>7. from = q * RowN + 1 /\ q * RowN < total
  BY <1>3, <1>5, <1>6, NewlineRow
<1> HIDE DEF base, from
<1>8. from \in 1..total /\ FirstData(from) \in from..total
      /\ (from \notin blank => FirstData(from) = from)
  BY <1>1, <1>6, <1>7, FirstDataRow
<1>9. CASE rem = 0
  BY <1>1, <1>4, <1>7, <1>8, <1>9 DEF s, q
<1>10. CASE rem # 0
  <2>1. EndInFile(last) /\ s = last + 1
    BY <1>4, <1>10 DEF s
  <2>2. last \in Nat
    BY <1>1, <1>8, <1>10
  <2> HIDE DEF last
  <2>3. NewlineAt(LineEnd(last))
    BY <2>1 DEF EndInFile, LineEnd
  <2>4. last < total
    BY <2>2, <2>3, NewlineRow DEF IsLineEnd
  <2>5. from \notin blank => s = row + 1
    BY <1>1, <1>7, <1>8, <2>1 DEF last
  <2> QED
    BY <1>1, <1>7, <2>1, <2>2, <2>4, <2>5 DEF s, q
<1> QED
  BY <1>9, <1>10

\* read_data() of the buffer shows rows of the file, from the one asked for on.
LEMMA ReadView ==
    ASSUME InputInv, FileInv, FlagInv, IndexInv, ViewInv, Read
    PROVE  ViewInv'
<1> USE SizeAssumption
<1> DEFINE row == input_offset
           from == ReadFrom(row)
           first == IF index_ready THEN FirstData(from) ELSE from
           there == {r \in first..total-1 : RowInFile(r)}
           last == LastRead(first)
           rows_read == last - first + 2
<1>1. row \in 0..total-1 /\ total \in Nat
  BY DEF ViewInv, InputInv
<1>2. UNCHANGED input /\ input_offset' = input_offset
  BY DEF Read
<1>3. CASE from = -1
  <2>1. /\ shown' = [start |-> row, first |-> 0, last |-> 0, indexed |-> TRUE, ok |-> FALSE]
        /\ UNCHANGED <<row_count, buff_used_rows>>
    BY <1>3 DEF Read
  <2> QED
    BY <1>1, <1>2, <2>1 DEF ViewInv, IndexShowsTheRow, input
<1>4. CASE from # -1
  <2>1. /\ shown' = [start |-> row, first |-> first, last |-> last,
                     indexed |-> index_ready, ok |-> TRUE]
        /\ \/ row_count' = rows_read /\ buff_used_rows' = rows_read
           \/ UNCHANGED <<row_count, buff_used_rows>>
    BY <1>4 DEF Read
  <2>2. /\ from \in 1..total
        /\ index_ready /\ (row \div RowN) * RowN + 1 \notin blank => from = row + 1
    <3>1. CASE index_ready
      BY <1>1, <1>4, <3>1, SeekRow DEF ReadFrom
    <3>2. CASE ~index_ready
      BY <1>1, <3>2 DEF ReadFrom
    <3> QED
      BY <3>1, <3>2
  <2> HIDE DEF from
  <2>3. /\ first \in 1..total
        /\ index_ready /\ row + 1 \notin blank /\ (row \div RowN) * RowN + 1 \notin blank
           => first = row + 1
    BY <1>1, <2>2, FirstDataRow
  <2>4. last \in first-1..total-1 /\ last <= first + BuffRows - 2
    <3> HIDE DEF first
    <3>1. there \subseteq first..total-1 /\ first \in 0..total
      BY <1>1, <2>3
    <3> HIDE DEF there
    <3>2. Cardinality(there) \in 0..total-first
      BY <1>1, <3>1, RowsFrom
    <3>3. last = Smaller(first + Cardinality(there) - 1, first + BuffRows - 2)
      BY DEF LastRead, there
    <3> QED
      BY <1>1, <2>3, <3>2, <3>3 DEF Smaller
  <2> HIDE DEF first, last
  <2>5. rows_read \in 0..total /\ rows_read \in 0..BuffRows
    BY <1>1, <2>3, <2>4
  <2> HIDE DEF rows_read
  <2>6. /\ row_count' \in 0..total' /\ buff_used_rows' \in 0..BuffRows
        /\ input_offset' \in 0..total'-1
    BY <1>1, <1>2, <2>1, <2>5 DEF ViewInv, input
  <2>7. index_ready \in BOOLEAN
    BY DEF FlagInv
  <2>8. /\ shown'.start = row /\ shown'.first = first /\ shown'.last = last
        /\ shown'.indexed = index_ready /\ shown'.ok = TRUE
        /\ shown' = [start |-> shown'.start, first |-> shown'.first, last |-> shown'.last,
                indexed |-> shown'.indexed, ok |-> shown'.ok]
    BY <2>1
  <2>9. shown'.start \in Nat /\ shown'.first \in 0..total' /\ shown'.last \in -1..total'-1
    BY <1>1, <1>2, <2>3, <2>4, <2>8 DEF input
  <2>10. shown'.indexed \in BOOLEAN /\ shown'.ok \in BOOLEAN
    BY <2>7, <2>8
  <2>11. IndexShowsTheRow'
    BY <1>2, <2>3, <2>8 DEF IndexShowsTheRow, input
  <2> QED
    BY <2>6, <2>8, <2>9, <2>10, <2>11 DEF ViewInv
<1> QED
  BY <1>3, <1>4

\* A string that takes the place of the status is one of the addresses.
LEMMA ReplacedStatus ==
    ASSUME FlagInv, NEW old, NEW s \in Addr \cup {Null}, ReplaceStatus(old, s)
    PROVE  status' \in Addr \cup {Null} /\ heap' \subseteq Addr /\ bad_free' \in BOOLEAN
<1>1. status' = s /\ heap' = (heap \ {old}) \cup ({s} \ {Null})
  BY DEF ReplaceStatus, Freed
<1>2. bad_free' \in BOOLEAN
  BY DEF ReplaceStatus
<1> QED
  BY <1>1, <1>2 DEF FlagInv

\* Opening: the first rows of a transformation are written and read, or it is
\* completed here if no worker takes it over.
LEMMA OpensKeepBuffer == BufferInv /\ UiOpens => BufferInv'
<1> SUFFICES ASSUME BufferInv, UiOpens PROVE BufferInv'
  OBVIOUS
<1> USE SizeAssumption, SheetAssumption
<1>1. CASE FillRow
  <2>1. InputInv' /\ ControlInv'
    BY <1>1 DEF BufferInv, InputInv, ControlInv, Opening, FillRow, input
  <2>2. FileInv'
    BY <1>1 DEF BufferInv, InputInv, ControlInv, FileInv, Opening, Complete, FillRow,
         WriteRow, WriterAt, input, flags
  <2>3. FlagInv'
    BY <1>1 DEF BufferInv, FlagInv, FillRow, WriteRow, WriterAt, flags, string, view
  <2>4. IndexInv'
    <3>1. kind = "transformation" /\ ~Complete /\ ~Complete' /\ WriteRow
      BY <1>1 DEF BufferInv, InputInv, ControlInv, Complete, Opening, FillRow
    <3>2. IndexOK(ix') /\ RowsOf(ix') = nrows /\ nrows' = nrows + 1
      BY <3>1, WriteRowIndexed DEF BufferInv, WriteRow
    <3> QED
      BY <1>1, <3>1, <3>2
        DEF BufferInv, InputInv, IndexInv, FileInv, FillRow, WriteRow, input
  <2>5. ViewInv'
    BY <1>1 DEF BufferInv, ViewInv, IndexShowsTheRow, FillRow, input, view
  <2> QED
    BY <2>1, <2>2, <2>3, <2>4, <2>5 DEF BufferInv
<1>2. CASE FillWrote
  <2>1. InputInv' /\ ControlInv'
    BY <1>2 DEF BufferInv, InputInv, ControlInv, Opening, FillWrote, input
  <2>2. FileInv'
    BY <1>2 DEF BufferInv, InputInv, ControlInv, FileInv, Opening, Complete, FillWrote,
         input, flags
  <2>3. FlagInv'
    BY <1>2 DEF BufferInv, FlagInv, FillWrote, flags, string, view
  <2>4. IndexInv'
    BY <1>2 DEF BufferInv, ControlInv, IndexInv, Opening, Complete, FillWrote, input
  <2>5. ViewInv'
    BY <1>2 DEF BufferInv, ViewInv, IndexShowsTheRow, FillWrote, input, view
  <2> QED
    BY <2>1, <2>2, <2>3, <2>4, <2>5 DEF BufferInv
<1>3. CASE FillEnd
  <2>1. InputInv' /\ ControlInv'
    BY <1>3 DEF BufferInv, InputInv, ControlInv, Opening, FillEnd, input
  <2>2. FileInv'
    <3>1. kind = "transformation" /\ ~Complete /\ ~Complete' /\ UNCHANGED input
      BY <1>3 DEF BufferInv, InputInv, ControlInv, Complete, Opening, FillEnd, input
    <3>2. nrows' = nrows /\ out' = out /\ flushed' = out /\ writer_wrote' = FALSE /\ nrows = total
          /\ write_done' = write_done /\ loaded' = loaded
      BY <1>3 DEF FillEnd, flags
    <3>3. nrows > 0 /\ nrows \in Nat /\ out \in Nat
      BY <3>2 DEF BufferInv, InputInv, FileInv
    <3>4. kind' = "transformation" /\ total' = total /\ total \in Nat
      BY <3>1, <3>3, <3>2 DEF input
    <3>5. out = nrows * RowLen - 1 /\ ~write_done /\ ~loaded[2]
      BY <3>1, <3>3 DEF BufferInv, FileInv
    <3>6. nrows' \in 0..total' /\ out' \in Nat /\ flushed' \in 0..out'
      BY <3>2, <3>3, <3>4
    <3>7. writer_wrote' \in BOOLEAN
      BY <3>2
    <3> QED
      BY <3>1, <3>2, <3>3, <3>4, <3>5, <3>6, <3>7 DEF FileInv
  <2>3. FlagInv'
    BY <1>3 DEF BufferInv, FlagInv, FillEnd, flags, string, view
  <2>4. IndexInv'
    BY <1>3 DEF BufferInv, ControlInv, IndexInv, Opening, Complete, FillEnd, input
  <2>5. ViewInv'
    BY <1>3 DEF BufferInv, ViewInv, IndexShowsTheRow, FillEnd, input, view
  <2> QED
    BY <2>1, <2>2, <2>3, <2>4, <2>5 DEF BufferInv
<1>4. CASE OpenFile
  <2>1. InputInv' /\ ControlInv'
    BY <1>4 DEF BufferInv, InputInv, ControlInv, Opening, OpenFile, input
  <2>2. FileInv'
    BY <1>4 DEF BufferInv, InputInv, ControlInv, FileInv, Opening, Complete, OpenFile,
         input, file
  <2>3. FlagInv'
    <3>1. status' \in Addr \cup {Null} /\ heap' \subseteq Addr /\ bad_free' \in BOOLEAN
      BY <1>4, ReplacedStatus DEF BufferInv, FlagInv, OpenFile
    <3> QED
      BY <1>4, <3>1 DEF BufferInv, FlagInv, FirstRead, OpenFile, ReplaceStatus
  <2>4. IndexInv'
    BY <1>4 DEF BufferInv, ControlInv, IndexInv, Opening, Complete, OpenFile, input, file
  <2>5. ViewInv'
    BY <1>4, FirstReadView DEF BufferInv, OpenFile
  <2> QED
    BY <2>1, <2>2, <2>3, <2>4, <2>5 DEF BufferInv
<1>5. CASE OpenTransformation
  <2>1. InputInv' /\ ControlInv'
    BY <1>5 DEF BufferInv, InputInv, ControlInv, Opening, OpenTransformation, input
  <2>2. FileInv'
    BY <1>5 DEF BufferInv, InputInv, ControlInv, FileInv, Opening, Complete,
         OpenTransformation, input, file
  <2>3. FlagInv'
    <3>1. status' \in Addr \cup {Null} /\ heap' \subseteq Addr /\ bad_free' \in BOOLEAN
      BY <1>5, ReplacedStatus DEF BufferInv, FlagInv, OpenTransformation
    <3> QED
      BY <1>5, <3>1 DEF BufferInv, FlagInv, FirstRead, OpenTransformation, ReplaceStatus
  <2>4. IndexInv'
    BY <1>5, CommitOK
      DEF BufferInv, InputInv, ControlInv, FileInv, IndexInv, Opening, Complete,
      input, file, OpenTransformation
  <2>5. ViewInv'
    BY <1>5, FirstReadView DEF BufferInv, OpenTransformation
  <2> QED
    BY <2>1, <2>2, <2>3, <2>4, <2>5 DEF BufferInv
<1>6. CASE OpenCompleted
  <2>1. InputInv' /\ ControlInv'
    BY <1>6 DEF BufferInv, InputInv, ControlInv, Opening, OpenCompleted, CompleteHere, input
  <2>2. FileInv'
    BY <1>6 DEF BufferInv, InputInv, ControlInv, FileInv, Opening, Complete, OpenCompleted,
         CompleteHere, Deleted, input
  <2>3. FlagInv'
    <3>1. status' \in Addr \cup {Null} /\ heap' \subseteq Addr /\ bad_free' \in BOOLEAN
      BY <1>6, ReplacedStatus DEF BufferInv, FlagInv, OpenCompleted, CompleteHere
    <3> QED
      BY <1>6, <3>1
        DEF BufferInv, FlagInv, FirstRead, OpenCompleted, ReplaceStatus, CompleteHere
  <2>4. IndexInv'
    <3>1. kind = "transformation" /\ ~Complete /\ Complete' /\ nrows > 0
      <4>1. kind = "transformation"
        BY <1>6 DEF BufferInv, InputInv, ControlInv, OpenCompleted
      <4>2. ~Complete /\ ui # "fill"
        BY <1>6 DEF BufferInv, ControlInv, Complete, Opening, OpenCompleted
      <4>3. Complete'
        BY <1>6, <4>1, <4>2
          DEF BufferInv, ControlInv, Complete, Opening, OpenCompleted, CompleteHere
      <4> QED
        BY <4>1, <4>2, <4>3 DEF BufferInv, FileInv
    <3>2. IndexOK(LastRowAdded) /\ RowsOf(LastRowAdded) = nrows
      BY <3>1, LastRowIndexed DEF BufferInv
    <3>3. ix' = zsv_index_commit_rows(LastRowAdded) /\ nrows' = nrows /\ UNCHANGED input
      BY <1>6, <3>1 DEF OpenCompleted, CompleteHere, Deleted
    <3>4. nrows \in 0..total /\ total \in Nat
      BY DEF BufferInv, InputInv, FileInv
    <3>5. IndexOK(ix') /\ RowsOf(ix') = nrows
      BY <3>2, <3>3, CommitOK
    <3> QED
      BY <3>1, <3>3, <3>4, <3>5 DEF IndexInv, input
  <2>5. ViewInv'
    BY <1>6, FirstReadView DEF BufferInv, OpenCompleted
  <2> QED
    BY <2>1, <2>2, <2>3, <2>4, <2>5 DEF BufferInv
<1>7. CASE CreateWorker
  BY <1>7 DEF BufferInv, InputInv, ControlInv, FileInv, FlagInv, IndexInv, ViewInv,
       IndexShowsTheRow, Complete, Opening, CreateWorker, input, file, flags, string, view
<1>8. CASE CreateFails
  <2>1. InputInv' /\ ControlInv'
    BY <1>8 DEF BufferInv, InputInv, ControlInv, Opening, CreateFails, CompleteHere, input
  <2>2. FileInv'
    BY <1>8 DEF BufferInv, InputInv, ControlInv, FileInv, Opening, Complete, CreateFails,
         CompleteHere, Deleted, input, file
  <2>3. FlagInv'
    BY <1>8 DEF BufferInv, FlagInv, CreateFails, CompleteHere, Deleted, ReplaceStatus,
         Freed, BadFree, view
  <2>4. IndexInv'
    <3>1. CASE kind = "file"
      BY <1>8, <3>1 DEF BufferInv, IndexInv, CreateFails, input
    <3>2. CASE kind # "file"
      <4>1. kind = "transformation" /\ ~Complete /\ Complete' /\ nrows > 0
        <5>1. kind = "transformation"
          BY <1>8, <3>2 DEF BufferInv, InputInv, ControlInv, CreateFails
        <5>2. ~Complete /\ ui # "fill"
          BY <1>8, <3>2 DEF BufferInv, ControlInv, Complete, Opening, CreateFails
        <5>3. Complete'
          BY <1>8, <3>2, <5>1, <5>2
            DEF BufferInv, ControlInv, Complete, Opening, CreateFails, CompleteHere
        <5> QED
          BY <5>1, <5>2, <5>3 DEF BufferInv, FileInv
      <4>2. IndexOK(LastRowAdded) /\ RowsOf(LastRowAdded) = nrows
        BY <4>1, LastRowIndexed DEF BufferInv
      <4>3. ix' = zsv_index_commit_rows(LastRowAdded) /\ nrows' = nrows /\ UNCHANGED input
        BY <1>8, <4>1 DEF CreateFails, CompleteHere, Deleted
      <4>4. nrows \in 0..total /\ total \in Nat
        BY DEF BufferInv, InputInv, FileInv
      <4>5. IndexOK(ix') /\ RowsOf(ix') = nrows
        BY <4>2, <4>3, CommitOK
      <4> QED
        BY <4>1, <4>3, <4>4, <4>5 DEF IndexInv, input
    <3> QED
      BY <3>1, <3>2
  <2>5. ViewInv'
    BY <1>8 DEF BufferInv, ViewInv, IndexShowsTheRow, CreateFails, input, view
  <2> QED
    BY <2>1, <2>2, <2>3, <2>4, <2>5 DEF BufferInv
<1>9. CASE MarkActive
  <2>1. InputInv' /\ ControlInv'
    BY <1>9 DEF BufferInv, InputInv, ControlInv, Opening, MarkActive, input
  <2>2. FileInv'
    BY <1>9 DEF BufferInv, InputInv, ControlInv, FileInv, Opening, Complete, MarkActive,
         input, file
  <2>3. FlagInv'
    BY <1>9 DEF BufferInv, FlagInv, MarkActive, string, view
  <2>4. IndexInv'
    BY <1>9 DEF BufferInv, ControlInv, IndexInv, Opening, Complete, MarkActive, input, file
  <2>5. ViewInv'
    BY <1>9 DEF BufferInv, ViewInv, IndexShowsTheRow, MarkActive, input, view
  <2> QED
    BY <2>1, <2>2, <2>3, <2>4, <2>5 DEF BufferInv
<1>10. CASE MarkLoad
  BY <1>10 DEF BufferInv, InputInv, ControlInv, FileInv, FlagInv, IndexInv, ViewInv,
       IndexShowsTheRow, Complete, Opening, MarkLoad, input, file, flags, string, view
<1>11. CASE MarkStore
  <2>1. InputInv' /\ ControlInv'
    BY <1>11 DEF BufferInv, InputInv, ControlInv, Opening, MarkStore, input
  <2>2. FileInv'
    BY <1>11 DEF BufferInv, InputInv, ControlInv, FileInv, Opening, Complete, MarkStore,
         input, file
  <2>3. FlagInv'
    BY <1>11 DEF BufferInv, FlagInv, MarkStore, string, view
  <2>4. IndexInv'
    BY <1>11 DEF BufferInv, ControlInv, IndexInv, Opening, Complete, MarkStore, input, file
  <2>5. ViewInv'
    BY <1>11 DEF BufferInv, ViewInv, IndexShowsTheRow, MarkStore, input, view
  <2> QED
    BY <2>1, <2>2, <2>3, <2>4, <2>5 DEF BufferInv
<1> QED
  BY <1>1, <1>2, <1>3, <1>4, <1>5, <1>6, <1>7, <1>8, <1>9, <1>10, <1>11 DEF UiOpens

\* The main loop: the cursor and what is shown stay within the rows of the file.
LEMMA LoopKeepsBuffer == BufferInv /\ (UiRuns \/ User \/ Timeout \/ Closed) => BufferInv'
<1> SUFFICES ASSUME BufferInv, UiRuns \/ User \/ Timeout \/ Closed PROVE BufferInv'
  OBVIOUS
<1> USE SizeAssumption, SheetAssumption
<1>1. CASE Poll
  <2>1. InputInv' /\ ControlInv'
    BY <1>1 DEF BufferInv, InputInv, ControlInv, Opening, Poll, input
  <2>2. FileInv'
    BY <1>1 DEF BufferInv, InputInv, ControlInv, FileInv, Opening, Complete, Poll, input,
         file, flags
  <2>3. FlagInv'
    BY <1>1 DEF BufferInv, FlagInv, Poll, flags, string
  <2>4. IndexInv'
    BY <1>1 DEF BufferInv, ControlInv, IndexInv, Opening, Complete, Poll, input, file
  <2>5. ViewInv'
    <3>1. ix.row_count \in 0..total-1 /\ total \in Nat
      BY CommittedRows DEF BufferInv, InputInv
    <3> QED
      BY <1>1, <3>1 DEF BufferInv, ViewInv, IndexShowsTheRow, input, Poll
  <2> QED
    BY <2>1, <2>2, <2>3, <2>4, <2>5 DEF BufferInv
<1>2. CASE Read
  <2>1. InputInv' /\ ControlInv'
    BY <1>2 DEF BufferInv, InputInv, ControlInv, Opening, Read, input
  <2>2. FileInv'
    BY <1>2 DEF BufferInv, InputInv, ControlInv, FileInv, Opening, Complete, Read, input,
         file, flags
  <2>3. FlagInv'
    BY <1>2 DEF BufferInv, FlagInv, Read, flags, string
  <2>4. IndexInv'
    BY <1>2 DEF BufferInv, ControlInv, IndexInv, Opening, Complete, Read, input, file
  <2>5. ViewInv'
    BY <1>2, ReadView DEF BufferInv
  <2> QED
    BY <2>1, <2>2, <2>3, <2>4, <2>5 DEF BufferInv
<1>3. CASE JoinWorker
  <2>1. InputInv' /\ ControlInv'
    BY <1>3 DEF BufferInv, InputInv, ControlInv, Opening, JoinWorker, input
  <2>2. FileInv'
    BY <1>3 DEF BufferInv, InputInv, ControlInv, FileInv, Opening, Complete, JoinWorker,
         input, file
  <2>3. FlagInv'
    BY <1>3 DEF BufferInv, FlagInv, JoinWorker, string, view
  <2>4. IndexInv'
    BY <1>3 DEF BufferInv, ControlInv, IndexInv, Opening, Complete, JoinWorker, input, file
  <2>5. ViewInv'
    BY <1>3 DEF BufferInv, ViewInv, IndexShowsTheRow, JoinWorker, input, view
  <2> QED
    BY <2>1, <2>2, <2>3, <2>4, <2>5 DEF BufferInv
<1>4. CASE Delete
  BY <1>4 DEF BufferInv, InputInv, ControlInv, FileInv, FlagInv, IndexInv, ViewInv,
       IndexShowsTheRow, Complete, Opening, Delete, input, file, flags, view, Freed, BadFree
<1>5. CASE SetStatus
  <2>1. InputInv' /\ ControlInv'
    BY <1>5 DEF BufferInv, InputInv, ControlInv, Opening, SetStatus, input
  <2>2. FileInv'
    BY <1>5 DEF BufferInv, InputInv, ControlInv, FileInv, Opening, Complete, SetStatus,
         input, file, flags
  <2>3. FlagInv'
    BY <1>5 DEF BufferInv, FlagInv, SetStatus, ReplaceStatus, Freed, BadFree, flags, view
  <2>4. IndexInv'
    BY <1>5 DEF BufferInv, ControlInv, IndexInv, Opening, Complete, SetStatus, input, file
  <2>5. ViewInv'
    BY <1>5 DEF BufferInv, ViewInv, IndexShowsTheRow, SetStatus, input, view
  <2> QED
    BY <2>1, <2>2, <2>3, <2>4, <2>5 DEF BufferInv
<1>6. CASE GotoRow
  <2>1. InputInv' /\ ControlInv'
    BY <1>6 DEF BufferInv, InputInv, ControlInv, Opening, GotoRow, input
  <2>2. FileInv'
    BY <1>6 DEF BufferInv, InputInv, ControlInv, FileInv, Opening, Complete, GotoRow,
         input, file, flags
  <2>3. FlagInv'
    BY <1>6 DEF BufferInv, FlagInv, GotoRow, flags, string
  <2>4. IndexInv'
    BY <1>6 DEF BufferInv, ControlInv, IndexInv, Opening, Complete, GotoRow, input, file
  <2>5. ViewInv'
    <3>1. PICK target \in 1..row_count-1 :
            /\ \E last \in target..row_count : OutsideBuffer(last)
            /\ input_offset' = input_offset_centered(row_count, target)
      BY <1>6 DEF GotoRow
    <3>2. row_count \in 0..total /\ total \in Nat
      BY DEF BufferInv, ViewInv, InputInv
    <3> DEFINE half == BuffRows \div 2
    <3>3. half \in Nat
      OBVIOUS
    <3> HIDE DEF half
    <3>4. input_offset' \in 0..total-1
      BY <3>1, <3>2, <3>3 DEF input_offset_centered, half
    <3> QED
      BY <1>6, <3>2, <3>4 DEF BufferInv, ViewInv, IndexShowsTheRow, input, GotoRow
  <2> QED
    BY <2>1, <2>2, <2>3, <2>4, <2>5 DEF BufferInv
<1>7. CASE Close
  BY <1>7 DEF BufferInv, InputInv, ControlInv, FileInv, FlagInv, IndexInv, ViewInv,
       IndexShowsTheRow, Complete, Opening, Close, input, file, flags, string, view
<1>8. CASE Timeout
  BY <1>8 DEF BufferInv, InputInv, ControlInv, FileInv, FlagInv, IndexInv, ViewInv,
       IndexShowsTheRow, Complete, Opening, Timeout, input, file, flags, string, view
<1>9. CASE Closed
  BY <1>9 DEF BufferInv, InputInv, ControlInv, FileInv, FlagInv, IndexInv, ViewInv,
       IndexShowsTheRow, Complete, Opening, Closed, vars, input, file, flags, string, view
<1> QED
  BY <1>1, <1>2, <1>3, <1>4, <1>5, <1>6, <1>7, <1>8, <1>9 DEF UiRuns, User

\* The workers: each row is indexed once, behind the row before it.
LEMMA WorkerKeepsBuffer == BufferInv /\ Worker => BufferInv'
<1> SUFFICES ASSUME BufferInv, Worker PROVE BufferInv'
  OBVIOUS
<1> USE SizeAssumption, SheetAssumption
<1>1. CASE IndexFails
  BY <1>1 DEF BufferInv, InputInv, ControlInv, FileInv, FlagInv, IndexInv, ViewInv,
       IndexShowsTheRow, Complete, Opening, IndexFails, input, file, flags, string, view
<1>2. CASE IndexRow
  <2>1. InputInv' /\ ControlInv'
    BY <1>2 DEF BufferInv, InputInv, ControlInv, Opening, IndexRow, input
  <2>2. FileInv'
    BY <1>2 DEF BufferInv, InputInv, ControlInv, FileInv, Opening, Complete, IndexRow,
         input, file, flags
  <2>3. FlagInv'
    BY <1>2 DEF BufferInv, FlagInv, IndexRow, flags, string, view
  <2>4. IndexInv'
    <3>1. IndexOK(ix) /\ Indexed = RowsOf(ix) /\ RowsOf(ix) \in Nat /\ total \in Nat
      BY DEF BufferInv, InputInv, IndexInv, Indexed, RowsOf, IndexOK
    <3>2. kind = "file"
      BY <1>2 DEF BufferInv, InputInv, ControlInv, IndexRow
    <3>3. Indexed < total
      BY <1>2, <3>1, <3>2 DEF IndexRow, Scanned
    <3>4. LineEnd(RowsOf(ix)) \in Nat /\ LineEnd(RowsOf(ix)) # 0
      BY <3>1 DEF LineEnd
    <3>5. ix' = zsv_index_add_row(ix, LineEnd(RowsOf(ix)))
      BY <1>2, <3>1 DEF IndexRow
    <3>6. IndexOK(ix') /\ RowsOf(ix') = RowsOf(ix) + 1
      BY <3>1, <3>4, <3>5, AddRowOK DEF IsLineEnd
    <3> QED
      BY <1>2, <3>1, <3>2, <3>3, <3>6 DEF IndexInv, IndexRow, input
  <2>5. ViewInv'
    BY <1>2 DEF BufferInv, ViewInv, IndexShowsTheRow, IndexRow, input, view
  <2> QED
    BY <2>1, <2>2, <2>3, <2>4, <2>5 DEF BufferInv
<1>3. CASE IndexCommit
  <2>1. InputInv' /\ ControlInv'
    BY <1>3 DEF BufferInv, InputInv, ControlInv, Opening, IndexCommit, WorkerSets, input
  <2>2. FileInv'
    BY <1>3 DEF BufferInv, InputInv, ControlInv, FileInv, Opening, Complete, IndexCommit,
         WorkerSets, input, file
  <2>3. FlagInv'
    BY <1>3 DEF BufferInv, FlagInv, IndexCommit, WorkerSets, string, view
  <2>4. IndexInv'
    <3>1. kind = "file"
      BY <1>3 DEF BufferInv, InputInv, ControlInv, IndexCommit
    <3> QED
      BY <1>3, <3>1, CommitOK DEF BufferInv, IndexInv, IndexCommit, input
  <2>5. ViewInv'
    BY <1>3 DEF BufferInv, ViewInv, IndexShowsTheRow, IndexCommit, input, view
  <2> QED
    BY <2>1, <2>2, <2>3, <2>4, <2>5 DEF BufferInv
<1>4. CASE IndexEnd
  BY <1>4 DEF BufferInv, InputInv, ControlInv, FileInv, FlagInv, IndexInv, ViewInv,
       IndexShowsTheRow, Complete, Opening, IndexEnd, input, file, flags, string, view
<1>5. CASE IndexFinish
  <2>1. InputInv' /\ ControlInv'
    BY <1>5 DEF BufferInv, InputInv, ControlInv, Opening, IndexFinish, WorkerSets, input
  <2>2. FileInv'
    BY <1>5 DEF BufferInv, InputInv, ControlInv, FileInv, Opening, Complete, IndexFinish,
         WorkerSets, input, file
  <2>3. FlagInv'
    BY <1>5 DEF BufferInv, FlagInv, IndexFinish, WorkerSets, string, view
  <2>4. IndexInv'
    <3>1. kind = "file"
      BY <1>5 DEF BufferInv, InputInv, ControlInv, IndexFinish
    <3>2. PICK i \in FinishedIndex : ix' = zsv_index_commit_rows(i)
      BY <1>5 DEF IndexFinish
    <3>3. IndexOK(i) /\ RowsOf(i) <= total
      BY FinishedIndexOK DEF BufferInv
    <3> QED
      BY <1>5, <3>1, <3>2, <3>3, CommitOK DEF IndexInv, IndexFinish, input
  <2>5. ViewInv'
    BY <1>5 DEF BufferInv, ViewInv, IndexShowsTheRow, IndexFinish, input, view
  <2> QED
    BY <2>1, <2>2, <2>3, <2>4, <2>5 DEF BufferInv
<1>6. CASE IndexRestore
  <2>1. InputInv' /\ ControlInv'
    BY <1>6 DEF BufferInv, InputInv, ControlInv, Opening, IndexRestore, input
  <2>2. FileInv'
    BY <1>6 DEF BufferInv, InputInv, ControlInv, FileInv, Opening, Complete, IndexRestore,
         input, file, flags
  <2>3. FlagInv'
    BY <1>6 DEF BufferInv, FlagInv, IndexRestore, flags, view
  <2>4. IndexInv'
    BY <1>6
      DEF BufferInv, ControlInv, IndexInv, Opening, Complete, IndexRestore, input, file
  <2>5. ViewInv'
    BY <1>6 DEF BufferInv, ViewInv, IndexShowsTheRow, IndexRestore, input, view
  <2> QED
    BY <2>1, <2>2, <2>3, <2>4, <2>5 DEF BufferInv
<1>7. CASE TransformRow
  <2>1. InputInv' /\ ControlInv'
    BY <1>7 DEF BufferInv, InputInv, ControlInv, Opening, TransformRow, input
  <2>2. FileInv'
    BY <1>7 DEF BufferInv, InputInv, ControlInv, FileInv, Opening, Complete, TransformRow,
         WriteRow, WriterAt, input, flags
  <2>3. FlagInv'
    BY <1>7 DEF BufferInv, FlagInv, TransformRow, WriteRow, WriterAt, flags, string, view
  <2>4. IndexInv'
    <3>1. kind = "transformation" /\ ~Complete /\ ~Complete' /\ WriteRow
      BY <1>7 DEF BufferInv, InputInv, ControlInv, Complete, Opening, TransformRow
    <3>2. IndexOK(ix') /\ RowsOf(ix') = nrows /\ nrows' = nrows + 1
      BY <3>1, WriteRowIndexed DEF BufferInv, WriteRow
    <3> QED
      BY <1>7, <3>1, <3>2
        DEF BufferInv, InputInv, IndexInv, FileInv, TransformRow, WriteRow, input
  <2>5. ViewInv'
    BY <1>7 DEF BufferInv, ViewInv, IndexShowsTheRow, TransformRow, input, view
  <2> QED
    BY <2>1, <2>2, <2>3, <2>4, <2>5 DEF BufferInv
<1>8. CASE TransformCommit
  <2>1. InputInv' /\ ControlInv'
    BY <1>8 DEF BufferInv, InputInv, ControlInv, Opening, TransformCommit, WorkerSets, input
  <2>2. FileInv'
    BY <1>8 DEF BufferInv, InputInv, ControlInv, FileInv, Opening, Complete,
         TransformCommit, WorkerSets, input, flags
  <2>3. FlagInv'
    BY <1>8 DEF BufferInv, FlagInv, TransformCommit, WorkerSets, flags, string, view
  <2>4. IndexInv'
    <3>1. Complete' = Complete
      BY <1>8
        DEF BufferInv, ControlInv, Complete, Opening, TransformCommit, WorkerSets, flags
    <3> QED
      BY <1>8, <3>1, CommitOK DEF BufferInv, IndexInv, TransformCommit, input
  <2>5. ViewInv'
    BY <1>8 DEF BufferInv, ViewInv, IndexShowsTheRow, TransformCommit, input, view
  <2> QED
    BY <2>1, <2>2, <2>3, <2>4, <2>5 DEF BufferInv
<1>9. CASE TransformEnd
  BY <1>9 DEF BufferInv, InputInv, ControlInv, FileInv, FlagInv, IndexInv, ViewInv,
       IndexShowsTheRow, Complete, Opening, TransformEnd, input, file, flags, string, view
<1>10. CASE OnDone
  <2>1. InputInv' /\ ControlInv'
    BY <1>10 DEF BufferInv, InputInv, ControlInv, Opening, OnDone, input
  <2>2. FileInv'
    BY <1>10 DEF BufferInv, InputInv, ControlInv, FileInv, Opening, Complete, OnDone,
         input, file, flags
  <2>3. FlagInv'
    BY <1>10 DEF BufferInv, FlagInv, OnDone, flags, view
  <2>4. IndexInv'
    BY <1>10 DEF BufferInv, ControlInv, IndexInv, Opening, Complete, OnDone, input, file
  <2>5. ViewInv'
    BY <1>10 DEF BufferInv, ViewInv, IndexShowsTheRow, OnDone, input, view
  <2> QED
    BY <2>1, <2>2, <2>3, <2>4, <2>5 DEF BufferInv
<1>11. CASE FreeOld
  BY <1>11 DEF BufferInv, InputInv, ControlInv, FileInv, FlagInv, IndexInv, ViewInv,
       IndexShowsTheRow, Complete, Opening, FreeOld, input, file, flags, view, Freed,
       BadFree
<1>12. CASE TransformDelete
  <2>1. InputInv' /\ ControlInv'
    BY <1>12 DEF BufferInv, InputInv, ControlInv, Opening, TransformDelete, input
  <2>2. FileInv'
    BY <1>12 DEF BufferInv, InputInv, ControlInv, FileInv, Opening, Complete,
         TransformDelete, Deleted, input, flags
  <2>3. FlagInv'
    BY <1>12 DEF BufferInv, FlagInv, TransformDelete, Deleted, flags, string, view
  <2>4. IndexInv'
    <3>1. kind = "transformation" /\ ~Complete /\ Complete' /\ nrows > 0
      <4>1. kind = "transformation"
        BY <1>12 DEF BufferInv, InputInv, ControlInv, TransformDelete
      <4>2. ~Complete /\ ui # "fill"
        BY <1>12 DEF BufferInv, ControlInv, Complete, Opening, TransformDelete
      <4>3. Complete'
        BY <1>12, <4>1, <4>2 DEF BufferInv, ControlInv, Complete, Opening, TransformDelete
      <4> QED
        BY <4>1, <4>2, <4>3 DEF BufferInv, FileInv
    <3>2. IndexOK(LastRowAdded) /\ RowsOf(LastRowAdded) = nrows
      BY <3>1, LastRowIndexed DEF BufferInv
    <3>3. ix' = LastRowAdded /\ nrows' = nrows /\ UNCHANGED input
      BY <1>12, <3>1 DEF TransformDelete, Deleted
    <3>4. nrows \in 0..total /\ total \in Nat
      BY DEF BufferInv, InputInv, FileInv
    <3>5. IndexOK(ix') /\ RowsOf(ix') = nrows
      BY <3>2, <3>3
    <3> QED
      BY <3>1, <3>3, <3>4, <3>5 DEF IndexInv, input
  <2>5. ViewInv'
    BY <1>12 DEF BufferInv, ViewInv, IndexShowsTheRow, TransformDelete, input, view
  <2> QED
    BY <2>1, <2>2, <2>3, <2>4, <2>5 DEF BufferInv
<1>13. CASE TransformFinal
  <2>1. InputInv' /\ ControlInv'
    BY <1>13 DEF BufferInv, InputInv, ControlInv, Opening, TransformFinal, WorkerSets, input
  <2>2. FileInv'
    BY <1>13 DEF BufferInv, InputInv, ControlInv, FileInv, Opening, Complete,
         TransformFinal, WorkerSets, input, file
  <2>3. FlagInv'
    BY <1>13 DEF BufferInv, FlagInv, TransformFinal, WorkerSets, view
  <2>4. IndexInv'
    <3>1. Complete' = Complete
      BY <1>13 DEF BufferInv, ControlInv, Complete, Opening, TransformFinal, WorkerSets
    <3> QED
      BY <1>13, <3>1, CommitOK DEF BufferInv, IndexInv, TransformFinal, input, file
  <2>5. ViewInv'
    BY <1>13 DEF BufferInv, ViewInv, IndexShowsTheRow, TransformFinal, input, view
  <2> QED
    BY <2>1, <2>2, <2>3, <2>4, <2>5 DEF BufferInv
<1>14. CASE WorkerFree
  BY <1>14 DEF BufferInv, InputInv, ControlInv, FileInv, FlagInv, IndexInv, ViewInv,
       IndexShowsTheRow, Complete, Opening, WorkerFree, input, file, flags, view, Freed,
       BadFree
<1> QED
  BY <1>1, <1>2, <1>3, <1>4, <1>5, <1>6, <1>7, <1>8, <1>9, <1>10, <1>11, <1>12, <1>13,
       <1>14 DEF Worker

\* A buffer that is opened has the invariant.
LEMMA BufferInvInit == Init => BufferInv
<1> SUFFICES ASSUME Init PROVE BufferInv
  OBVIOUS
<1> USE SizeAssumption, SheetAssumption
<1>1. InputInv /\ ControlInv
  BY DEF Init, InputInv, ControlInv, Opening
<1>2. FileInv
  <2>1. total * RowLen \in Nat /\ total * RowLen >= 1 /\ total \in Nat
    BY <1>1 DEF InputInv
  <2>2. CASE kind = "file"
    <3>1. out \in Nat /\ flushed = out /\ nrows = total
          /\ out = total * RowLen - (IF terminated THEN 0 ELSE 1)
      BY <2>1, <2>2 DEF Init
    <3>2. writer_wrote \in BOOLEAN
      BY DEF Init
    <3> QED
      BY <2>1, <2>2, <3>1, <3>2 DEF FileInv
  <2>3. CASE kind = "transformation"
    <3>1. nrows = 0 /\ out = 0 /\ flushed = 0 /\ ui = "fill" /\ worker = "none"
      BY <2>3 DEF Init
    <3>2. ~writer_wrote /\ writer_wrote \in BOOLEAN /\ ~write_done /\ ~loaded[2]
      BY DEF Init
    <3>3. ~Complete
      BY <3>1 DEF Complete, Opening
    <3> QED
      BY <2>1, <2>3, <3>1, <3>2, <3>3 DEF FileInv
  <2> QED
    BY <1>1, <2>2, <2>3 DEF InputInv
<1>3. FlagInv
  BY DEF Init, FlagInv
<1>4. IndexOK(NewIndex) /\ RowsOf(NewIndex) = 0
  <2>1. 0 \div RowN = 0 /\ <<>> \in Seq(Nat) /\ Len(<<>>) = 0
    OBVIOUS
  <2> QED
    BY <2>1 DEF IndexOK, NewIndex, RowsOf, IsLineEnd
<1>5. IndexInv
  BY <1>1, <1>4 DEF Init, IndexInv, InputInv, Complete, Opening
<1>6. ViewInv
  BY <1>1 DEF Init, ViewInv, InputInv, IndexShowsTheRow
<1> QED
  BY <1>1, <1>2, <1>3, <1>5, <1>6 DEF BufferInv

\* The invariant that carries the three results below holds in every state.
THEOREM BufferInvHolds == Spec => []BufferInv
<1>1. BufferInv /\ UNCHANGED vars => BufferInv'
  BY DEF BufferInv, InputInv, ControlInv, FileInv, FlagInv, IndexInv, ViewInv, IndexShowsTheRow,
         Complete, Opening, vars, input, file, flags, string, view
<1>2. BufferInv /\ [Next]_vars => BufferInv'
  BY <1>1, OpensKeepBuffer, LoopKeepsBuffer, WorkerKeepsBuffer DEF Next
<1> QED
  BY <1>2, BufferInvInit, PTL DEF Spec

\* The fields of the buffer and of its index stay in their bounds, whatever
\* the threads do: no more rows are committed than were added, no offset is
\* below zero, no count above the rows of the file.
THEOREM BufferHasItsTypes == Spec => []TypeOK
<1>1. BufferInv => TypeOK
  <2> SUFFICES ASSUME BufferInv PROVE TypeOK
    OBVIOUS
  <2> USE SizeAssumption, SheetAssumption
  <2>1. InputInv /\ ControlInv /\ FileInv /\ FlagInv /\ IndexInv /\ ViewInv
    BY DEF BufferInv
  <2>2. ix.header_line_end \in Nat /\ ix.row_count_local \in 0..total-1
    BY <2>1 DEF IndexInv, IndexOK, RowsOf, IsLineEnd, LineEnd, InputInv
  <2>3. {index_ready, index_started, write_done, worker_active, worker_cancelled,
        placeholder, update_buffer, bad_free, message} \subseteq BOOLEAN
    BY <2>1 DEF FlagInv
  <2>4. {status, default_status, to_free} \subseteq Addr \cup {Null} /\ heap \subseteq Addr
    BY <2>1 DEF FlagInv
  <2> QED
    BY <2>1, <2>2, <2>3, <2>4
      DEF TypeOK, InputInv, ControlInv, FileInv, FlagInv, IndexInv, IndexOK, ViewInv
<1> QED
  BY <1>1, BufferInvHolds, PTL

\* A buffer that is not busy has all of its file: zsvsheet_push_transformation()
\* may read it.
THEOREM NotBusyIsComplete == Spec => []NotBusyMeansComplete
<1>1. BufferInv => NotBusyMeansComplete
  BY SheetAssumption DEF BufferInv, InputInv, FileInv, NotBusyMeansComplete
<1> QED
  BY <1>1, BufferInvHolds, PTL

\* A read through the index shows the row it was asked for first, for every
\* file, granularity of the index and interleaving with the thread that builds it.
THEOREM IndexFindsTheRow == Spec => []IndexShowsTheRow
<1>1. BufferInv => IndexShowsTheRow
  BY DEF BufferInv, ViewInv
<1> QED
  BY <1>1, BufferInvHolds, PTL
=============================================================================
