------------------------------- MODULE ToDb --------------------------------
(***************************************************************************)
(* app/2db.c: a CSV or JSON input becomes a SQLite database.  The database *)
(* is built under a temporary name and takes the place of the target when  *)
(* it is complete.  SQLite is external: a table, its rows, the rows of an  *)
(* open transaction, and indexes that can be refused.                      *)
(***************************************************************************)
EXTENDS Process

CONSTANTS
    DbInputs,    \* [json, bad, header, data, rows, indexes]: inputs; a name of
                 \* the header is a sequence of words, <<>> when the cell is empty
    DbFold(_),   \* SQLite's case folding of an identifier
    DbBatch,     \* batch_size
    DbRunsMax    \* how often the command is run, crashes included

\* A JSON text has its rows in its data.
ASSUME DbAssumption ==
    /\ \A in \in DbInputs :
         /\ IsList(in.header) /\ IsList(in.rows) /\ IsList(in.indexes)
         /\ in.json \in BOOLEAN /\ in.data \in BOOLEAN /\ in.bad \in BOOLEAN
         /\ in.json /\ ~in.data => in.rows = <<>>
    /\ DbBatch \in Nat \ {0} /\ DbRunsMax \in Nat

DbNone == [rows |-> <<>>, cols |-> <<>>, table |-> FALSE, indexes |-> {},
           refused |-> {}, exists |-> FALSE]
DbEmpty == [DbNone EXCEPT !.exists = TRUE]
DbOld == [DbEmpty EXCEPT !.table = TRUE, !.cols = <<<<"old">>>>, !.rows = <<<<<<"old">>>>>>]

DbStart(in, overwrite, n) ==
    [pc |-> "new", in |-> in, overwrite |-> overwrite, runs |-> n, err |-> FALSE,
     cols |-> <<>>, header |-> TRUE, stmt |-> FALSE, tx |-> FALSE, pending |-> <<>>,
     inserted |-> 0, next |-> 1, ix |-> 1]

ToDbInit ==
    /\ cmd = "2db" /\ out = <<>>
    /\ \E in \in DbInputs, overwrite \in BOOLEAN, old \in {DbOld, DbNone} :
         /\ st = DbStart(in, overwrite, 1)
         /\ disk = [db |-> old, tmp |-> DbNone, before |-> old]

\* zsv_2db_new: an existing target needs --overwrite; what an earlier run left
\* under the temporary name is removed before the database is opened there.
ToDbNew ==
    /\ st.pc = "new"
    /\ IF disk.db.exists /\ ~st.overwrite
       THEN /\ st' = [st EXCEPT !.pc = "done", !.err = TRUE]
            /\ UNCHANGED disk
       ELSE /\ st' = [st EXCEPT !.pc = "parse"]
            /\ disk' = [disk EXCEPT !.tmp = DbEmpty]
    /\ UNCHANGED <<cmd, out>>

\* The column name of a CSV header cell: an empty cell is named after its
\* position, and a name that is taken gets the first free suffix.
ColumnName(cols, cell, i) ==
    LET base == IF cell = <<>> THEN <<"column", i>> ELSE cell
        free == {n \in 2..(Len(cols) + 2) : ~Contains(cols, Append(base, n))}
    IN  IF ~Contains(cols, base) THEN base ELSE Append(base, Min(free))

CsvColumns(header) ==
    LET cols[i \in 0..Len(header)] ==
          IF i = 0 THEN <<>> ELSE Append(cols[i-1], ColumnName(cols[i-1], header[i], i))
    IN  cols[Len(header)]

\* CREATE TABLE is refused when two columns fold to the same identifier.
CreateTableFails(cols) ==
    \E i, j \in DOMAIN cols : i # j /\ DbFold(cols[i]) = DbFold(cols[j])

\* Mutant: the result of CREATE TABLE is not looked at.
SetInsertStmtUnchecked(s) ==
    IF s.cols = <<>> THEN [s EXCEPT !.err = TRUE] ELSE [s EXCEPT !.stmt = ~CreateTableFails(s.cols)]

\* zsv_2db_set_insert_stmt: the table and the statement that fills it.
SetInsertStmt(s) ==
    IF s.cols = <<>> \/ CreateTableFails(s.cols) THEN [s EXCEPT !.err = TRUE]
    ELSE [s EXCEPT !.stmt = TRUE]

TableOf(s, db) == IF s.stmt THEN [db EXCEPT !.table = TRUE, !.cols = s.cols] ELSE db

\* zsv_2db_csv_row on the header: the table is made at once, so that a header
\* alone gives an empty table.
ToDbCsvHeader ==
    /\ st.pc = "parse" /\ st.header /\ ~st.in.json /\ st.in.header # <<>>
    /\ LET s == SetInsertStmt([st EXCEPT !.cols = CsvColumns(st.in.header), !.header = FALSE])
       IN  /\ st' = s
           /\ disk' = [disk EXCEPT !.tmp = TableOf(s, @)]
    /\ UNCHANGED <<cmd, out>>

\* json_end_map for each column, then json_start_array on the rows: a nameless
\* column or no column cancels the parse; the table waits for the first row.
ToDbJsonHeader ==
    /\ st.pc = "parse" /\ st.header /\ st.in.json /\ st.in.data
    /\ st' = IF st.in.header = <<>> \/ Contains(st.in.header, <<>>)
             THEN [st EXCEPT !.err = TRUE, !.header = FALSE]
             ELSE [st EXCEPT !.cols = st.in.header, !.header = FALSE]
    /\ UNCHANGED <<cmd, out, disk>>

\* zsv_2db_insert_row_values: cells beyond the columns are dropped and missing
\* ones are bound as the empty text.
RowValues(cols, row) == [i \in DOMAIN cols |-> IF i \in DOMAIN row THEN row[i] ELSE Blank]
HasData(cols, row) == \E i \in DOMAIN cols : RowValues(cols, row)[i] # Blank

\* COMMIT and the BEGIN after it, once per batch: the rows of the transaction
\* become rows of the table.
Committed(db, pending) == [db EXCEPT !.rows = @ \o pending]

\* zsv_2db_insert_row: a row without data is passed over.  A row that SQLite
\* does not take is reported on stderr and otherwise ignored.
ToDbRow(fails) ==
    /\ st.pc = "parse" /\ ~st.header /\ ~st.err /\ st.next <= Len(st.in.rows)
    /\ LET row == st.in.rows[st.next]
           s == [(IF st.stmt \/ ~HasData(st.cols, row) THEN st ELSE SetInsertStmt(st))
                    EXCEPT !.next = @ + 1]
           db == TableOf(s, disk.tmp)
           vals == <<RowValues(s.cols, row)>>
           full == (s.inserted + 1) % DbBatch = 0
       IN  \/ /\ ~HasData(st.cols, row) /\ ~fails
              /\ st' = s /\ UNCHANGED disk
           \/ /\ HasData(st.cols, row) /\ (fails \/ ~s.stmt)
              /\ st' = s
              /\ disk' = [disk EXCEPT !.tmp = [db EXCEPT !.refused = @ \cup {st.next}]]
           \/ /\ HasData(st.cols, row) /\ ~fails /\ s.stmt
              /\ st' = [s EXCEPT !.inserted = @ + 1,
                                 !.tx = @ \/ full,
                                 !.pending = IF ~s.tx \/ full THEN <<>> ELSE @ \o vals]
              /\ disk' = [disk EXCEPT !.tmp =
                    IF s.tx THEN (IF full THEN Committed(db, s.pending \o vals) ELSE db)
                    ELSE Committed(db, vals)]
    /\ UNCHANGED <<cmd, out>>

\* The end of the input: a syntax error of a JSON text, or an error met on the
\* way, ends the command and leaves the temporary database where it is.
ToDbInputEnd ==
    /\ st.pc = "parse"
    /\ \/ st.err
       \/ st.header /\ (IF st.in.json THEN ~st.in.data ELSE st.in.header = <<>>)
       \/ ~st.header /\ st.next > Len(st.in.rows)
    /\ st' = IF st.err \/ st.in.bad THEN [st EXCEPT !.pc = "done", !.err = TRUE]
             ELSE [st EXCEPT !.pc = "finish"]
    /\ UNCHANGED <<cmd, out, disk>>

\* zsv_2db_add_indexes, one index: SQLite refuses one without a table or
\* on an unknown column, and a unique one over equal values.
IndexFails(db, rows, ix) ==
    LET at == {c \in DOMAIN db.cols : DbFold(db.cols[c]) = DbFold(ix.on)}
    IN  \/ ~db.table \/ at = {}
        \/ ix.unique /\ \E i, j \in DOMAIN rows : i # j
                          /\ \A c \in at : rows[i][c] = rows[j][c]

ToDbAddIndex ==
    /\ st.pc = "finish" /\ st.ix <= Len(st.in.indexes)
    /\ LET ix == st.in.indexes[st.ix]
       IN  IF IndexFails(disk.tmp, disk.tmp.rows \o st.pending, ix)
           THEN /\ st' = [st EXCEPT !.pc = "done", !.err = TRUE]
                /\ UNCHANGED disk
           ELSE /\ st' = [st EXCEPT !.ix = @ + 1]
                /\ disk' = [disk EXCEPT !.tmp.indexes = @ \cup {ix}]
    /\ UNCHANGED <<cmd, out>>

\* Mutant: the rows of the last batch are never committed.
CommitLastForgotten(s, db) == db

\* zsv_2db_finish: the last transaction is committed and the database closed,
CommitLast(s, db) == Committed(db, s.pending)

ToDbClose ==
    /\ st.pc = "finish" /\ st.ix > Len(st.in.indexes)
    /\ disk' = [disk EXCEPT !.tmp = CommitLast(st, @)]
    /\ st' = [st EXCEPT !.pc = "unlink", !.tx = FALSE, !.pending = <<>>]
    /\ UNCHANGED <<cmd, out>>

\* the target is removed
ToDbUnlink ==
    /\ st.pc = "unlink"
    /\ disk' = [disk EXCEPT !.db = DbNone]
    /\ st' = [st EXCEPT !.pc = "rename"]
    /\ UNCHANGED <<cmd, out>>

\* and the temporary file renamed, which can fail.
ToDbRename ==
    /\ st.pc = "rename"
    /\ \/ /\ disk' = [disk EXCEPT !.db = disk.tmp, !.tmp = DbNone]
          /\ st' = [st EXCEPT !.pc = "done"]
       \/ /\ st' = [st EXCEPT !.pc = "done", !.err = TRUE]
          /\ UNCHANGED disk
    /\ UNCHANGED <<cmd, out>>

\* The process dies, or has ended, and the command is run again on the same
\* files.  An open transaction dies with the process.
ToDbAgain ==
    /\ st.runs < DbRunsMax /\ st.pc # "new"
    /\ \E overwrite \in BOOLEAN : st' = DbStart(st.in, overwrite, st.runs + 1)
    /\ UNCHANGED <<cmd, out, disk>>

ToDbNext ==
    /\ cmd = "2db"
    /\ \/ ToDbNew \/ ToDbCsvHeader \/ ToDbJsonHeader
       \/ \E fails \in BOOLEAN : ToDbRow(fails)
       \/ ToDbInputEnd \/ ToDbAddIndex \/ ToDbClose \/ ToDbUnlink \/ ToDbRename \/ ToDbAgain

\* 2db alone, as often as it is run.
ToDbSpec == ToDbInit /\ [][ToDbNext \/ Finished]_procVars

-----------------------------------------------------------------------------

\* The rows of an input that a table of these columns must hold, when those
\* at the places in refused were not taken.
DataRows(in, cols, refused) ==
    LET upTo[k \in 0..Len(in.rows)] ==
          IF k = 0 THEN <<>>
          ELSE IF HasData(cols, in.rows[k]) /\ k \notin refused
          THEN Append(upTo[k-1], RowValues(cols, in.rows[k])) ELSE upTo[k-1]
    IN  upTo[Len(in.rows)]

\* A database made from the input with nothing missing but the rows SQLite has
\* refused: the rows in order, every index, a column for every name.
IsWhole(in, db) ==
    /\ db.exists
    /\ db.indexes = Range(in.indexes)
    /\ db.table => Len(db.cols) = Len(in.header) /\ db.rows = DataRows(in, db.cols, db.refused)
    /\ ~db.table => \A k \in DOMAIN in.rows : ~HasData(in.header, in.rows[k])

\* The target is never a database in the making: whatever step the process
\* dies at, it is what it was before, or absent, or made from the whole input
\* (2db.c:761-784).  In the first run an old database is absent only while its
\* complete successor waits under the temporary name, so that a crash never
\* takes both.  (The run after it removes that file before it has a better one.)
TargetIsNeverPartial ==
    cmd = "2db" =>
        /\ disk.db \in {disk.before, DbNone} \/ IsWhole(st.in, disk.db)
        /\ disk.before.exists /\ ~disk.db.exists /\ st.runs = 1 => IsWhole(st.in, disk.tmp)

\* Exit status 0 means that the target has been made from the whole input.
SuccessMeansStored ==
    cmd = "2db" /\ st.pc = "done" /\ ~st.err => IsWhole(st.in, disk.db)
=============================================================================
