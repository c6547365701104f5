----------------------------- MODULE Overwrites -----------------------------
(***************************************************************************)
(* app/overwrite.c and app/utils/overwrite_writer.c: the table of a data   *)
(* file's overwritten cells, a SQLite table with one row per cell.  SQLite *)
(* is external: a table, and a copy of it while a transaction is open.     *)
(***************************************************************************)
EXTENDS Process, Functions

CONSTANTS
    OvwCells,    \* cell positions <<row, column>>, <<0, 0>> among them
    OvwValues,   \* values, the empty one left out
    OvwBulk,     \* bulk files: sequences of [at, value, old], at = <<>> where the
                 \* row or the column is blank
    OvwLetters,  \* letters of the alphabet, 26 in the code
    OvwCommands  \* how many commands are run

\* Rows and columns are numbered from 0; a bulk file is a sequence of rows; an
\* alphabet has two letters or more.
ASSUME OvwAssumption ==
    /\ <<0, 0>> \in OvwCells /\ \A c \in OvwCells : c \in Nat \X Nat
    /\ \A rows \in OvwBulk :
         /\ Len(rows) \in Nat /\ DOMAIN rows = 1..Len(rows)
         /\ \A k \in DOMAIN rows : rows[k].at = <<>> \/ rows[k].at \in OvwCells
    /\ OvwLetters \in Nat \ {0, 1} /\ OvwCommands \in Nat

OvwNothing == [c \in {} |-> 0]

OvwIdle(left) == [pc |-> "idle", op |-> "none", rows |-> <<>>, force |-> FALSE, next |-> 1,
                  tx |-> FALSE, work |-> OvwNothing, failed |-> {}, err |-> FALSE,
                  left |-> left, before |-> OvwNothing]

OverwriteInit ==
    /\ cmd = "overwrite" /\ out = <<>> /\ disk = OvwNothing
    /\ st = OvwIdle(OvwCommands)

\* The tables of OvwCells that hold v.
HoldsValue(table, v) == \E c \in DOMAIN table : table[c] = v

\* zsv_overwrite_writer_add: the unique index refuses a second entry for the
\* cell unless forced; with an old value the entry is made only if some entry
\* of the table has that value.
AddFails(table, row, force) == ~force /\ row.old = Blank /\ row.at \in DOMAIN table

Added(table, row, force) ==
    IF ~force /\ row.old # Blank /\ ~HoldsValue(table, row.old) THEN table
    ELSE [c \in DOMAIN table \cup {row.at} |-> IF c = row.at THEN row.value ELSE table[c]]

\* zsv_overwrite_writer_remove: an entry that is not there, or has another
\* value than the one expected, is left alone without an error.
Removed(table, row) ==
    IF row.at \in DOMAIN table /\ (row.old = Blank \/ table[row.at] = row.old)
    THEN Restrict(table, DOMAIN table \ {row.at}) ELSE table

Effect(op, table, row, force) ==
    IF op = "add" THEN Added(table, row, force) ELSE Removed(table, row)

Fails(op, table, row, force) == op = "add" /\ AddFails(table, row, force)

OvwEntry == [at : OvwCells, value : OvwValues, old : OvwValues \cup {Blank}]

\* add or remove of one cell: one statement, its own transaction.
OverwriteOne ==
    /\ st.pc = "idle" /\ st.left > 0
    /\ \E op \in {"add", "remove"}, row \in OvwEntry, force \in BOOLEAN :
         LET fails == Fails(op, disk, row, force)
         IN  /\ disk' = IF fails THEN disk ELSE Effect(op, disk, row, force)
             /\ st' = [OvwIdle(st.left - 1) EXCEPT !.op = op, !.rows = <<row>>, !.err = fails,
                                                   !.before = disk]
    /\ UNCHANGED <<cmd, out>>

\* clear, and remove --all, which deletes the file as well.
OverwriteClear ==
    /\ st.pc = "idle" /\ st.left > 0
    /\ disk' = OvwNothing
    /\ st' = [OvwIdle(st.left - 1) EXCEPT !.op = "clear", !.before = disk]
    /\ UNCHANGED <<cmd, out>>

\* list: zsv_next_overwrite_sqlite3 in the order of the query.
CellLess(a, b) == a[1] < b[1] \/ (a[1] = b[1] /\ a[2] < b[2])

\* The cells in that order: the place of a cell is the number of those up to it.
PlaceOf(cells, c) == Cardinality({b \in cells : b = c \/ CellLess(b, c)})

InOrder(cells) ==
    [k \in 1..Cardinality(cells) |-> CHOOSE c \in cells : PlaceOf(cells, c) = k]

\* row_col_to_a1: the letters of the n-th column (numbers 0..), last digit last.
A1Letters[n \in Nat \ {0}] ==
    LET m == n - 1
    IN  IF m \div OvwLetters = 0 THEN <<m % OvwLetters>>
        ELSE Append(A1Letters[m \div OvwLetters], m % OvwLetters)

A1Address(cell) == [letters |-> A1Letters[cell[2] + 1], digits |-> cell[1] + 1]

\* Mutant: a letter counts from 0 in every place.
ParseXlFromZero(a) ==
    <<a.digits - 1, FoldLeft(LAMBDA col, c : col * OvwLetters + c, 0, a.letters)>>

\* parse_xl_address
ParseXlAddress(a) ==
    LET col[k \in 0..Len(a.letters)] ==
          IF k = 0 THEN 0 ELSE col[k-1] * OvwLetters + a.letters[k] + 1
    IN  <<a.digits - 1, col[Len(a.letters)] - 1>>

\* show_all_overwrites: a line for every cell of the table.
Listing(table) ==
    LET cells == InOrder(DOMAIN table)
    IN  [k \in 1..Cardinality(DOMAIN table) |->
           [at |-> A1Address(cells[k]), value |-> table[cells[k]]]]

OverwriteList ==
    /\ st.pc = "idle" /\ st.left > 0
    /\ out' = Listing(disk)
    /\ st' = [OvwIdle(st.left - 1) EXCEPT !.op = "list", !.before = disk]
    /\ UNCHANGED <<cmd, disk>>

\* Mutant: the rows are not enclosed in a transaction.
OverwriteBulkNoBegin ==
    /\ st.pc = "idle" /\ st.left > 0
    /\ \E op \in {"add", "remove"}, rows \in OvwBulk, force \in BOOLEAN :
         st' = [OvwIdle(st.left - 1) EXCEPT !.pc = "bulk", !.op = op, !.rows = rows,
                  !.force = force, !.before = disk]
    /\ UNCHANGED <<cmd, out, disk>>

\* zsv_overwrite_writer_bulk: one transaction around all the rows of the file.
OverwriteBulk ==
    /\ st.pc = "idle" /\ st.left > 0
    /\ \E op \in {"add", "remove"}, rows \in OvwBulk, force \in BOOLEAN :
         st' = [OvwIdle(st.left - 1) EXCEPT !.pc = "bulk", !.op = op, !.rows = rows,
                  !.force = force, !.tx = TRUE, !.work = disk, !.before = disk]
    /\ UNCHANGED <<cmd, out, disk>>

\* zsv_next_overwrite_csv: a row whose position is blank stands for cell 0-0
\* with an empty value and no old value.
BulkRow(row) == IF row.at # <<>> THEN row ELSE [at |-> <<0, 0>>, value |-> Blank, old |-> Blank]

\* Before any row has had a value there is nothing to add: such a row is passed over.
NoValueYet(op, rows, k) == op = "add" /\ \A j \in 1..k : rows[j].at = <<>>

\* One row: where it fails the transaction is rolled back and the loop goes on,
\* from then on each row by itself.
OverwriteBulkRow ==
    /\ st.pc = "bulk" /\ st.next <= Len(st.rows)
    /\ LET row == BulkRow(st.rows[st.next])
           table == IF st.tx THEN st.work ELSE disk
           empty == NoValueYet(st.op, st.rows, st.next)
           fails == ~empty /\ Fails(st.op, table, row, st.force)
           new == IF empty THEN table ELSE Effect(st.op, table, row, st.force)
       IN  /\ st' = [st EXCEPT !.next = @ + 1,
                               !.tx = @ /\ ~fails,
                               !.work = IF st.tx /\ ~fails THEN new ELSE OvwNothing,
                               !.failed = IF fails THEN @ \cup {st.next} ELSE @]
           /\ disk' = IF st.tx \/ fails THEN disk ELSE new
    /\ UNCHANGED <<cmd, out>>

\* COMMIT, which fails where no transaction is left; the exit code is 0.
OverwriteBulkEnd ==
    /\ st.pc = "bulk" /\ st.next > Len(st.rows)
    /\ disk' = IF st.tx THEN st.work ELSE disk
    /\ st' = [st EXCEPT !.pc = "idle", !.tx = FALSE, !.work = OvwNothing]
    /\ UNCHANGED <<cmd, out>>

\* The process is killed in a bulk change: an open transaction is gone.
OverwriteCrash ==
    /\ st.pc = "bulk"
    /\ st' = [st EXCEPT !.pc = "idle", !.err = TRUE, !.tx = FALSE, !.work = OvwNothing]
    /\ UNCHANGED <<cmd, out, disk>>

OverwriteDone ==
    /\ st.pc = "idle" /\ st.left = 0
    /\ st' = [st EXCEPT !.pc = "done"]
    /\ UNCHANGED <<cmd, out, disk>>

OverwriteNext ==
    /\ cmd = "overwrite"
    /\ \/ OverwriteOne \/ OverwriteClear \/ OverwriteList \/ OverwriteBulk
       \/ OverwriteBulkRow \/ OverwriteBulkEnd \/ OverwriteCrash \/ OverwriteDone

\* overwrite alone, as often as it is run.
OverwriteSpec == OverwriteInit /\ [][OverwriteNext \/ Finished]_procVars

-----------------------------------------------------------------------------

\* The effect of the first n rows of a bulk change when none of them fails.
Applied(op, rows, force, table, n) ==
    LET upTo[k \in 0..Len(rows)] ==
          IF k = 0 THEN table
          ELSE IF NoValueYet(op, rows, k) THEN upTo[k-1]
          ELSE Effect(op, upTo[k-1], BulkRow(rows[k]), force)
    IN  upTo[n]

\* A bulk change is all or nothing, killed or not, as long as SQLite takes
\* every row; a row it refuses undoes the rows before it for good, and none of
\* these comes back (overwrite_writer.c:211-234).
BulkIsAtomicUntilARowFails ==
    cmd = "overwrite" /\ Len(st.rows) > 1 =>
        IF st.failed = {}
        THEN \/ disk = st.before
             \/ disk = Applied(st.op, st.rows, st.force, st.before, Len(st.rows))
        ELSE \A k \in 1..(Min(st.failed) - 1) :
               LET at == BulkRow(st.rows[k]).at
               IN  (\A j \in Min(st.failed)..Len(st.rows) : BulkRow(st.rows[j]).at # at) =>
                   (at \in DOMAIN disk <=> at \in DOMAIN st.before)
                     /\ (at \in DOMAIN disk => disk[at] = st.before[at])

\* What list --A1 prints can be given back to add --force: every address leads
\* to the cell it was printed for, and no two lines name the same cell.
ListedAddressesLeadBack ==
    cmd = "overwrite" /\ st.op = "list" =>
        /\ {ParseXlAddress(out[k].at) : k \in DOMAIN out} = DOMAIN disk
        /\ \A k \in DOMAIN out : disk[ParseXlAddress(out[k].at)] = out[k].value
        /\ Len(out) = Cardinality(DOMAIN disk)
=============================================================================
