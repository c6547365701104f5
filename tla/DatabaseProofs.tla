---------------------------- MODULE DatabaseProofs ----------------------------
(***************************************************************************)
(* What the commands that write through SQLite promise, for every input:   *)
(*                                                                         *)
(*   - 2db: the target is never partly written, and success means that it  *)
(*     holds the table and the rows of the input (ToDb.tla);               *)
(*   - overwrite: a bulk change is one change until a row fails, and list  *)
(*     prints an address for every cell that leads back to it              *)
(*     (Overwrites.tla).                                                   *)
(***************************************************************************)
EXTENDS ToDb, Overwrites, CommonLemmas, FiniteSetTheorems

-----------------------------------------------------------------------------
(* 2db: the temporary database and the target                              *)

\* What the first k rows of an input come to, by what the first k - 1 come to.
RowsStep(in, cols, refused, h, k) ==
    IF k = 0 THEN <<>>
    ELSE IF HasData(cols, in.rows[k]) /\ k \notin refused
    THEN Append(h[k-1], RowValues(cols, in.rows[k])) ELSE h[k-1]
RowsOf(in, cols, refused) ==
    CHOOSE g : g = [k \in 0..Len(in.rows) |-> RowsStep(in, cols, refused, g, k)]

\* The rows of every prefix are defined.
LEMMA RowsDefined ==
    ASSUME NEW in, NEW cols, NEW refused, NEW size \in Nat
    PROVE  \E g : g = [k \in 0..size |-> RowsStep(in, cols, refused, g, k)]
<1> DEFINE Upto(n) == \E g : g = [k \in 0..n |-> RowsStep(in, cols, refused, g, k)]
           none == {n \in Nat : ~Upto(n)}
<1>1. Upto(0)
  <2> DEFINE g == [k \in 0..0 |-> <<>>]
  <2>1. \A k \in 0..0 : RowsStep(in, cols, refused, g, k) = <<>>
    BY DEF RowsStep
  <2>2. g = [k \in 0..0 |-> RowsStep(in, cols, refused, g, k)]
    BY <2>1, Zenon
  <2> QED BY <2>2
<1>2. ASSUME NEW n \in Nat, Upto(n) PROVE Upto(n + 1)
  <2>1. PICK g : g = [k \in 0..n |-> RowsStep(in, cols, refused, g, k)]
    BY <1>2
  <2> DEFINE h == [k \in 0..n+1 |-> IF k = n + 1 THEN RowsStep(in, cols, refused, g, k) ELSE g[k]]
  <2>2. \A k \in 0..n : h[k] = g[k]
    OBVIOUS
  <2>3. \A k \in 0..n : g[k] = RowsStep(in, cols, refused, g, k)
    BY <2>1
  <2>4. h = [k \in 0..n+1 |-> RowsStep(in, cols, refused, g, k)]
    BY <2>3
  <2> HIDE DEF h
  <2>5. ASSUME NEW k \in 0..n+1
        PROVE  RowsStep(in, cols, refused, h, k) = RowsStep(in, cols, refused, g, k)
    <3>1. k # 0 => h[k-1] = g[k-1]
      BY <2>2
    <3> QED BY <3>1, Zenon DEF RowsStep
  <2>6. h = [k \in 0..n+1 |-> RowsStep(in, cols, refused, h, k)]
    BY <2>4, <2>5, Zenon
  <2> QED BY <2>6
<1> HIDE DEF Upto
<1>3. none = {}
  <2> SUFFICES ASSUME none # {} PROVE FALSE
    OBVIOUS
  <2>1. PICK n \in none : \A m \in none : n <= m
    BY LeastNatural
  <2>2. n # 0 /\ n - 1 \in Nat
    BY <1>1
  <2>3. Upto(n - 1)
    BY <2>1, <2>2
  <2> QED BY <1>2, <2>2, <2>3
<1> QED BY <1>3 DEF Upto

\* RowsOf is what its definition says.
LEMMA RowsOfStep ==
    ASSUME NEW in, NEW cols, NEW refused, Len(in.rows) \in Nat, NEW k \in 0..Len(in.rows)
    PROVE  RowsOf(in, cols, refused)[k] = RowsStep(in, cols, refused, RowsOf(in, cols, refused), k)
<1> DEFINE R == RowsOf(in, cols, refused)
<1>1. R = [n \in 0..Len(in.rows) |-> RowsStep(in, cols, refused, R, n)]
  BY RowsDefined DEF RowsOf
<1> HIDE DEF R
<1>2. R[k] = RowsStep(in, cols, refused, R, k)
  BY <1>1
<1> QED BY <1>2 DEF R

\* The rows a table must hold are those of the whole input.
LEMMA DataRowsAreRowsOf ==
    ASSUME NEW in, NEW cols, NEW refused
    PROVE  DataRows(in, cols, refused) = RowsOf(in, cols, refused)[Len(in.rows)]
BY DEF DataRows, RowsOf, RowsStep

\* A row refused later does not change what the rows before it come to.
LEMMA RefusedLater ==
    ASSUME NEW in, NEW cols, NEW refused, Len(in.rows) \in Nat, NEW n \in 1..Len(in.rows),
           NEW later, \A k \in 1..n-1 : k \in later <=> k \in refused
    PROVE  \A k \in 0..n-1 : RowsOf(in, cols, later)[k] = RowsOf(in, cols, refused)[k]
<1> DEFINE R == RowsOf(in, cols, refused)
           T == RowsOf(in, cols, later)
           differ == {m \in 0..n-1 : T[m] # R[m]}
<1>1. \A m \in 0..n-1 : /\ R[m] = RowsStep(in, cols, refused, R, m)
                        /\ T[m] = RowsStep(in, cols, later, T, m)
  BY RowsOfStep
<1> HIDE DEF R, T
<1>2. differ = {}
  <2> SUFFICES ASSUME differ # {} PROVE FALSE
    OBVIOUS
  <2>0. differ \subseteq Nat
    OBVIOUS
  <2>1. PICK m \in differ : \A l \in differ : m <= l
    BY <2>0, LeastNatural
  <2>2. m \in 0..n-1 /\ (m # 0 => T[m-1] = R[m-1])
        /\ (m # 0 => m \in 1..n-1)
    BY <2>1
  <2>3. T[m] = R[m]
    BY <1>1, <2>2 DEF RowsStep
  <2> QED BY <2>3
<1>3. \A k \in 0..n-1 : T[k] = R[k]
  BY <1>2
<1> QED BY <1>3 DEF R, T

\* The columns of a CSV header, in the same way.
ColumnsStep(header, h, k) ==
    IF k = 0 THEN <<>> ELSE Append(h[k-1], ColumnName(h[k-1], header[k], k))

\* The columns of every prefix of a header are defined.
LEMMA ColumnsDefined ==
    ASSUME NEW header, NEW size \in Nat
    PROVE  \E g : g = [k \in 0..size |-> ColumnsStep(header, g, k)]
<1> DEFINE Upto(n) == \E g : g = [k \in 0..n |-> ColumnsStep(header, g, k)]
           none == {n \in Nat : ~Upto(n)}
<1>1. Upto(0)
  <2> DEFINE g == [k \in 0..0 |-> <<>>]
  <2>1. \A k \in 0..0 : ColumnsStep(header, g, k) = <<>>
    BY DEF ColumnsStep
  <2>2. g = [k \in 0..0 |-> ColumnsStep(header, g, k)]
    BY <2>1, Zenon
  <2> QED BY <2>2
<1>2. ASSUME NEW n \in Nat, Upto(n) PROVE Upto(n + 1)
  <2>1. PICK g : g = [k \in 0..n |-> ColumnsStep(header, g, k)]
    BY <1>2
  <2> DEFINE h == [k \in 0..n+1 |-> IF k = n + 1 THEN ColumnsStep(header, g, k) ELSE g[k]]
  <2>2. \A k \in 0..n : h[k] = g[k]
    OBVIOUS
  <2>3. \A k \in 0..n : g[k] = ColumnsStep(header, g, k)
    BY <2>1
  <2>4. h = [k \in 0..n+1 |-> ColumnsStep(header, g, k)]
    BY <2>3
  <2> HIDE DEF h
  <2>5. ASSUME NEW k \in 0..n+1 PROVE ColumnsStep(header, h, k) = ColumnsStep(header, g, k)
    <3>1. k # 0 => h[k-1] = g[k-1]
      BY <2>2
    <3> QED BY <3>1, Zenon DEF ColumnsStep
  <2>6. h = [k \in 0..n+1 |-> ColumnsStep(header, h, k)]
    BY <2>4, <2>5, Zenon
  <2> QED BY <2>6
<1> HIDE DEF Upto
<1>3. none = {}
  <2> SUFFICES ASSUME none # {} PROVE FALSE
    OBVIOUS
  <2>1. PICK n \in none : \A m \in none : n <= m
    BY LeastNatural
  <2>2. n # 0 /\ n - 1 \in Nat
    BY <1>1
  <2>3. Upto(n - 1)
    BY <2>1, <2>2
  <2> QED BY <1>2, <2>2, <2>3
<1> QED BY <1>3 DEF Upto

\* A column for every cell of the header.
LEMMA ColumnForEach ==
    ASSUME NEW header, Len(header) \in Nat
    PROVE  IsSequence(CsvColumns(header)) /\ Len(CsvColumns(header)) = Len(header)
<1>1. PICK g : /\ g = [k \in 0..Len(header) |-> ColumnsStep(header, g, k)]
               /\ CsvColumns(header) = g[Len(header)]
  BY ColumnsDefined DEF CsvColumns, ColumnsStep
<1> DEFINE wrong == {k \in 0..Len(header) : ~(IsSequence(g[k]) /\ Len(g[k]) = k)}
<1>2. wrong = {}
  <2> SUFFICES ASSUME wrong # {} PROVE FALSE
    OBVIOUS
  <2>0. wrong \subseteq Nat
    OBVIOUS
  <2>1. PICK k \in wrong : \A m \in wrong : k <= m
    BY <2>0, LeastNatural
  <2>2. g[k] = ColumnsStep(header, g, k) /\ k \in 0..Len(header)
    BY <1>1
  <2>3. CASE k = 0
    <3>1. g[k] = <<>> /\ Len(<<>>) = 0
      BY <2>2, <2>3 DEF ColumnsStep
    <3> QED BY <2>3, <3>1, EmptyIsSequence
  <2>4. CASE k # 0
    <3>1. IsSequence(g[k-1]) /\ Len(g[k-1]) = k - 1
      BY <2>1, <2>2, <2>4
    <3>2. g[k] = Append(g[k-1], ColumnName(g[k-1], header[k], k))
      BY <2>2, <2>4 DEF ColumnsStep
    <3>3. IsSequence(g[k]) /\ Len(g[k]) = Len(g[k-1]) + 1
      BY <3>1, <3>2, AppendIsSequence
    <3> QED BY <2>2, <3>1, <3>3
  <2> QED BY <2>3, <2>4
<1>3. Len(header) \in 0..Len(header)
  OBVIOUS
<1>4. IsSequence(g[Len(header)]) /\ Len(g[Len(header)]) = Len(header)
  BY <1>2, <1>3
<1> QED BY <1>1, <1>4

\* A row that is refused adds nothing.
LEMMA RefusedAddsNothing ==
    ASSUME NEW in, NEW cols, NEW refused, Len(in.rows) \in Nat, NEW n \in 1..Len(in.rows),
           NEW later, n \in later, \A k \in 1..n-1 : k \in later <=> k \in refused
    PROVE  RowsOf(in, cols, later)[n] = RowsOf(in, cols, refused)[n-1]
<1> DEFINE T == RowsOf(in, cols, later)
<1>1. T[n] = RowsStep(in, cols, later, T, n)
  BY RowsOfStep
<1>2. \A k \in 0..n-1 : T[k] = RowsOf(in, cols, refused)[k]
  BY RefusedLater
<1> HIDE DEF T
<1>3. T[n] = T[n-1]
  BY <1>1 DEF RowsStep
<1>4. n - 1 \in 0..n-1
  OBVIOUS
<1> QED
  BY <1>2, <1>3, <1>4 DEF T

\* The records of the command and of a database.
DbShape(s) ==
    s = [pc |-> s.pc, in |-> s.in, overwrite |-> s.overwrite, runs |-> s.runs, err |-> s.err,
         cols |-> s.cols, header |-> s.header, stmt |-> s.stmt, tx |-> s.tx,
         pending |-> s.pending, inserted |-> s.inserted, next |-> s.next, ix |-> s.ix]
TableShape(db) ==
    db = [rows |-> db.rows, cols |-> db.cols, table |-> db.table, indexes |-> db.indexes,
          refused |-> db.refused, exists |-> db.exists]

DbFrame ==
    /\ cmd = "2db" /\ DbShape(st) /\ TableShape(disk.tmp)
    /\ disk = [db |-> disk.db, tmp |-> disk.tmp, before |-> disk.before]
    /\ st.in \in DbInputs /\ st.err \in BOOLEAN /\ st.runs \in Nat \ {0}
    /\ st.pc \in {"new", "parse", "finish", "unlink", "rename", "done"}

\* The target: what TargetIsNeverPartial says, and when there is none.
TargetInv ==
    /\ disk.before \in {DbOld, DbNone}
    /\ disk.db \in {disk.before, DbNone} \/ IsWhole(st.in, disk.db)
    /\ disk.before.exists /\ ~disk.db.exists /\ st.runs = 1 =>
         st.pc \in {"rename", "done"} /\ IsWhole(st.in, disk.tmp)
    /\ st.pc \in {"unlink", "rename"} => IsWhole(st.in, disk.tmp) /\ ~st.err
    /\ st.pc = "done" /\ ~st.err => IsWhole(st.in, disk.db)

\* Before the header nothing has been done.
BeforeHeader ==
    /\ st.pc = "new" => st.header
    /\ st.pc \in {"new", "parse"} /\ st.header =>
         /\ st.next = 1 /\ st.ix = 1 /\ st.stmt = FALSE /\ ~st.err /\ st.tx = FALSE
         /\ st.pending = <<>>
    /\ st.pc = "parse" /\ st.header => disk.tmp = DbEmpty

\* While rows are read: the rows so far are in the table or in the open
\* transaction, and there is a table as soon as one of them has had data.
RowsSoFar(s, db) ==
    /\ db.exists /\ db.indexes = {} /\ s.ix = 1
    /\ IsList(s.cols) /\ Len(s.cols) = Len(s.in.header)
    /\ s.stmt \in BOOLEAN /\ db.table = s.stmt /\ (s.stmt => db.cols = s.cols)
    /\ s.next \in 1..Len(s.in.rows)+1 /\ db.refused \subseteq 1..s.next-1
    /\ IsSequence(db.rows) /\ IsSequence(s.pending)
    /\ s.tx \in BOOLEAN /\ (~s.tx => s.pending = <<>>)
    /\ db.rows \o s.pending = RowsOf(s.in, s.cols, db.refused)[s.next-1]
    /\ ~s.stmt => \A k \in 1..s.next-1 : ~HasData(s.cols, s.in.rows[k])

\* Behind the last row: whole but for indexes and the open transaction.
Filled(s, db) ==
    /\ db.exists /\ s.ix \in 1..Len(s.in.indexes)+1
    /\ db.indexes = {s.in.indexes[k] : k \in 1..s.ix-1}
    /\ db.table => /\ Len(db.cols) = Len(s.in.header)
                   /\ db.rows \o s.pending = DataRows(s.in, db.cols, db.refused)
    /\ ~db.table => \A k \in DOMAIN s.in.rows : ~HasData(s.in.header, s.in.rows[k])

StoreInv ==
    /\ DbFrame /\ TargetInv /\ BeforeHeader
    /\ st.pc = "parse" /\ ~st.header /\ ~st.err => RowsSoFar(st, disk.tmp)
    /\ st.pc = "finish" => ~st.err /\ Filled(st, disk.tmp)

\* Whether a row has data depends on the number of the columns.
LEMMA DataByWidth ==
    ASSUME NEW c, NEW d, IsList(c), IsList(d), Len(c) = Len(d), NEW row
    PROVE  HasData(c, row) <=> HasData(d, row)
<1>1. DOMAIN c = DOMAIN d
  BY DEF IsList
<1>2. RowValues(c, row) = RowValues(d, row)
  BY <1>1, Zenon DEF RowValues
<1> QED
  BY <1>1, <1>2, Zenon DEF HasData

\* The inputs are lists.
LEMMA InputLists ==
    ASSUME StoreInv
    PROVE  /\ IsList(st.in.header) /\ IsList(st.in.rows) /\ IsList(st.in.indexes)
           /\ st.in.json /\ ~st.in.data => st.in.rows = <<>>
           /\ Len(st.in.rows) \in Nat /\ DOMAIN st.in.rows = 1..Len(st.in.rows)
           /\ Len(st.in.indexes) \in Nat /\ DOMAIN st.in.indexes = 1..Len(st.in.indexes)
           /\ Len(st.in.header) \in Nat
BY DbAssumption DEF StoreInv, DbFrame, IsList

\* The statement that fills the table is there or an error is noted.
LEMMA SetInsertStmtSets ==
    ASSUME NEW s, DbShape(s)
    PROVE  /\ DbShape(SetInsertStmt(s))
           /\ SetInsertStmt(s).pc = s.pc /\ SetInsertStmt(s).in = s.in
           /\ SetInsertStmt(s).runs = s.runs /\ SetInsertStmt(s).cols = s.cols
           /\ SetInsertStmt(s).header = s.header /\ SetInsertStmt(s).tx = s.tx
           /\ SetInsertStmt(s).pending = s.pending /\ SetInsertStmt(s).next = s.next
           /\ SetInsertStmt(s).ix = s.ix /\ SetInsertStmt(s).inserted = s.inserted
           /\ \/ SetInsertStmt(s).err = TRUE /\ SetInsertStmt(s).stmt = s.stmt
              \/ SetInsertStmt(s).err = s.err /\ SetInsertStmt(s).stmt = TRUE
<1>1. CASE s.cols = <<>> \/ CreateTableFails(s.cols)
  <2>1. SetInsertStmt(s) = [s EXCEPT !.err = TRUE]
    BY <1>1 DEF SetInsertStmt
  <2> QED BY <2>1 DEF DbShape
<1>2. CASE ~(s.cols = <<>> \/ CreateTableFails(s.cols))
  <2>1. SetInsertStmt(s) = [s EXCEPT !.stmt = TRUE]
    BY <1>2 DEF SetInsertStmt
  <2> QED BY <2>1 DEF DbShape
<1> QED BY <1>1, <1>2

\* The table is there when the statement is.
LEMMA TableOfHas ==
    ASSUME NEW s, NEW db, TableShape(db)
    PROVE  /\ TableShape(TableOf(s, db))
           /\ TableOf(s, db).rows = db.rows /\ TableOf(s, db).indexes = db.indexes
           /\ TableOf(s, db).refused = db.refused /\ TableOf(s, db).exists = db.exists
           /\ s.stmt => TableOf(s, db).table = TRUE /\ TableOf(s, db).cols = s.cols
           /\ ~s.stmt => TableOf(s, db) = db
BY DEF TableOf, TableShape

\* A database that has just been made.
LEMMA EmptyDatabase ==
    /\ TableShape(DbEmpty)
    /\ DbEmpty.rows = <<>> /\ DbEmpty.table = FALSE /\ DbEmpty.indexes = {}
    /\ DbEmpty.refused = {} /\ DbEmpty.exists = TRUE
<1>1. DbEmpty = [DbNone EXCEPT !.exists = TRUE]
  BY DEF DbEmpty
<1>2. TableShape(DbNone) /\ DbNone.rows = <<>> /\ DbNone.table = FALSE /\ DbNone.indexes = {}
      /\ DbNone.refused = {}
  BY DEF TableShape, DbNone
<1> QED
  BY <1>1, <1>2 DEF TableShape

\* The invariant holds at the start of the first run
LEMMA StoreInit == ToDbInit => StoreInv
<1> SUFFICES ASSUME ToDbInit PROVE StoreInv
  OBVIOUS
<1>1. PICK in \in DbInputs, overwrite \in BOOLEAN, old \in {DbOld, DbNone} :
        st = DbStart(in, overwrite, 1) /\ disk = [db |-> old, tmp |-> DbNone, before |-> old]
  BY DEF ToDbInit
<1>2. DbShape(st) /\ st.pc = "new" /\ st.header /\ st.runs = 1 /\ st.in = in /\ st.err = FALSE
      /\ st.next = 1 /\ st.ix = 1 /\ st.stmt = FALSE /\ st.tx = FALSE /\ st.pending = <<>>
  BY <1>1 DEF DbShape, DbStart
<1>3. TableShape(disk.tmp) /\ disk = [db |-> disk.db, tmp |-> disk.tmp, before |-> disk.before]
      /\ disk.db = disk.before /\ disk.before \in {DbOld, DbNone}
  BY <1>1 DEF TableShape, DbNone
<1>4. DbFrame
  <2>1. cmd = "2db"
    BY DEF ToDbInit
  <2>2. st.runs \in Nat \ {0}
    BY <1>2
  <2>3. st.err \in BOOLEAN
    BY <1>2, Zenon
  <2> QED BY <1>2, <1>3, <2>1, <2>2, <2>3 DEF DbFrame
<1>5. TargetInv
  BY <1>2, <1>3 DEF TargetInv
<1> QED
  BY <1>2, <1>4, <1>5 DEF StoreInv, BeforeHeader

\* and of a later one, also behind a crash.
LEMMA AgainInv ==
    ASSUME StoreInv, ToDbAgain
    PROVE  StoreInv'
<1>1. PICK overwrite \in BOOLEAN : st' = DbStart(st.in, overwrite, st.runs + 1)
  BY DEF ToDbAgain
<1>2. DbShape(st') /\ st'.pc = "new" /\ st'.header /\ st'.runs = st.runs + 1 /\ st'.in = st.in
      /\ st'.err = FALSE /\ st'.next = 1 /\ st'.ix = 1 /\ st'.stmt = FALSE /\ st'.tx = FALSE
      /\ st'.pending = <<>>
  BY <1>1 DEF DbShape, DbStart
<1>3. disk' = disk /\ cmd' = cmd
  BY DEF ToDbAgain
<1>4. st.runs \in Nat \ {0}
  BY DEF StoreInv, DbFrame
<1>5. DbFrame'
  <2>1. st'.runs \in Nat \ {0}
    BY <1>2, <1>4
  <2>2. st'.err \in BOOLEAN
    BY <1>2, Zenon
  <2>3. DbFrame
    BY DEF StoreInv
  <2> QED BY <1>2, <1>3, <2>1, <2>2, <2>3 DEF DbFrame
<1>6. TargetInv'
  BY <1>2, <1>3, <1>4 DEF TargetInv, StoreInv
<1> QED
  BY <1>2, <1>5, <1>6 DEF StoreInv, BeforeHeader

\* Opening the temporary database, or refusing an existing target.
LEMMA NewInv ==
    ASSUME StoreInv, ToDbNew
    PROVE  StoreInv'
<1>0. st.pc = "new" /\ st.header /\ ~st.err /\ cmd' = cmd /\ st.next = 1 /\ st.ix = 1
      /\ st.stmt = FALSE /\ st.tx = FALSE /\ st.pending = <<>> /\ DbFrame /\ TargetInv
  BY DEF ToDbNew, StoreInv, BeforeHeader
<1>1. CASE disk.db.exists /\ ~st.overwrite
  <2>1. st' = [st EXCEPT !.pc = "done", !.err = TRUE] /\ disk' = disk
    BY <1>1 DEF ToDbNew
  <2>2. DbShape(st') /\ st'.pc = "done" /\ st'.err = TRUE /\ st'.in = st.in /\ st'.runs = st.runs
    BY <1>0, <2>1 DEF DbFrame, DbShape
  <2>3. DbFrame'
    BY <1>0, <2>1, <2>2 DEF DbFrame
  <2>4. TargetInv'
    BY <1>0, <1>1, <2>1, <2>2 DEF TargetInv
  <2> QED BY <2>2, <2>3, <2>4 DEF StoreInv, BeforeHeader
<1>2. CASE ~(disk.db.exists /\ ~st.overwrite)
  <2>1. st' = [st EXCEPT !.pc = "parse"] /\ disk' = [disk EXCEPT !.tmp = DbEmpty]
    BY <1>2 DEF ToDbNew
  <2>2. DbShape(st') /\ st'.pc = "parse" /\ st'.err = st.err /\ st'.in = st.in
        /\ st'.runs = st.runs /\ st'.next = 1 /\ st'.ix = 1 /\ st'.stmt = FALSE /\ st'.tx = FALSE
        /\ st'.pending = <<>> /\ st'.header = st.header
    BY <1>0, <2>1 DEF DbFrame, DbShape
  <2>3. disk' = [db |-> disk.db, tmp |-> DbEmpty, before |-> disk.before]
    BY <1>0, <2>1 DEF DbFrame
  <2>4. TableShape(DbEmpty)
    BY EmptyDatabase
  <2>5. DbFrame'
    BY <1>0, <2>2, <2>3, <2>4 DEF DbFrame
  <2>6. TargetInv'
    BY <1>0, <2>2, <2>3 DEF TargetInv
  <2> QED BY <1>0, <2>2, <2>3, <2>5, <2>6 DEF StoreInv, BeforeHeader
<1> QED BY <1>1, <1>2

\* The header of a CSV input makes the table.
LEMMA CsvHeaderInv ==
    ASSUME StoreInv, ToDbCsvHeader
    PROVE  StoreInv'
<1> DEFINE c == CsvColumns(st.in.header)
           h == [st EXCEPT !.cols = c, !.header = FALSE]
           made == SetInsertStmt(h)
<1>0. /\ st.pc = "parse" /\ st.header /\ ~st.err /\ cmd' = cmd /\ st.next = 1 /\ st.ix = 1
      /\ st.stmt = FALSE /\ st.tx = FALSE /\ st.pending = <<>> /\ DbFrame /\ TargetInv
      /\ disk.tmp = DbEmpty
      /\ st' = made /\ disk' = [disk EXCEPT !.tmp = TableOf(made, @)]
  BY DEF ToDbCsvHeader, StoreInv, BeforeHeader
<1> HIDE DEF c
<1>1. /\ DbShape(h) /\ h.pc = "parse" /\ h.err = st.err /\ h.in = st.in /\ h.runs = st.runs
      /\ h.next = 1 /\ h.ix = 1 /\ h.stmt = FALSE /\ h.tx = FALSE /\ h.pending = <<>>
      /\ h.header = FALSE /\ h.cols = c
  <2>1. DbShape(st) /\ st.pc = "parse" /\ st.next = 1 /\ st.ix = 1 /\ st.stmt = FALSE
        /\ st.tx = FALSE /\ st.pending = <<>>
    BY <1>0 DEF DbFrame
  <2>2. h = [st EXCEPT !.cols = c, !.header = FALSE]
    OBVIOUS
  <2> HIDE DEF h
  <2>3. DbShape(h) /\ h.header = FALSE
    BY <2>1, <2>2 DEF DbShape
  <2>4. /\ h.pc = st.pc /\ h.err = st.err /\ h.in = st.in /\ h.runs = st.runs /\ h.next = st.next
        /\ h.ix = st.ix /\ h.stmt = st.stmt /\ h.tx = st.tx /\ h.pending = st.pending
        /\ h.cols = c
    BY <2>1, <2>2 DEF DbShape
  <2> QED BY <2>1, <2>2, <2>3, <2>4
<1> HIDE DEF h
<1>2. /\ DbShape(made) /\ made.pc = "parse" /\ made.in = st.in /\ made.runs = st.runs
      /\ made.next = 1 /\ made.ix = 1 /\ made.tx = FALSE /\ made.pending = <<>>
      /\ made.header = FALSE /\ made.cols = c
      /\ ((made.err = TRUE /\ made.stmt = FALSE) \/ (made.err = st.err /\ made.stmt = TRUE))
  <2>1. DbShape(h)
    BY <1>1
  <2>2. /\ DbShape(made) /\ made.pc = h.pc /\ made.in = h.in
        /\ made.runs = h.runs /\ made.next = h.next
        /\ made.ix = h.ix /\ made.tx = h.tx /\ made.pending = h.pending /\ made.header = h.header
        /\ made.cols = h.cols
        /\ ((made.err = TRUE /\ made.stmt = h.stmt) \/ (made.err = h.err /\ made.stmt = TRUE))
    BY <2>1, SetInsertStmtSets
  <2> HIDE DEF made
  <2> QED BY <1>1, <2>2, Zenon
<1> HIDE DEF made
<1> DEFINE db == TableOf(made, disk.tmp)
<1>3. disk' = [db |-> disk.db, tmp |-> db, before |-> disk.before]
  BY <1>0 DEF DbFrame
<1>4. /\ TableShape(db) /\ db.rows = <<>> /\ db.indexes = {} /\ db.refused = {} /\ db.exists = TRUE
      /\ made.stmt => db.table = TRUE /\ db.cols = made.cols
      /\ ~made.stmt => db.table = FALSE
  <2>1. TableShape(disk.tmp)
    BY <1>0 DEF DbFrame
  <2>2. disk.tmp = DbEmpty
    BY <1>0
  <2>3. /\ TableShape(db) /\ db.rows = disk.tmp.rows /\ db.indexes = disk.tmp.indexes
        /\ db.refused = disk.tmp.refused /\ db.exists = disk.tmp.exists
        /\ made.stmt => db.table = TRUE /\ db.cols = made.cols
        /\ ~made.stmt => db = disk.tmp
    BY <2>1 DEF TableOf, TableShape
  <2> HIDE DEF db
  <2> QED BY <2>2, <2>3, EmptyDatabase, Zenon
<1> HIDE DEF db
<1>5. DbFrame'
  <2>1. made.err \in BOOLEAN
    BY <1>0, <1>2, Zenon DEF DbFrame
  <2> QED BY <1>0, <1>2, <1>3, <1>4, <2>1 DEF DbFrame
<1>6. TargetInv'
  BY <1>0, <1>2, <1>3 DEF TargetInv
<1>7. IsSequence(made.cols) /\ Len(made.cols) = Len(made.in.header) /\ IsList(made.cols)
  <2>1. IsSequence(made.cols) /\ Len(made.cols) = Len(made.in.header)
    BY <1>2, InputLists, ColumnForEach DEF c
  <2> QED BY <2>1, AppendIsSequence DEF IsList
<1>8. ASSUME ~made.err PROVE RowsSoFar(made, db)
  <2>1. made.stmt = TRUE /\ made.stmt \in BOOLEAN
    BY <1>2, <1>8
  <2>2. db.rows \o made.pending = RowsOf(made.in, made.cols, db.refused)[0]
    <3>1. RowsOf(made.in, made.cols, db.refused)[0] = <<>>
      BY <1>2, InputLists, RowsOfStep DEF RowsStep
    <3> QED BY <1>2, <1>4, <3>1, EmptyIsSequence, ConcatIsSequence
  <2>3. 1 \in 1..Len(made.in.rows)+1 /\ db.refused \subseteq 1..0
    BY <1>2, <1>4, InputLists
  <2>4. made.next = 1 /\ made.next - 1 = 0
    BY <1>2
  <2>5. \A k \in 1..made.next-1 : ~HasData(made.cols, made.in.rows[k])
    BY <2>4
  <2>6. db.table = made.stmt /\ db.cols = made.cols /\ made.tx \in BOOLEAN /\ db.exists
    BY <1>2, <1>4, <2>1, Zenon
  <2> QED
    BY <1>2, <1>4, <1>7, <2>1, <2>2, <2>3, <2>4, <2>5, <2>6, EmptyIsSequence, Zenon DEF RowsSoFar
<1>9. disk'.tmp = db
  BY <1>3
<1> QED
  BY <1>0, <1>2, <1>5, <1>6, <1>8, <1>9 DEF StoreInv, BeforeHeader

\* The columns of a JSON text are taken as they are.
LEMMA JsonHeaderInv ==
    ASSUME StoreInv, ToDbJsonHeader
    PROVE  StoreInv'
<1>0. /\ st.pc = "parse" /\ st.header /\ ~st.err /\ cmd' = cmd /\ st.next = 1 /\ st.ix = 1
      /\ st.stmt = FALSE /\ st.tx = FALSE /\ st.pending = <<>> /\ DbFrame /\ TargetInv
      /\ disk.tmp = DbEmpty /\ disk' = disk
      /\ \/ st' = [st EXCEPT !.err = TRUE, !.header = FALSE]
         \/ st' = [st EXCEPT !.cols = st.in.header, !.header = FALSE]
  BY DEF ToDbJsonHeader, StoreInv, BeforeHeader
<1>1. /\ DbShape(st') /\ st'.pc = "parse" /\ st'.in = st.in /\ st'.runs = st.runs
      /\ st'.next = 1 /\ st'.ix = 1 /\ st'.stmt = FALSE /\ st'.tx = FALSE /\ st'.pending = <<>>
      /\ st'.header = FALSE
      /\ (st'.err = TRUE \/ (st'.err = st.err /\ st'.cols = st.in.header))
  <2>1. DbShape(st) /\ st.pc = "parse" /\ st.next = 1 /\ st.ix = 1 /\ st.stmt = FALSE
        /\ st.tx = FALSE /\ st.pending = <<>>
    BY <1>0 DEF DbFrame
  <2>2. \/ st' = [st EXCEPT !.err = TRUE, !.header = FALSE]
        \/ st' = [st EXCEPT !.cols = st.in.header, !.header = FALSE]
    BY <1>0
  <2>3. CASE st' = [st EXCEPT !.err = TRUE, !.header = FALSE]
    <3>1. DbShape(st') /\ st'.err = TRUE
      BY <2>1, <2>3 DEF DbShape
    <3>2. st'.header = FALSE
      BY <2>1, <2>3 DEF DbShape
    <3>3. /\ st'.pc = "parse" /\ st'.in = st.in /\ st'.runs = st.runs
          /\ st'.next = 1 /\ st'.ix = 1 /\ st'.stmt = FALSE /\ st'.tx = FALSE /\ st'.pending = <<>>
      BY <2>1, <2>3 DEF DbShape
    <3> QED BY <3>1, <3>2, <3>3
  <2>4. CASE st' = [st EXCEPT !.cols = st.in.header, !.header = FALSE]
    <3>1. DbShape(st')
      BY <2>1, <2>4 DEF DbShape
    <3>2. st'.header = FALSE
      BY <2>1, <2>4 DEF DbShape
    <3>3. /\ st'.pc = "parse" /\ st'.in = st.in /\ st'.runs = st.runs
          /\ st'.next = 1 /\ st'.ix = 1 /\ st'.stmt = FALSE /\ st'.tx = FALSE /\ st'.pending = <<>>
      BY <2>1, <2>4 DEF DbShape
    <3>4. st'.err = st.err /\ st'.cols = st.in.header
      BY <2>1, <2>4 DEF DbShape
    <3> QED BY <3>1, <3>2, <3>3, <3>4
  <2> QED BY <2>2, <2>3, <2>4
<1>2. DbFrame'
  <2>1. st'.err \in BOOLEAN
    BY <1>0, <1>1, Zenon DEF DbFrame
  <2> QED BY <1>0, <1>1, <2>1 DEF DbFrame
<1>3. TargetInv'
  BY <1>0, <1>1 DEF TargetInv
<1>4. ASSUME ~st'.err PROVE RowsSoFar(st', disk.tmp)
  <2>1. st'.cols = st.in.header /\ IsList(st'.cols) /\ Len(st'.cols) = Len(st'.in.header)
    BY <1>1, <1>4, InputLists
  <2>2. disk.tmp.rows \o st'.pending = RowsOf(st'.in, st'.cols, disk.tmp.refused)[0]
    <3>1. RowsOf(st'.in, st'.cols, disk.tmp.refused)[0] = <<>>
      BY <1>1, InputLists, RowsOfStep DEF RowsStep
    <3> QED BY <1>0, <1>1, <3>1, EmptyIsSequence, ConcatIsSequence, EmptyDatabase
  <2>3. 1 \in 1..Len(st'.in.rows)+1 /\ disk.tmp.refused \subseteq 1..0
    BY <1>0, <1>1, InputLists, EmptyDatabase
  <2>4. st'.next = 1 /\ st'.next - 1 = 0
    BY <1>1
  <2>5. \A k \in 1..st'.next-1 : ~HasData(st'.cols, st'.in.rows[k])
    BY <2>4
  <2>6. /\ disk.tmp.table = st'.stmt /\ st'.stmt \in BOOLEAN /\ st'.tx \in BOOLEAN
        /\ disk.tmp.exists
        /\ IsSequence(disk.tmp.rows) /\ disk.tmp.indexes = {} /\ ~st'.stmt
    BY <1>0, <1>1, EmptyDatabase, EmptyIsSequence, Zenon
  <2> QED
    BY <1>1, <2>1, <2>2, <2>3, <2>4, <2>5, <2>6, EmptyIsSequence, Zenon DEF RowsSoFar
<1> QED
  BY <1>0, <1>1, <1>2, <1>3, <1>4 DEF StoreInv, BeforeHeader

\* The end of the input.
LEMMA InputEndInv ==
    ASSUME StoreInv, ToDbInputEnd
    PROVE  StoreInv'
<1>0. st.pc = "parse" /\ cmd' = cmd /\ disk' = disk /\ DbFrame /\ TargetInv
  BY DEF ToDbInputEnd, StoreInv
<1>1. CASE st.err \/ st.in.bad
  <2>1. st' = [st EXCEPT !.pc = "done", !.err = TRUE]
    BY <1>1 DEF ToDbInputEnd
  <2>2. DbShape(st') /\ st'.pc = "done" /\ st'.err = TRUE /\ st'.in = st.in /\ st'.runs = st.runs
    BY <1>0, <2>1 DEF DbFrame, DbShape
  <2>3. DbFrame'
    BY <1>0, <2>2 DEF DbFrame
  <2>4. TargetInv'
    BY <1>0, <2>2 DEF TargetInv
  <2> QED BY <2>2, <2>3, <2>4 DEF StoreInv, BeforeHeader
<1>2. CASE ~(st.err \/ st.in.bad)
  <2>1. st' = [st EXCEPT !.pc = "finish"]
    BY <1>2 DEF ToDbInputEnd
  <2>2. DbShape(st') /\ st'.pc = "finish" /\ st'.err = st.err /\ st'.in = st.in
        /\ st'.runs = st.runs /\ st'.ix = st.ix /\ st'.pending = st.pending
    BY <1>0, <2>1 DEF DbFrame, DbShape
  <2>3. DbFrame'
    BY <1>0, <2>2 DEF DbFrame
  <2>4. TargetInv'
    BY <1>0, <2>2 DEF TargetInv
  <2>5. Filled(st', disk.tmp)
    <3>1. CASE st.header
      <4>1. /\ st.ix = 1 /\ disk.tmp = DbEmpty
            /\ (IF st.in.json THEN ~st.in.data ELSE st.in.header = <<>>)
        BY <1>0, <1>2, <3>1 DEF StoreInv, BeforeHeader, ToDbInputEnd
      <4>2. ASSUME NEW k \in DOMAIN st.in.rows PROVE ~HasData(st.in.header, st.in.rows[k])
        <5>1. CASE st.in.json
          BY <4>1, <5>1, InputLists
        <5>2. CASE st.in.header = <<>>
          <6>1. DOMAIN st.in.header = {}
            BY <5>2
          <6> QED BY <6>1, Zenon DEF HasData
        <5> QED BY <4>1, <5>1, <5>2
      <4>3. st'.ix \in 1..Len(st'.in.indexes)+1 /\ 1..st'.ix-1 = {}
        BY <2>2, <4>1, InputLists
      <4>4. disk.tmp.indexes = {st'.in.indexes[k] : k \in 1..st'.ix-1}
        BY <4>1, <4>3, EmptyDatabase, Zenon
      <4> QED BY <2>2, <4>1, <4>2, <4>3, <4>4, EmptyDatabase DEF Filled
    <3>2. CASE ~st.header
      <4>1. RowsSoFar(st, disk.tmp) /\ st.next > Len(st.in.rows)
        BY <1>0, <1>2, <3>2 DEF StoreInv, ToDbInputEnd
      <4>2. st.next - 1 = Len(st.in.rows)
        BY <4>1, InputLists DEF RowsSoFar
      <4>3. st'.ix \in 1..Len(st'.in.indexes)+1 /\ 1..st'.ix-1 = {}
        BY <2>2, <4>1, InputLists DEF RowsSoFar
      <4>4. disk.tmp.indexes = {st'.in.indexes[k] : k \in 1..st'.ix-1}
        BY <4>1, <4>3, Zenon DEF RowsSoFar
      <4>5. CASE disk.tmp.table
        <5>1. disk.tmp.cols = st.cols /\ Len(st.cols) = Len(st.in.header)
              /\ disk.tmp.rows \o st.pending = DataRows(st.in, st.cols, disk.tmp.refused)
              /\ disk.tmp.exists
          BY <4>1, <4>2, <4>5, DataRowsAreRowsOf DEF RowsSoFar
        <5> QED BY <2>2, <4>3, <4>4, <4>5, <5>1 DEF Filled
      <4>6. CASE ~disk.tmp.table
        <5>1. disk.tmp.exists /\ IsList(st.cols) /\ Len(st.cols) = Len(st.in.header)
              /\ \A k \in 1..Len(st.in.rows) : ~HasData(st.cols, st.in.rows[k])
          BY <4>1, <4>2, <4>6 DEF RowsSoFar
        <5>2. \A k \in DOMAIN st.in.rows : ~HasData(st.in.header, st.in.rows[k])
          BY <5>1, DataByWidth, InputLists
        <5> QED BY <2>2, <4>3, <4>4, <4>6, <5>1, <5>2 DEF Filled
      <4> QED BY <4>5, <4>6
    <3> QED BY <3>1, <3>2
  <2> QED BY <1>0, <1>2, <2>2, <2>3, <2>4, <2>5 DEF StoreInv, BeforeHeader
<1> QED BY <1>1, <1>2

\* One index more, or one that is refused.
LEMMA AddIndexInv ==
    ASSUME StoreInv, ToDbAddIndex
    PROVE  StoreInv'
<1> DEFINE ix == st.in.indexes[st.ix]
<1>0. /\ st.pc = "finish" /\ cmd' = cmd /\ DbFrame /\ TargetInv /\ Filled(st, disk.tmp) /\ ~st.err
      /\ st.ix <= Len(st.in.indexes)
  BY DEF ToDbAddIndex, StoreInv
<1>1. CASE st' = [st EXCEPT !.pc = "done", !.err = TRUE] /\ disk' = disk
  <2>2. DbShape(st') /\ st'.pc = "done" /\ st'.err = TRUE /\ st'.in = st.in /\ st'.runs = st.runs
    BY <1>0, <1>1 DEF DbFrame, DbShape
  <2>3. DbFrame'
    BY <1>0, <1>1, <2>2 DEF DbFrame
  <2>4. TargetInv'
    BY <1>0, <1>1, <2>2 DEF TargetInv
  <2> QED BY <2>2, <2>3, <2>4 DEF StoreInv, BeforeHeader
<1>2. CASE st' = [st EXCEPT !.ix = @ + 1] /\ disk' = [disk EXCEPT !.tmp.indexes = @ \cup {ix}]
  <2>1. DbShape(st') /\ st'.pc = "finish" /\ st'.err = st.err /\ st'.in = st.in
        /\ st'.runs = st.runs /\ st'.ix = st.ix + 1 /\ st'.pending = st.pending
    BY <1>0, <1>2 DEF DbFrame, DbShape
  <2> DEFINE db == [disk.tmp EXCEPT !.indexes = @ \cup {ix}]
  <2>2. disk' = [db |-> disk.db, tmp |-> db, before |-> disk.before]
    BY <1>0, <1>2 DEF DbFrame
  <2>3. /\ TableShape(db) /\ db.indexes = disk.tmp.indexes \cup {ix} /\ db.rows = disk.tmp.rows
        /\ db.cols = disk.tmp.cols /\ db.table = disk.tmp.table /\ db.exists = disk.tmp.exists
        /\ db.refused = disk.tmp.refused
    <3>1. TableShape(disk.tmp)
      BY <1>0 DEF DbFrame
    <3> HIDE DEF ix
    <3> QED BY <3>1 DEF TableShape
  <2> HIDE DEF db
  <2>4. DbFrame'
    BY <1>0, <2>1, <2>2, <2>3 DEF DbFrame
  <2>5. TargetInv'
    BY <1>0, <2>1, <2>2 DEF TargetInv
  <2>6. Filled(st', db)
    <3>1. st.ix \in Nat /\ st.ix + 1 \in 1..Len(st.in.indexes)+1 /\ st.ix + 1 - 1 = st.ix
          /\ 1..st.ix = (1..st.ix-1) \cup {st.ix}
      BY <1>0, InputLists DEF Filled
    <3>2. db.indexes = {st.in.indexes[k] : k \in 1..st.ix}
      <4>1. disk.tmp.indexes = {st.in.indexes[k] : k \in 1..st.ix-1}
        BY <1>0 DEF Filled
      <4> QED BY <2>3, <3>1, <4>1
    <3>3. Filled(st, disk.tmp)
      BY <1>0
    <3>4. db.indexes = {st'.in.indexes[k] : k \in 1..st'.ix-1}
          /\ st'.ix \in 1..Len(st'.in.indexes)+1
      BY <2>1, <3>1, <3>2
    <3> QED BY <2>1, <2>3, <3>3, <3>4, Zenon DEF Filled
  <2>7. disk'.tmp = db
    BY <2>2
  <2> QED BY <1>0, <2>1, <2>4, <2>5, <2>6, <2>7 DEF StoreInv, BeforeHeader
<1> QED BY <1>1, <1>2 DEF ToDbAddIndex

\* The last transaction is committed: the database is whole.
LEMMA CloseInv ==
    ASSUME StoreInv, ToDbClose
    PROVE  StoreInv'
<1>0. /\ st.pc = "finish" /\ cmd' = cmd /\ DbFrame /\ TargetInv /\ Filled(st, disk.tmp) /\ ~st.err
      /\ st.ix > Len(st.in.indexes)
      /\ disk' = [disk EXCEPT !.tmp = CommitLast(st, @)]
      /\ st' = [st EXCEPT !.pc = "unlink", !.tx = FALSE, !.pending = <<>>]
  BY DEF ToDbClose, StoreInv
<1>1. DbShape(st') /\ st'.pc = "unlink" /\ st'.err = st.err /\ st'.in = st.in /\ st'.runs = st.runs
  BY <1>0 DEF DbFrame, DbShape
<1> DEFINE db == CommitLast(st, disk.tmp)
<1>2. disk' = [db |-> disk.db, tmp |-> db, before |-> disk.before]
  BY <1>0 DEF DbFrame
<1>3. /\ TableShape(db) /\ db.indexes = disk.tmp.indexes /\ db.rows = disk.tmp.rows \o st.pending
      /\ db.cols = disk.tmp.cols /\ db.table = disk.tmp.table /\ db.exists = disk.tmp.exists
      /\ db.refused = disk.tmp.refused
  <2>1. TableShape(disk.tmp)
    BY <1>0 DEF DbFrame
  <2>2. db = [disk.tmp EXCEPT !.rows = @ \o st.pending]
    BY DEF CommitLast, Committed
  <2> HIDE DEF db
  <2>3. TableShape(db) /\ db.rows = disk.tmp.rows \o st.pending
    BY <2>1, <2>2 DEF TableShape
  <2>4. /\ db.indexes = disk.tmp.indexes /\ db.cols = disk.tmp.cols /\ db.table = disk.tmp.table
        /\ db.exists = disk.tmp.exists /\ db.refused = disk.tmp.refused
    BY <2>1, <2>2 DEF TableShape
  <2> QED BY <2>3, <2>4
<1> HIDE DEF db
<1>4. DbFrame'
  BY <1>0, <1>1, <1>2, <1>3 DEF DbFrame
<1>5. IsWhole(st.in, db)
  <2>1. db.indexes = Range(st.in.indexes)
    <3>1. 1..st.ix-1 = DOMAIN st.in.indexes
      BY <1>0, InputLists DEF Filled
    <3>2. disk.tmp.indexes = {st.in.indexes[k] : k \in DOMAIN st.in.indexes}
      BY <1>0, <3>1 DEF Filled
    <3> QED BY <1>3, <3>2, Zenon DEF Range
  <2> QED BY <1>0, <1>3, <2>1 DEF IsWhole, Filled
<1>6. TargetInv'
  BY <1>0, <1>1, <1>2, <1>5 DEF TargetInv
<1> QED BY <1>1, <1>4, <1>6 DEF StoreInv, BeforeHeader

\* The old target goes, and the new one takes its place or waits for it.
LEMMA ReplaceInv ==
    ASSUME StoreInv, ToDbUnlink \/ ToDbRename
    PROVE  StoreInv'
<1>0. cmd' = cmd /\ DbFrame /\ TargetInv
  BY DEF ToDbUnlink, ToDbRename, StoreInv
<1>1. CASE ToDbUnlink
  <2>1. st.pc = "unlink" /\ st' = [st EXCEPT !.pc = "rename"] /\ disk' = [disk EXCEPT !.db = DbNone]
    BY <1>1 DEF ToDbUnlink
  <2>2. DbShape(st') /\ st'.pc = "rename" /\ st'.err = st.err /\ st'.in = st.in
        /\ st'.runs = st.runs /\ disk' = [db |-> DbNone, tmp |-> disk.tmp, before |-> disk.before]
    BY <1>0, <2>1 DEF DbFrame, DbShape
  <2>3. DbFrame'
    BY <1>0, <2>2 DEF DbFrame
  <2>4. TargetInv'
    BY <1>0, <2>1, <2>2 DEF TargetInv
  <2> QED BY <2>2, <2>3, <2>4 DEF StoreInv, BeforeHeader
<1>2. CASE st.pc = "rename" /\ disk' = [disk EXCEPT !.db = disk.tmp, !.tmp = DbNone]
           /\ st' = [st EXCEPT !.pc = "done"]
  <2>1. DbShape(st') /\ st'.pc = "done" /\ st'.err = st.err /\ st'.in = st.in
        /\ st'.runs = st.runs /\ disk' = [db |-> disk.tmp, tmp |-> DbNone, before |-> disk.before]
    BY <1>0, <1>2 DEF DbFrame, DbShape
  <2>2. TableShape(DbNone)
    BY DEF TableShape, DbNone
  <2>3. DbFrame'
    BY <1>0, <2>1, <2>2 DEF DbFrame
  <2>4. TargetInv'
    BY <1>0, <1>2, <2>1 DEF TargetInv, IsWhole
  <2> QED BY <2>1, <2>3, <2>4 DEF StoreInv, BeforeHeader
<1>3. CASE st.pc = "rename" /\ st' = [st EXCEPT !.pc = "done", !.err = TRUE] /\ disk' = disk
  <2>1. DbShape(st') /\ st'.pc = "done" /\ st'.err = TRUE /\ st'.in = st.in /\ st'.runs = st.runs
    BY <1>0, <1>3 DEF DbFrame, DbShape
  <2>2. DbFrame'
    BY <1>0, <1>3, <2>1 DEF DbFrame
  <2>3. TargetInv'
    BY <1>0, <1>3, <2>1 DEF TargetInv
  <2> QED BY <2>1, <2>2, <2>3 DEF StoreInv, BeforeHeader
<1> QED BY <1>1, <1>2, <1>3 DEF ToDbRename

\* The table after one more row, in its three cases: one without data,
LEMMA BlankRowSoFar ==
    ASSUME StoreInv, RowsSoFar(st, disk.tmp), st.next <= Len(st.in.rows),
           NEW t, t.in = st.in, t.cols = st.cols, t.tx = st.tx, t.pending = st.pending,
           t.ix = st.ix, t.stmt = st.stmt, t.next = st.next + 1,
           ~HasData(st.cols, st.in.rows[st.next])
    PROVE  RowsSoFar(t, disk.tmp)
<1>1. /\ st.next \in Nat /\ t.next \in 1..Len(t.in.rows)+1 /\ t.next - 1 = st.next
      /\ st.next \in 1..Len(st.in.rows) /\ st.next \in 0..Len(st.in.rows) /\ st.next # 0
      /\ 1..st.next = (1..st.next-1) \cup {st.next}
  BY InputLists DEF RowsSoFar
<1>2. disk.tmp.refused \subseteq 1..st.next
  BY <1>1 DEF RowsSoFar
<1>3. disk.tmp.rows \o t.pending = RowsOf(t.in, t.cols, disk.tmp.refused)[st.next]
  <2>1. disk.tmp.rows \o st.pending = RowsOf(st.in, st.cols, disk.tmp.refused)[st.next-1]
    BY DEF RowsSoFar
  <2>2. RowsOf(st.in, st.cols, disk.tmp.refused)[st.next]
          = RowsStep(st.in, st.cols, disk.tmp.refused,
                     RowsOf(st.in, st.cols, disk.tmp.refused), st.next)
    BY <1>1, InputLists, RowsOfStep
  <2> QED BY <1>1, <2>1, <2>2 DEF RowsStep
<1>4. ~t.stmt => \A k \in 1..st.next : ~HasData(t.cols, t.in.rows[k])
  BY <1>1 DEF RowsSoFar
<1> QED
  BY <1>1, <1>2, <1>3, <1>4, Zenon DEF RowsSoFar

\* one that SQLite does not take,
LEMMA RefusedNext ==
    ASSUME StoreInv, RowsSoFar(st, disk.tmp), st.next <= Len(st.in.rows),
           NEW later, st.next \in later,
           \A k \in 1..st.next-1 : k \in later <=> k \in disk.tmp.refused
    PROVE  disk.tmp.rows \o st.pending = RowsOf(st.in, st.cols, later)[st.next]
<1>1. st.next \in 1..Len(st.in.rows) /\ Len(st.in.rows) \in Nat
  BY InputLists DEF RowsSoFar
<1>3. disk.tmp.rows \o st.pending = RowsOf(st.in, st.cols, disk.tmp.refused)[st.next-1]
  BY DEF RowsSoFar
<1>4. RowsOf(st.in, st.cols, later)[st.next]
        = RowsOf(st.in, st.cols, disk.tmp.refused)[st.next-1]
  BY <1>1, RefusedAddsNothing
<1> QED
  BY <1>3, <1>4

\* A row that SQLite refuses is none of those that must be stored.
LEMMA RefusedRowSoFar ==
    ASSUME StoreInv, RowsSoFar(st, disk.tmp), st.next <= Len(st.in.rows),
           NEW t, t.in = st.in, t.cols = st.cols, t.tx = st.tx, t.pending = st.pending,
           t.ix = st.ix, t.stmt = TRUE, t.next = st.next + 1,
           NEW db, db.exists = disk.tmp.exists, db.indexes = disk.tmp.indexes, db.table = TRUE,
           db.cols = t.cols, db.rows = disk.tmp.rows,
           \A k : k \in db.refused <=> k \in disk.tmp.refused \/ k = st.next
    PROVE  RowsSoFar(t, db)
<1>1. /\ st.next \in Nat /\ t.next \in 1..Len(t.in.rows)+1 /\ t.next - 1 = st.next
      /\ st.next \in 1..Len(st.in.rows) /\ st.next \in 0..Len(st.in.rows) /\ st.next # 0
      /\ Len(st.in.rows) \in Nat
  BY InputLists DEF RowsSoFar
<1>2. db.refused \subseteq 1..st.next
  BY <1>1 DEF RowsSoFar
<1>3. db.rows \o t.pending = RowsOf(t.in, t.cols, db.refused)[st.next]
  <2>1. disk.tmp.rows \o st.pending = RowsOf(st.in, st.cols, db.refused)[st.next]
    <3>1. /\ st.next \in db.refused
          /\ \A k \in 1..st.next-1 : k \in db.refused <=> k \in disk.tmp.refused
      BY <1>1
    <3> QED BY <3>1, RefusedNext
  <2> QED BY <2>1
<1> QED
  BY <1>1, <1>2, <1>3, Zenon DEF RowsSoFar

\* and one that is inserted.
LEMMA InsertedRowSoFar ==
    ASSUME StoreInv, RowsSoFar(st, disk.tmp), st.next <= Len(st.in.rows),
           HasData(st.cols, st.in.rows[st.next]),
           NEW t, t.in = st.in, t.cols = st.cols,
           t.ix = st.ix, t.stmt = TRUE, t.next = st.next + 1,
           NEW db, db.exists = disk.tmp.exists, db.indexes = disk.tmp.indexes, db.table = TRUE,
           db.cols = t.cols, db.refused = disk.tmp.refused,
           NEW full \in BOOLEAN, t.tx = (st.tx \/ full),
           t.pending = IF ~st.tx \/ full THEN <<>>
                       ELSE st.pending \o <<RowValues(st.cols, st.in.rows[st.next])>>,
           db.rows = IF st.tx /\ ~full THEN disk.tmp.rows
                     ELSE disk.tmp.rows
                            \o (IF st.tx
                                THEN st.pending \o <<RowValues(st.cols, st.in.rows[st.next])>>
                                ELSE <<RowValues(st.cols, st.in.rows[st.next])>>)
    PROVE  RowsSoFar(t, db)
<1> DEFINE v == RowValues(st.cols, st.in.rows[st.next])
           R == RowsOf(st.in, st.cols, disk.tmp.refused)
           old == disk.tmp.rows
<1>1. /\ st.next \in Nat /\ t.next \in 1..Len(t.in.rows)+1 /\ t.next - 1 = st.next
      /\ st.next \in 1..Len(st.in.rows) /\ st.next \in 0..Len(st.in.rows) /\ st.next # 0
      /\ 1..st.next-1 \subseteq 1..st.next /\ st.next \notin 1..st.next-1
      /\ Len(st.in.rows) \in Nat
  BY InputLists DEF RowsSoFar
<1>2. db.refused \subseteq 1..st.next /\ st.next \notin disk.tmp.refused
  BY <1>1 DEF RowsSoFar
<1>3. R[st.next] = Append(old \o st.pending, v)
  <2>1. old \o st.pending = R[st.next-1]
    BY DEF RowsSoFar
  <2>2. R[st.next] = RowsStep(st.in, st.cols, disk.tmp.refused, R, st.next)
    BY <1>1, RowsOfStep
  <2> HIDE DEF R, v
  <2>3. R[st.next] = Append(R[st.next-1], v)
    BY <1>1, <1>2, <2>2 DEF RowsStep, v
  <2> QED BY <2>1, <2>3
<1>4. /\ IsSequence(old) /\ IsSequence(st.pending) /\ st.tx \in BOOLEAN
      /\ ~st.tx => st.pending = <<>>
  BY DEF RowsSoFar
<1> HIDE DEF v, R, old
<1>5. /\ old \o (st.pending \o <<v>>) = R[st.next] /\ IsSequence(st.pending \o <<v>>)
      /\ IsSequence(old \o (st.pending \o <<v>>))
  <2>1. IsSequence(st.pending \o <<v>>)
    BY <1>4, ConcatIsSequence
  <2> QED BY <1>3, <1>4, <2>1, ConcatIsSequence
<1>6. /\ IsSequence(db.rows) /\ IsSequence(t.pending) /\ t.tx \in BOOLEAN
      /\ ~t.tx => t.pending = <<>>
      /\ db.rows \o t.pending = R[st.next]
  <2>1. CASE st.tx /\ ~full
    <3>1. db.rows = old /\ t.pending = st.pending \o <<v>> /\ t.tx = TRUE
      BY <2>1 DEF old, v
    <3> QED BY <1>4, <1>5, <3>1
  <2>2. CASE st.tx /\ full
    <3>1. db.rows = old \o (st.pending \o <<v>>) /\ t.pending = <<>> /\ t.tx = TRUE
      BY <2>2 DEF old, v
    <3> QED BY <1>5, <3>1, ConcatIsSequence, EmptyIsSequence
  <2>3. CASE ~st.tx
    <3>1. db.rows = old \o <<v>> /\ t.pending = <<>> /\ t.tx = full /\ st.pending = <<>>
      BY <1>4, <2>3 DEF old, v
    <3>2. old \o <<v>> = old \o (st.pending \o <<v>>)
      BY <3>1, EmptyIsSequence, ConcatIsSequence
    <3>3. IsSequence(db.rows) /\ db.rows \o <<>> = db.rows /\ db.rows = R[st.next]
      BY <1>5, <3>1, <3>2, ConcatIsSequence, EmptyIsSequence
    <3> QED BY <3>1, <3>3, EmptyIsSequence
  <2> QED BY <1>4, <2>1, <2>2, <2>3
<1>7. db.rows \o t.pending = RowsOf(t.in, t.cols, db.refused)[st.next]
  BY <1>6 DEF R
<1> QED
  BY <1>1, <1>2, <1>6, <1>7, Zenon DEF RowsSoFar

\* One row of the input.
LEMMA RowInv ==
    ASSUME StoreInv, NEW fails \in BOOLEAN, ToDbRow(fails)
    PROVE  StoreInv'
<1> DEFINE row == st.in.rows[st.next]
           base == IF st.stmt \/ ~HasData(st.cols, row) THEN st ELSE SetInsertStmt(st)
           t == [base EXCEPT !.next = @ + 1]
           db == TableOf(t, disk.tmp)
           vals == <<RowValues(t.cols, row)>>
           full == (t.inserted + 1) % DbBatch = 0
<1>0. /\ st.pc = "parse" /\ ~st.header /\ ~st.err /\ st.next <= Len(st.in.rows) /\ cmd' = cmd
      /\ DbFrame /\ TargetInv /\ RowsSoFar(st, disk.tmp)
  BY DEF ToDbRow, StoreInv
<1>1. \/ ~HasData(st.cols, row) /\ st' = t /\ disk' = disk
      \/ /\ HasData(st.cols, row) /\ (fails \/ ~t.stmt) /\ st' = t
         /\ disk' = [disk EXCEPT !.tmp = [db EXCEPT !.refused = @ \cup {st.next}]]
      \/ /\ HasData(st.cols, row) /\ t.stmt
         /\ st' = [t EXCEPT !.inserted = @ + 1,
                            !.tx = @ \/ full,
                            !.pending = IF ~t.tx \/ full THEN <<>> ELSE @ \o vals]
         /\ disk' = [disk EXCEPT !.tmp =
               IF t.tx THEN (IF full THEN Committed(db, t.pending \o vals) ELSE db)
               ELSE Committed(db, vals)]
  BY DEF ToDbRow
<1>2. /\ DbShape(base) /\ base.pc = st.pc /\ base.in = st.in /\ base.runs = st.runs
      /\ base.cols = st.cols /\ base.header = st.header /\ base.tx = st.tx
      /\ base.pending = st.pending /\ base.next = st.next /\ base.ix = st.ix
      /\ base.inserted = st.inserted
      /\ \/ base.err = TRUE /\ base.stmt = st.stmt
         \/ base.err = st.err /\ (st.stmt \/ HasData(st.cols, row) => base.stmt = TRUE)
                             /\ (~HasData(st.cols, row) => base.stmt = st.stmt)
  <2>1. DbShape(st) /\ st.stmt \in BOOLEAN
    BY <1>0 DEF DbFrame, RowsSoFar
  <2>2. CASE st.stmt \/ ~HasData(st.cols, row)
    <3>1. base = st
      BY <2>2
    <3> HIDE DEF base, row
    <3>2. st.stmt => base.stmt = TRUE
      BY <2>1, <3>1
    <3> QED BY <2>1, <2>2, <3>1, <3>2, Zenon
  <2>3. CASE ~(st.stmt \/ ~HasData(st.cols, row))
    <3>1. base = SetInsertStmt(st)
      BY <2>3
    <3> HIDE DEF base, row
    <3> QED BY <2>1, <2>3, <3>1, SetInsertStmtSets
  <2> QED BY <2>2, <2>3
<1> HIDE DEF base
<1>3. /\ DbShape(t) /\ t.pc = st.pc /\ t.in = st.in /\ t.runs = st.runs
      /\ t.cols = st.cols /\ t.header = st.header /\ t.tx = st.tx
      /\ t.pending = st.pending /\ t.next = st.next + 1 /\ t.ix = st.ix
      /\ t.inserted = base.inserted /\ t.err = base.err /\ t.stmt = base.stmt
  <2>1. t = [base EXCEPT !.next = @ + 1]
    OBVIOUS
  <2>2. base.next = st.next
    BY <1>2
  <2> HIDE DEF t
  <2>3. DbShape(t) /\ t.next = base.next + 1
    BY <1>2, <2>1 DEF DbShape
  <2>4. /\ t.pc = base.pc /\ t.in = base.in /\ t.runs = base.runs /\ t.cols = base.cols
        /\ t.header = base.header /\ t.tx = base.tx /\ t.pending = base.pending /\ t.ix = base.ix
        /\ t.inserted = base.inserted /\ t.err = base.err /\ t.stmt = base.stmt
    BY <1>2, <2>1 DEF DbShape
  <2> QED BY <1>2, <2>2, <2>3, <2>4
<1> HIDE DEF t, row, full
<1>4. /\ TableShape(db) /\ db.rows = disk.tmp.rows /\ db.indexes = disk.tmp.indexes
      /\ db.refused = disk.tmp.refused /\ db.exists = disk.tmp.exists
      /\ t.stmt => db.table = TRUE /\ db.cols = t.cols
  <2>1. TableShape(disk.tmp)
    BY <1>0 DEF DbFrame
  <2> QED BY <2>1 DEF TableOf, TableShape
<1> HIDE DEF db
<1>5. st.pc = "parse" /\ st.err = FALSE /\ st.err \in BOOLEAN /\ DbShape(st)
      /\ disk = [db |-> disk.db, tmp |-> disk.tmp, before |-> disk.before]
  BY <1>0 DEF DbFrame
<1>6. ASSUME DbShape(st'), TableShape(disk'.tmp), st'.pc = "parse", st'.in = st.in,
             st'.runs = st.runs, st'.header = st.header, st'.err = base.err,
             disk' = [db |-> disk.db, tmp |-> disk'.tmp, before |-> disk.before],
             ~base.err => RowsSoFar(st', disk'.tmp)
      PROVE  StoreInv'
  <2>1. st'.err \in BOOLEAN
    BY <1>2, <1>5, <1>6, Zenon
  <2>2. DbFrame'
    BY <1>0, <1>6, <2>1 DEF DbFrame
  <2>3. TargetInv'
    BY <1>0, <1>6 DEF TargetInv
  <2> QED BY <1>0, <1>6, <2>2, <2>3 DEF StoreInv, BeforeHeader
<1>7. CASE ~HasData(st.cols, row) /\ st' = t /\ disk' = disk
  <2>1. ASSUME ~base.err PROVE RowsSoFar(t, disk.tmp)
    <3>1. t.stmt = st.stmt
      BY <1>2, <1>3, <1>7, <2>1
    <3>2. ~HasData(st.cols, st.in.rows[st.next])
      BY <1>7 DEF row
    <3> QED BY <1>0, <1>3, <3>1, <3>2, BlankRowSoFar
  <2>2. TableShape(disk.tmp)
    BY <1>0 DEF DbFrame
  <2> QED BY <1>3, <1>5, <1>6, <1>7, <2>1, <2>2
<1>8. CASE /\ HasData(st.cols, row) /\ st' = t
           /\ disk' = [disk EXCEPT !.tmp = [db EXCEPT !.refused = @ \cup {st.next}]]
  <2> DEFINE new == [db EXCEPT !.refused = @ \cup {st.next}]
  <2>1. disk' = [db |-> disk.db, tmp |-> new, before |-> disk.before]
    BY <1>5, <1>8
  <2>2. new = [db EXCEPT !.refused = @ \cup {st.next}]
    OBVIOUS
  <2> HIDE DEF new
  <2>3. /\ TableShape(new) /\ new.rows = disk.tmp.rows /\ new.indexes = disk.tmp.indexes
        /\ new.exists = disk.tmp.exists /\ new.table = db.table /\ new.cols = db.cols
        /\ new.refused = disk.tmp.refused \cup {st.next}
    BY <1>4, <2>2 DEF TableShape
  <2>4. ASSUME ~base.err PROVE RowsSoFar(t, new)
    <3>1. t.stmt = TRUE
      BY <1>2, <1>3, <1>8, <2>4
    <3>2. new.table = TRUE /\ new.cols = t.cols
      BY <1>4, <2>3, <3>1
    <3>3. \A k : k \in new.refused <=> k \in disk.tmp.refused \/ k = st.next
      BY <2>3
    <3> QED BY <1>0, <1>3, <2>3, <3>1, <3>2, <3>3, RefusedRowSoFar
  <2>5. disk'.tmp = new
    BY <2>1
  <2> QED BY <1>3, <1>5, <1>6, <1>8, <2>1, <2>3, <2>4, <2>5
<1>9. CASE /\ HasData(st.cols, row) /\ t.stmt
           /\ st' = [t EXCEPT !.inserted = @ + 1,
                              !.tx = @ \/ full,
                              !.pending = IF ~t.tx \/ full THEN <<>> ELSE @ \o vals]
           /\ disk' = [disk EXCEPT !.tmp =
                 IF t.tx THEN (IF full THEN Committed(db, t.pending \o vals) ELSE db)
                 ELSE Committed(db, vals)]
  <2> DEFINE new == IF t.tx THEN (IF full THEN Committed(db, t.pending \o vals) ELSE db)
                    ELSE Committed(db, vals)
             rest == IF ~t.tx \/ full THEN <<>> ELSE t.pending \o vals
             add == IF t.tx THEN t.pending \o vals ELSE vals
  <2>1. disk' = [db |-> disk.db, tmp |-> new, before |-> disk.before]
    BY <1>5, <1>9
  <2>2. st' = [t EXCEPT !.inserted = @ + 1, !.tx = @ \/ full, !.pending = rest]
    BY <1>9
  <2> HIDE DEF vals, rest
  <2>3. /\ TableShape(new) /\ new.indexes = disk.tmp.indexes /\ new.refused = disk.tmp.refused
        /\ new.exists = disk.tmp.exists /\ new.table = db.table /\ new.cols = db.cols
        /\ new.rows = IF t.tx /\ ~full THEN disk.tmp.rows ELSE disk.tmp.rows \o add
    <3>1. CASE t.tx /\ ~full
      <4>1. new = db
        BY <3>1
      <4> QED BY <1>4, <3>1, <4>1
    <3>2. CASE ~(t.tx /\ ~full)
      <4>1. new = Committed(db, add)
        BY <3>2
      <4> HIDE DEF new, add
      <4>2. TableShape(new) /\ new.rows = disk.tmp.rows \o add
        BY <1>4, <4>1 DEF Committed, TableShape
      <4>3. /\ new.indexes = db.indexes /\ new.refused = db.refused /\ new.exists = db.exists
            /\ new.table = db.table /\ new.cols = db.cols
        BY <1>4, <4>1 DEF Committed, TableShape
      <4> QED BY <1>4, <3>2, <4>2, <4>3
    <3> QED BY <3>1, <3>2
  <2> HIDE DEF new
  <2>4. DbShape(st') /\ st'.pending = rest
    BY <1>3, <2>2 DEF DbShape
  <2>5. st'.tx = (st.tx \/ full)
    BY <1>3, <2>2 DEF DbShape
  <2>6. /\ st'.pc = t.pc /\ st'.in = t.in /\ st'.runs = t.runs /\ st'.header = t.header
        /\ st'.err = t.err /\ st'.cols = t.cols /\ st'.next = t.next /\ st'.ix = t.ix
    BY <1>3, <2>2 DEF DbShape
  <2>7. st'.stmt = t.stmt
    BY <1>3, <2>2 DEF DbShape
  <2>8. t.stmt = TRUE
    BY <1>0, <1>2, <1>3, <1>5, <1>9 DEF RowsSoFar
  <2>9. RowsSoFar(st', new)
    <3>1. full \in BOOLEAN
      BY DEF full
    <3>2. new.table = TRUE /\ new.cols = st'.cols
      BY <1>4, <2>3, <2>6, <2>8
    <3>3. vals = <<RowValues(st.cols, st.in.rows[st.next])>>
      BY <1>3 DEF vals, row
    <3>4. /\ st'.pending = IF ~st.tx \/ full THEN <<>>
                           ELSE st.pending \o <<RowValues(st.cols, st.in.rows[st.next])>>
          /\ new.rows = IF st.tx /\ ~full THEN disk.tmp.rows
                        ELSE disk.tmp.rows
                               \o (IF st.tx
                                   THEN st.pending \o <<RowValues(st.cols, st.in.rows[st.next])>>
                                   ELSE <<RowValues(st.cols, st.in.rows[st.next])>>)
      BY <1>3, <2>3, <2>4, <3>3 DEF rest
    <3>5. HasData(st.cols, st.in.rows[st.next])
      BY <1>9 DEF row
    <3> HIDE DEF add
    <3>6. /\ st'.in = st.in /\ st'.cols = st.cols /\ st'.ix = st.ix /\ st'.stmt = TRUE
          /\ st'.next = st.next + 1
      BY <1>3, <2>6, <2>7, <2>8
    <3> QED BY <1>0, <2>3, <2>5, <3>1, <3>2, <3>4, <3>5, <3>6, InsertedRowSoFar
  <2>10. disk'.tmp = new
    BY <2>1
  <2> QED BY <1>3, <1>5, <1>6, <2>1, <2>3, <2>4, <2>6, <2>9, <2>10
<1> QED
  BY <1>1, <1>7, <1>8, <1>9

\* 2db keeps the invariant, crashes and further runs included.
THEOREM StoreInvHolds == ToDbSpec => []StoreInv
<1>1. StoreInv /\ [ToDbNext \/ Finished]_procVars => StoreInv'
  <2> SUFFICES ASSUME StoreInv, [ToDbNext \/ Finished]_procVars PROVE StoreInv'
    OBVIOUS
  <2>1. CASE UNCHANGED procVars
    BY <2>1 DEF procVars, StoreInv, DbFrame, TargetInv, BeforeHeader, RowsSoFar, Filled
  <2>2. CASE ToDbNext
    BY <2>2, NewInv, CsvHeaderInv, JsonHeaderInv, RowInv, InputEndInv, AddIndexInv, CloseInv,
       ReplaceInv, AgainInv DEF ToDbNext
  <2> QED
    BY <2>1, <2>2 DEF Finished
<1> QED
  BY <1>1, StoreInit, PTL DEF ToDbSpec

\* Whatever step 2db is killed at, the target is what it was, absent, or made
\* from the whole input, and an old one is absent only while its complete
\* successor waits under the temporary name (zsv_2db_finish).
THEOREM TheTargetIsWhole == ToDbSpec => []TargetIsNeverPartial
<1>1. StoreInv => TargetIsNeverPartial
  BY DEF StoreInv, TargetInv, TargetIsNeverPartial
<1> QED
  BY <1>1, StoreInvHolds, PTL

\* Exit status 0 means that the target holds the columns, the rows and the
\* indexes of the input, but for rows that SQLite refused.
THEOREM SuccessStoresTheInput == ToDbSpec => []SuccessMeansStored
<1>1. StoreInv => SuccessMeansStored
  BY DEF StoreInv, TargetInv, SuccessMeansStored
<1> QED
  BY <1>1, StoreInvHolds, PTL

-----------------------------------------------------------------------------
(* overwrite: a bulk change                                                *)

\* What the first k rows of a bulk change make of a table, by what the first
\* k - 1 made of it.
AppliedStep(op, rows, force, table, h, k) ==
    IF k = 0 THEN table
    ELSE IF NoValueYet(op, rows, k) THEN h[k-1]
    ELSE Effect(op, h[k-1], BulkRow(rows[k]), force)

\* The table after every prefix of a bulk change is defined.
LEMMA AppliedDefined ==
    ASSUME NEW op, NEW rows, NEW force, NEW table, NEW size \in Nat
    PROVE  \E g : g = [k \in 0..size |-> AppliedStep(op, rows, force, table, g, k)]
<1> DEFINE Upto(n) == \E g : g = [k \in 0..n |-> AppliedStep(op, rows, force, table, g, k)]
           none == {n \in Nat : ~Upto(n)}
<1>1. Upto(0)
  <2> DEFINE g == [k \in 0..0 |-> table]
  <2>1. \A k \in 0..0 : AppliedStep(op, rows, force, table, g, k) = table
    BY DEF AppliedStep
  <2>2. g = [k \in 0..0 |-> AppliedStep(op, rows, force, table, g, k)]
    BY <2>1, Zenon
  <2> QED BY <2>2
<1>2. ASSUME NEW n \in Nat, Upto(n) PROVE Upto(n + 1)
  <2>1. PICK g : g = [k \in 0..n |-> AppliedStep(op, rows, force, table, g, k)]
    BY <1>2
  <2> DEFINE h == [k \in 0..n+1 |->
                     IF k = n + 1 THEN AppliedStep(op, rows, force, table, g, k) ELSE g[k]]
  <2>2. \A k \in 0..n : h[k] = g[k]
    OBVIOUS
  <2>3. \A k \in 0..n : g[k] = AppliedStep(op, rows, force, table, g, k)
    BY <2>1
  <2>4. h = [k \in 0..n+1 |-> AppliedStep(op, rows, force, table, g, k)]
    BY <2>3
  <2> HIDE DEF h
  <2>5. ASSUME NEW k \in 0..n+1
        PROVE  AppliedStep(op, rows, force, table, h, k) = AppliedStep(op, rows, force, table, g, k)
    <3>1. k # 0 => h[k-1] = g[k-1]
      BY <2>2
    <3> QED BY <3>1, Zenon DEF AppliedStep
  <2>6. h = [k \in 0..n+1 |-> AppliedStep(op, rows, force, table, h, k)]
    BY <2>4, <2>5, Zenon
  <2> QED BY <2>6
<1> HIDE DEF Upto
<1>3. none = {}
  <2> SUFFICES ASSUME none # {} PROVE FALSE
    OBVIOUS
  <2>1. PICK n \in none : \A m \in none : n <= m
    BY LeastNatural
  <2>2. n # 0 /\ n - 1 \in Nat
    BY <1>1
  <2>3. Upto(n - 1)
    BY <2>1, <2>2
  <2> QED BY <1>2, <2>2, <2>3
<1> QED BY <1>3 DEF Upto

\* Applied, row by row.
LEMMA AppliedByRow ==
    ASSUME NEW op, NEW rows, NEW force, NEW table, Len(rows) \in Nat, NEW k \in 0..Len(rows)
    PROVE  Applied(op, rows, force, table, k) =
             IF k = 0 THEN table
             ELSE IF NoValueYet(op, rows, k) THEN Applied(op, rows, force, table, k-1)
             ELSE Effect(op, Applied(op, rows, force, table, k-1), BulkRow(rows[k]), force)
<1>1. PICK g : /\ g = [n \in 0..Len(rows) |-> AppliedStep(op, rows, force, table, g, n)]
               /\ \A n \in 0..Len(rows) : Applied(op, rows, force, table, n) = g[n]
  <2> DEFINE G == CHOOSE g : g = [n \in 0..Len(rows) |-> AppliedStep(op, rows, force, table, g, n)]
  <2>1. G = [n \in 0..Len(rows) |-> AppliedStep(op, rows, force, table, G, n)]
    BY AppliedDefined
  <2>2. \A n : Applied(op, rows, force, table, n) = G[n]
    BY DEF Applied, AppliedStep
  <2> HIDE DEF G
  <2> QED BY <2>1, <2>2
<1>2. g[k] = AppliedStep(op, rows, force, table, g, k)
  BY <1>1
<1>3. Applied(op, rows, force, table, k) = g[k]
      /\ (k # 0 => Applied(op, rows, force, table, k-1) = g[k-1])
  BY <1>1
<1> QED
  BY <1>2, <1>3, Zenon DEF AppliedStep

\* A statement about one cell leaves the others as they are.
LEMMA EffectElsewhere ==
    ASSUME NEW op, NEW table, NEW row, NEW force, NEW c, c # row.at
    PROVE  /\ c \in DOMAIN Effect(op, table, row, force) <=> c \in DOMAIN table
           /\ c \in DOMAIN table => Effect(op, table, row, force)[c] = table[c]
<1>1. /\ c \in DOMAIN Added(table, row, force) <=> c \in DOMAIN table
      /\ c \in DOMAIN table => Added(table, row, force)[c] = table[c]
  <2>1. CASE ~force /\ row.old # Blank /\ ~HoldsValue(table, row.old)
    BY <2>1 DEF Added
  <2>2. CASE ~(~force /\ row.old # Blank /\ ~HoldsValue(table, row.old))
    <3>1. Added(table, row, force)
            = [d \in DOMAIN table \cup {row.at} |-> IF d = row.at THEN row.value ELSE table[d]]
      BY <2>2 DEF Added
    <3> QED BY <3>1
  <2> QED BY <2>1, <2>2
<1>2. /\ c \in DOMAIN Removed(table, row) <=> c \in DOMAIN table
      /\ c \in DOMAIN table => Removed(table, row)[c] = table[c]
  BY DEF Removed, Restrict
<1> QED
  BY <1>1, <1>2, Zenon DEF Effect

\* The record of the command.
OvwShape(s) ==
    s = [pc |-> s.pc, op |-> s.op, rows |-> s.rows, force |-> s.force, next |-> s.next,
         tx |-> s.tx, work |-> s.work, failed |-> s.failed, err |-> s.err, left |-> s.left,
         before |-> s.before]

\* The file holds at c what it held before the command.
AsBefore(c) ==
    /\ c \in DOMAIN disk <=> c \in DOMAIN st.before
    /\ c \in DOMAIN disk => disk[c] = st.before[c]

\* Behind a row that failed, only the cells of the rows from that one on can
\* have changed.
LeftAlone ==
    \A c : (\A j \in Min(st.failed)..st.next-1 : BulkRow(st.rows[j]).at # c) => AsBefore(c)

\* A bulk change: as long as no row has failed the file is untouched and the
\* transaction holds the rows so far.
BulkSoFar ==
    /\ st.rows \in OvwBulk /\ st.next \in 1..Len(st.rows)+1
    /\ st.failed \subseteq 1..st.next-1 /\ st.tx \in BOOLEAN
    /\ st.pc = "bulk" => (st.tx <=> st.failed = {})
    /\ st.pc = "bulk" /\ st.tx =>
         st.work = Applied(st.op, st.rows, st.force, st.before, st.next - 1)
    /\ st.failed # {} => LeftAlone
    /\ st.failed = {} =>
         \/ disk = st.before
         \/ st.pc # "bulk" /\ disk = Applied(st.op, st.rows, st.force, st.before, Len(st.rows))

BulkInv ==
    /\ cmd = "overwrite" /\ OvwShape(st) /\ st.pc \in {"idle", "bulk", "done"}
    /\ (st.pc = "bulk" \/ Len(st.rows) > 1) => BulkSoFar

\* The least row that failed stays the least.
LEMMA FirstFailure ==
    ASSUME NEW n \in Nat \ {0}, NEW S, S \subseteq 1..n-1
    PROVE  /\ Min(S \cup {n}) \in 1..n /\ S \cup {n} # {}
           /\ S # {} => Min(S \cup {n}) = Min(S) /\ Min(S) \in 1..n-1
           /\ S = {} => Min(S \cup {n}) = n
<1> DEFINE T == S \cup {n}
<1>1. T \subseteq Nat /\ T # {} /\ n \in T /\ S \subseteq T
  OBVIOUS
<1>2. Min(T) \in T /\ \A y \in T : Min(T) <= y
  BY <1>1, MinIsLeast
<1>3. ASSUME S # {} PROVE Min(S) \in S /\ \A y \in S : Min(S) <= y
  <2>1. S \subseteq Nat
    OBVIOUS
  <2> QED BY <1>3, <2>1, MinIsLeast
<1> DEFINE m == Min(T)
<1>4. m \in T /\ \A y \in T : m <= y
  BY <1>2
<1> HIDE DEF m
<1>5. m \in 1..n
  BY <1>4
<1>6. S = {} => m = n
  BY <1>4
<1>7. ASSUME S # {} PROVE m = Min(S) /\ Min(S) \in 1..n-1
  <2> DEFINE l == Min(S)
  <2>1. l \in S /\ \A y \in S : l <= y
    BY <1>3, <1>7
  <2> HIDE DEF l
  <2>2. l \in 1..n-1 /\ m <= l
    BY <1>4, <2>1
  <2>3. m # n
    BY <2>2
  <2>4. m \in S
    BY <1>4, <2>3
  <2>5. l <= m
    BY <2>1, <2>4
  <2>6. m = l
    BY <1>5, <2>2, <2>5
  <2> QED BY <2>2, <2>6 DEF l
<1> QED
  BY <1>1, <1>5, <1>6, <1>7 DEF m

\* A command of one statement has a row at most.
LEMMA OneStatementInv ==
    ASSUME BulkInv, OverwriteOne \/ OverwriteClear \/ OverwriteList
    PROVE  BulkInv'
<1>1. cmd' = cmd
  BY DEF OverwriteOne, OverwriteClear, OverwriteList
<1>2. OvwShape(st') /\ st'.pc = "idle" /\ ~(Len(st'.rows) > 1)
  <2>1. CASE OverwriteOne
    <3>1. PICK op \in {"add", "remove"}, row \in OvwEntry, fails \in BOOLEAN :
            st' = [OvwIdle(st.left - 1) EXCEPT !.op = op, !.rows = <<row>>, !.err = fails,
                                               !.before = disk]
      <4>1. PICK op \in {"add", "remove"}, row \in OvwEntry, force \in BOOLEAN :
              st' = [OvwIdle(st.left - 1) EXCEPT !.op = op, !.rows = <<row>>,
                       !.err = Fails(op, disk, row, force), !.before = disk]
        BY <2>1 DEF OverwriteOne
      <4>2. Fails(op, disk, row, force) \in BOOLEAN
        BY DEF Fails
      <4> QED BY <4>1, <4>2
    <3>2. st'.pc = "idle" /\ st'.rows = <<row>>
      BY <3>1 DEF OvwIdle
    <3>3. OvwShape(st')
      BY <3>1 DEF OvwIdle, OvwShape
    <3> QED BY <3>2, <3>3
  <2>2. CASE OverwriteClear \/ OverwriteList
    <3>1. PICK op \in {"clear", "list"} :
            st' = [OvwIdle(st.left - 1) EXCEPT !.op = op, !.before = disk]
      BY <2>2 DEF OverwriteClear, OverwriteList
    <3>2. st'.pc = "idle" /\ st'.rows = <<>>
      BY <3>1 DEF OvwIdle
    <3>3. OvwShape(st')
      BY <3>1 DEF OvwIdle, OvwShape
    <3> QED BY <3>2, <3>3
  <2> QED BY <2>1, <2>2
<1> QED
  BY <1>1, <1>2 DEF BulkInv

\* BEGIN.
LEMMA BulkBeginInv ==
    ASSUME BulkInv, OverwriteBulk
    PROVE  BulkInv'
<1>1. PICK op \in {"add", "remove"}, rows \in OvwBulk, force \in BOOLEAN :
        st' = [OvwIdle(st.left - 1) EXCEPT !.pc = "bulk", !.op = op, !.rows = rows,
                 !.force = force, !.tx = TRUE, !.work = disk, !.before = disk]
  BY DEF OverwriteBulk
<1>2. cmd' = cmd /\ disk' = disk
  BY DEF OverwriteBulk
<1>3. st'.pc = "bulk" /\ st'.rows = rows /\ st'.next = 1 /\ st'.work = disk /\ st'.before = disk
      /\ st'.failed = {} /\ st'.op = op /\ st'.force = force
  BY <1>1 DEF OvwIdle
<1>4. OvwShape(st') /\ st'.tx = TRUE
  BY <1>1 DEF OvwIdle, OvwShape
<1>5. Len(rows) \in Nat
  BY OvwAssumption
<1>6. st'.next \in 1..Len(st'.rows)+1 /\ st'.next - 1 = 0 /\ 0 \in 0..Len(rows)
  BY <1>3, <1>5
<1>7. st'.work = Applied(st'.op, st'.rows, st'.force, st'.before, st'.next - 1)
  BY <1>3, <1>5, <1>6, AppliedByRow
<1> QED
  BY <1>2, <1>3, <1>4, <1>6, <1>7 DEF BulkInv, BulkSoFar

\* One row.
LEMMA BulkRowInv ==
    ASSUME BulkInv, OverwriteBulkRow
    PROVE  BulkInv'
<1> DEFINE row == BulkRow(st.rows[st.next])
           table == IF st.tx THEN st.work ELSE disk
           empty == NoValueYet(st.op, st.rows, st.next)
           fails == ~empty /\ Fails(st.op, table, row, st.force)
           new == IF empty THEN table ELSE Effect(st.op, table, row, st.force)
<1>1. /\ st.pc = "bulk" /\ st.next <= Len(st.rows) /\ cmd' = cmd
      /\ st' = [st EXCEPT !.next = @ + 1,
                          !.tx = @ /\ ~fails,
                          !.work = IF st.tx /\ ~fails THEN new ELSE OvwNothing,
                          !.failed = IF fails THEN @ \cup {st.next} ELSE @]
      /\ disk' = IF st.tx \/ fails THEN disk ELSE new
  BY DEF OverwriteBulkRow
<1>2. OvwShape(st) /\ BulkSoFar
  BY <1>1 DEF BulkInv
<1>3. fails \in BOOLEAN
  OBVIOUS
<1>4. ASSUME ~fails, ~st.tx, NEW c, row.at # c
      PROVE  c \in DOMAIN new <=> c \in DOMAIN disk
  BY <1>4, EffectElsewhere
<1>5. ASSUME ~fails, ~st.tx, NEW c, row.at # c, c \in DOMAIN disk
      PROVE  new[c] = disk[c]
  BY <1>5, EffectElsewhere
<1>6. /\ Len(st.rows) \in Nat /\ st.next \in Nat \ {0} /\ st.next + 1 \in 1..Len(st.rows)+1
      /\ st.next + 1 - 1 = st.next /\ st.next \in 0..Len(st.rows) /\ st.next # 0
      /\ st.next - 1 \in 0..Len(st.rows)
  BY <1>1, <1>2, OvwAssumption DEF BulkSoFar
<1>7. st.tx => new = Applied(st.op, st.rows, st.force, st.before, st.next)
  <2>1. Applied(st.op, st.rows, st.force, st.before, st.next)
          = IF empty THEN Applied(st.op, st.rows, st.force, st.before, st.next - 1)
            ELSE Effect(st.op, Applied(st.op, st.rows, st.force, st.before, st.next - 1),
                        row, st.force)
    BY <1>6, AppliedByRow
  <2>2. st.tx => table = Applied(st.op, st.rows, st.force, st.before, st.next - 1)
    BY <1>1, <1>2 DEF BulkSoFar
  <2> HIDE DEF empty, table, row
  <2> QED BY <2>1, <2>2
<1> HIDE DEF fails, new, row, table, empty
<1>8. /\ st'.pc = "bulk" /\ st'.rows = st.rows /\ st'.op = st.op /\ st'.force = st.force
      /\ st'.before = st.before /\ st'.next = st.next + 1
      /\ st'.failed = (IF fails THEN st.failed \cup {st.next} ELSE st.failed)
      /\ st'.work = (IF st.tx /\ ~fails THEN new ELSE OvwNothing)
  BY <1>1, <1>2 DEF OvwShape
<1>9. OvwShape(st') /\ st'.tx = (st.tx /\ ~fails)
  <2>1. st' = [st EXCEPT !.next = @ + 1,
                         !.tx = @ /\ ~fails,
                         !.work = IF st.tx /\ ~fails THEN new ELSE OvwNothing,
                         !.failed = IF fails THEN @ \cup {st.next} ELSE @]
    BY <1>1
  <2>2. OvwShape(st)
    BY <1>2
  <2> QED BY <2>1, <2>2 DEF OvwShape
<1>10. /\ st.rows \in OvwBulk /\ st.failed \subseteq 1..st.next-1 /\ st.tx \in BOOLEAN
       /\ (st.tx <=> st.failed = {})
       /\ (st.tx => disk = st.before)
       /\ (~st.tx => LeftAlone)
  BY <1>1, <1>2 DEF BulkSoFar
<1>11. st'.failed \subseteq 1..st'.next-1 /\ (st'.tx <=> st'.failed = {}) /\ st'.tx \in BOOLEAN
  <2>1. CASE fails
    <3>1. st'.failed = st.failed \cup {st.next} /\ st'.next - 1 = st.next
      BY <1>6, <1>8, <2>1
    <3>3. st'.tx = FALSE
      BY <1>9, <2>1, Zenon
    <3>2. st.failed \cup {st.next} \subseteq 1..st.next
      BY <1>6, <1>10
    <3> QED BY <3>1, <3>2, <3>3
  <2>2. CASE ~fails
    BY <1>6, <1>8, <1>9, <1>10, <2>2
  <2> QED BY <1>3, <2>1, <2>2
<1>12. st'.tx => st'.work = Applied(st'.op, st'.rows, st'.force, st'.before, st'.next - 1)
  <2>1. st'.tx => st.tx /\ st'.work = new
    BY <1>8, <1>9
  <2>2. st'.next - 1 = st.next
    BY <1>6, <1>8
  <2> QED BY <1>7, <1>8, <2>1, <2>2
<1>13. st'.failed = {} => disk' = st'.before
  <2>1. st'.failed = {} => st.tx
    BY <1>8, <1>10
  <2> QED BY <1>1, <1>8, <1>10, <2>1
<1>14. st'.failed # {} => LeftAlone'
  <2> SUFFICES ASSUME st'.failed # {}, NEW c,
                      \A j \in Min(st'.failed)..st'.next-1 : BulkRow(st'.rows[j]).at # c
               PROVE  AsBefore(c)'
    BY DEF LeftAlone
  <2>1. CASE st.tx
    <3>1. disk' = st'.before
      BY <1>1, <1>8, <1>10, <2>1
    <3> QED BY <3>1 DEF AsBefore
  <2>2. CASE ~st.tx
    <3>1. st.failed # {} /\ LeftAlone
      BY <1>10, <2>2
    <3>2. Min(st'.failed) = Min(st.failed) /\ Min(st.failed) \in 1..st.next-1
      <4>1. st.failed # {} => /\ Min(st.failed \cup {st.next}) = Min(st.failed)
                              /\ Min(st.failed) \in 1..st.next-1
        BY <1>6, <1>10, FirstFailure
      <4> QED BY <1>8, <3>1, <4>1
    <3>3. \A j \in Min(st.failed)..st.next-1 : BulkRow(st.rows[j]).at # c
      BY <1>6, <1>8, <3>2
    <3>4. AsBefore(c)
      BY <3>1, <3>3 DEF LeftAlone
    <3>5. row.at # c
      <4>1. st.next \in Min(st'.failed)..st'.next-1
        BY <1>6, <1>8, <3>2
      <4> QED BY <1>8, <4>1 DEF row
    <3>6. CASE fails
      <4>1. disk' = disk
        BY <1>1, <3>6
      <4> QED BY <1>8, <3>4, <4>1 DEF AsBefore
    <3>7. CASE ~fails
      <4>1. disk' = new
        BY <1>1, <2>2, <3>7
      <4>2. c \in DOMAIN new <=> c \in DOMAIN disk
        BY <1>4, <2>2, <3>5, <3>7
      <4>3. c \in DOMAIN disk => new[c] = disk[c]
        BY <1>5, <2>2, <3>5, <3>7
      <4> QED BY <1>8, <3>4, <4>1, <4>2, <4>3 DEF AsBefore
    <3> QED BY <1>3, <3>6, <3>7
  <2> QED BY <1>10, <2>1, <2>2
<1>15. BulkSoFar'
  BY <1>6, <1>8, <1>10, <1>11, <1>12, <1>13, <1>14 DEF BulkSoFar
<1>16. cmd' = "overwrite"
  BY <1>1 DEF BulkInv
<1> QED
  BY <1>8, <1>9, <1>15, <1>16 DEF BulkInv

\* COMMIT, or the end of the process in between.
LEMMA BulkStopInv ==
    ASSUME BulkInv, OverwriteBulkEnd \/ OverwriteCrash
    PROVE  BulkInv'
<1>1. st.pc = "bulk" /\ cmd' = cmd /\ OvwShape(st) /\ BulkSoFar
  BY DEF OverwriteBulkEnd, OverwriteCrash, BulkInv
<1>2. PICK err : st' = [st EXCEPT !.pc = "idle", !.err = err, !.tx = FALSE, !.work = OvwNothing]
  <2>1. CASE OverwriteCrash
    BY <2>1 DEF OverwriteCrash
  <2>2. CASE OverwriteBulkEnd
    <3>1. st' = [st EXCEPT !.pc = "idle", !.tx = FALSE, !.work = OvwNothing]
      BY <2>2 DEF OverwriteBulkEnd
    <3>2. st' = [st EXCEPT !.pc = "idle", !.err = st.err, !.tx = FALSE, !.work = OvwNothing]
      BY <1>1, <3>1 DEF OvwShape
    <3> QED BY <3>2
  <2> QED BY <2>1, <2>2
<1>3. OvwShape(st') /\ st'.pc = "idle" /\ st'.rows = st.rows /\ st'.op = st.op
      /\ st'.force = st.force /\ st'.before = st.before /\ st'.next = st.next
      /\ st'.failed = st.failed
  BY <1>1, <1>2 DEF OvwShape
<1>4. st'.tx = FALSE
  BY <1>1, <1>2 DEF OvwShape
<1>5. disk' = disk \/ /\ OverwriteBulkEnd /\ st.tx /\ disk' = st.work
                      /\ st.next > Len(st.rows)
  BY DEF OverwriteBulkEnd, OverwriteCrash
<1>6. CASE disk' = disk
  BY <1>1, <1>3, <1>4, <1>6 DEF BulkInv, BulkSoFar, LeftAlone, AsBefore
<1>7. CASE OverwriteBulkEnd /\ st.tx /\ disk' = st.work /\ st.next > Len(st.rows)
  <2>1. st.next - 1 = Len(st.rows)
    BY <1>1, <1>7, OvwAssumption DEF BulkSoFar
  <2>2. disk' = Applied(st'.op, st'.rows, st'.force, st'.before, Len(st'.rows)) /\ st'.failed = {}
    BY <1>1, <1>3, <1>7, <2>1 DEF BulkSoFar
  <2>3. BulkSoFar'
    BY <1>1, <1>3, <1>4, <2>2 DEF BulkSoFar
  <2> QED BY <1>1, <1>3, <2>3 DEF BulkInv
<1> QED
  BY <1>5, <1>6, <1>7

\* overwrite keeps the invariant, whatever commands are run and killed.
THEOREM BulkInvHolds == OverwriteSpec => []BulkInv
<1>1. OverwriteInit => BulkInv
  <2> SUFFICES ASSUME OverwriteInit PROVE BulkInv
    OBVIOUS
  <2>1. cmd = "overwrite" /\ st = OvwIdle(OvwCommands)
    BY DEF OverwriteInit
  <2>2. OvwShape(st) /\ st.pc = "idle" /\ st.rows = <<>>
    BY <2>1 DEF OvwIdle, OvwShape
  <2> QED BY <2>1, <2>2 DEF BulkInv
<1>2. BulkInv /\ [OverwriteNext \/ Finished]_procVars => BulkInv'
  <2> SUFFICES ASSUME BulkInv, [OverwriteNext \/ Finished]_procVars PROVE BulkInv'
    OBVIOUS
  <2>1. CASE UNCHANGED procVars
    BY <2>1 DEF procVars, BulkInv, BulkSoFar, LeftAlone, AsBefore
  <2>2. CASE OverwriteDone
    <3>1. st.pc = "idle" /\ st' = [st EXCEPT !.pc = "done"] /\ cmd' = cmd /\ disk' = disk
      BY <2>2 DEF OverwriteDone
    <3>2. OvwShape(st') /\ st'.pc = "done" /\ st'.rows = st.rows /\ st'.op = st.op
          /\ st'.force = st.force /\ st'.before = st.before /\ st'.next = st.next
          /\ st'.failed = st.failed /\ st'.tx = st.tx
      BY <3>1 DEF OvwShape, BulkInv
    <3> QED BY <3>1, <3>2 DEF BulkInv, BulkSoFar, LeftAlone, AsBefore
  <2>3. CASE OverwriteNext
    BY <2>2, <2>3, OneStatementInv, BulkBeginInv, BulkRowInv, BulkStopInv DEF OverwriteNext
  <2> QED
    BY <2>1, <2>3 DEF Finished
<1> QED
  BY <1>1, <1>2, PTL DEF OverwriteSpec

\* Until a row fails a bulk change is made whole or not at all, killed or not;
\* the rows before the first that failed are undone for good
\* (zsv_overwrite_writer_bulk).
THEOREM BulkIsOneChange == OverwriteSpec => []BulkIsAtomicUntilARowFails
<1>1. BulkInv => BulkIsAtomicUntilARowFails
  <2> SUFFICES ASSUME BulkInv, Len(st.rows) > 1 PROVE
        IF st.failed = {}
        THEN disk = st.before \/ disk = Applied(st.op, st.rows, st.force, st.before, Len(st.rows))
        ELSE \A k \in 1..(Min(st.failed) - 1) :
               LET at == BulkRow(st.rows[k]).at
               IN  (\A j \in Min(st.failed)..Len(st.rows) : BulkRow(st.rows[j]).at # at) =>
                   (at \in DOMAIN disk <=> at \in DOMAIN st.before)
                     /\ (at \in DOMAIN disk => disk[at] = st.before[at])
    BY DEF BulkIsAtomicUntilARowFails
  <2>1. BulkSoFar
    BY DEF BulkInv
  <2>2. CASE st.failed = {}
    BY <2>1, <2>2 DEF BulkSoFar
  <2>3. CASE st.failed # {}
    <3>1. /\ st.failed \subseteq Nat /\ st.next \in Nat /\ Len(st.rows) \in Nat
          /\ st.next - 1 <= Len(st.rows)
      BY <2>1, OvwAssumption DEF BulkSoFar
    <3>2. Min(st.failed) \in Nat
      BY <2>3, <3>1, MinIsLeast
    <3>3. ASSUME NEW c, \A j \in Min(st.failed)..Len(st.rows) : BulkRow(st.rows[j]).at # c
          PROVE  AsBefore(c)
      <4>1. \A j \in Min(st.failed)..st.next-1 : BulkRow(st.rows[j]).at # c
        BY <3>1, <3>2, <3>3
      <4> QED BY <2>1, <2>3, <4>1 DEF BulkSoFar, LeftAlone
    <3> QED BY <2>3, <3>3 DEF AsBefore
  <2> QED BY <2>2, <2>3
<1> QED
  BY <1>1, BulkInvHolds, PTL

-----------------------------------------------------------------------------
(* overwrite: A1 addresses                                                 *)

\* Division by the number of letters.
LEMMA DivByLetters ==
    ASSUME NEW m \in Nat
    PROVE  /\ m \div OvwLetters \in Nat /\ m % OvwLetters \in Nat
           /\ (m \div OvwLetters) * OvwLetters + (m % OvwLetters) = m
           /\ m \div OvwLetters <= m
<1>1. OvwLetters \in Nat \ {0, 1}
  BY OvwAssumption
<1> DEFINE L == OvwLetters
<1>2. L \in Nat \ {0, 1}
  BY <1>1
<1> HIDE DEF L
<1>3. m \div L \in Nat /\ m % L \in 0..L-1 /\ m \div L <= m
  BY <1>2
<1>4. (m \div L) * L + (m % L) = m
  BY <1>2
<1> QED
  BY <1>2, <1>3, <1>4 DEF L

\* The letters of a column, by those of the columns before it.
LettersStep(g, n) ==
    LET m == n - 1
    IN  IF m \div OvwLetters = 0 THEN <<m % OvwLetters>>
        ELSE Append(g[m \div OvwLetters], m % OvwLetters)

\* Only an earlier column is looked at.
LEMMA LettersOfEarlier ==
    ASSUME NEW g, NEW h, NEW n \in Nat \ {0}, \A k \in 1..n-1 : g[k] = h[k]
    PROVE  LettersStep(g, n) = LettersStep(h, n)
<1>1. n - 1 \in Nat
  OBVIOUS
<1> DEFINE q == (n - 1) \div OvwLetters
<1>2. q \in Nat /\ q <= n - 1
  BY <1>1, DivByLetters
<1> HIDE DEF q
<1>3. q # 0 => g[q] = h[q]
  BY <1>2
<1> QED
  BY <1>3, Zenon DEF LettersStep, q

\* The letters of every column are defined.
LEMMA LettersUpTo ==
    ASSUME NEW size \in Nat
    PROVE  \E g : g = [k \in 1..size |-> LettersStep(g, k)]
<1> DEFINE Upto(n) == \E g : g = [k \in 1..n |-> LettersStep(g, k)]
           none == {n \in Nat : ~Upto(n)}
<1>1. Upto(0)
  <2> DEFINE g == [k \in 1..0 |-> 0]
  <2>1. 1..0 = {}
    OBVIOUS
  <2>2. g = [k \in 1..0 |-> LettersStep(g, k)]
    BY <2>1
  <2> QED BY <2>2
<1>2. ASSUME NEW n \in Nat, Upto(n) PROVE Upto(n + 1)
  <2>1. PICK g : g = [k \in 1..n |-> LettersStep(g, k)]
    BY <1>2
  <2> DEFINE h == [k \in 1..n+1 |-> IF k = n + 1 THEN LettersStep(g, k) ELSE g[k]]
  <2>2. \A k \in 1..n : h[k] = g[k]
    OBVIOUS
  <2>3. \A k \in 1..n : g[k] = LettersStep(g, k)
    BY <2>1
  <2>4. h = [k \in 1..n+1 |-> LettersStep(g, k)]
    BY <2>3
  <2> HIDE DEF h
  <2>5. ASSUME NEW k \in 1..n+1 PROVE LettersStep(h, k) = LettersStep(g, k)
    <3>1. k \in Nat \ {0} /\ \A j \in 1..k-1 : h[j] = g[j]
      BY <2>2
    <3> QED BY <3>1, LettersOfEarlier
  <2>6. h = [k \in 1..n+1 |-> LettersStep(h, k)]
    BY <2>4, <2>5, Zenon
  <2> QED BY <2>6
<1> HIDE DEF Upto
<1>3. none = {}
  <2> SUFFICES ASSUME none # {} PROVE FALSE
    OBVIOUS
  <2>0. none \subseteq Nat
    OBVIOUS
  <2>1. PICK n \in none : \A m \in none : n <= m
    BY <2>0, LeastNatural
  <2>2. n # 0 /\ n - 1 \in Nat
    BY <1>1
  <2>3. Upto(n - 1)
    BY <2>1, <2>2
  <2> QED BY <1>2, <2>2, <2>3
<1> QED BY <1>3 DEF Upto

\* Two such tables agree where both are defined.
LEMMA LettersAgree ==
    ASSUME NEW a \in Nat, NEW b \in Nat, a <= b, NEW g, NEW h,
           g = [k \in 1..a |-> LettersStep(g, k)], h = [k \in 1..b |-> LettersStep(h, k)]
    PROVE  \A k \in 1..a : g[k] = h[k]
<1> DEFINE differ == {k \in 1..a : g[k] # h[k]}
<1>1. differ = {}
  <2> SUFFICES ASSUME differ # {} PROVE FALSE
    OBVIOUS
  <2>0. differ \subseteq Nat
    OBVIOUS
  <2>1. PICK k \in differ : \A j \in differ : k <= j
    BY <2>0, LeastNatural
  <2>2. k \in Nat \ {0} /\ k \in 1..a /\ k \in 1..b /\ \A j \in 1..k-1 : g[j] = h[j]
    BY <2>1
  <2>3. LettersStep(g, k) = LettersStep(h, k)
    BY <2>2, LettersOfEarlier
  <2>4. g[k] = LettersStep(g, k) /\ h[k] = LettersStep(h, k)
    BY <2>2
  <2> QED BY <2>1, <2>3, <2>4
<1> QED BY <1>1

\* A1Letters is what its definition says.
LEMMA LettersByStep ==
    ASSUME NEW n \in Nat \ {0}
    PROVE  A1Letters[n] = LettersStep(A1Letters, n)
<1> DEFINE Part(k) == CHOOSE g : g = [j \in 1..k |-> LettersStep(g, j)]
           G == [k \in Nat \ {0} |-> Part(k)[k]]
<1>1. \A k \in Nat : Part(k) = [j \in 1..k |-> LettersStep(Part(k), j)]
  BY LettersUpTo
<1> HIDE DEF Part
<1>2. ASSUME NEW k \in Nat \ {0} PROVE G[k] = LettersStep(G, k)
  <2>1. G[k] = Part(k)[k] /\ \A j \in 1..k-1 : G[j] = Part(j)[j]
    OBVIOUS
  <2>2. ASSUME NEW j \in 1..k-1 PROVE Part(j)[j] = Part(k)[j]
    <3>1. j \in Nat /\ k \in Nat /\ j <= k /\ j \in 1..j
      OBVIOUS
    <3>2. /\ Part(j) = [i \in 1..j |-> LettersStep(Part(j), i)]
          /\ Part(k) = [i \in 1..k |-> LettersStep(Part(k), i)]
      BY <1>1, <3>1
    <3>3. \A i \in 1..j : Part(j)[i] = Part(k)[i]
      BY <3>1, <3>2, LettersAgree
    <3> QED BY <3>1, <3>3
  <2>3. \A j \in 1..k-1 : G[j] = Part(k)[j]
    BY <2>1, <2>2
  <2>4. Part(k)[k] = LettersStep(Part(k), k)
    <3>1. k \in Nat /\ k \in 1..k
      OBVIOUS
    <3>2. Part(k) = [j \in 1..k |-> LettersStep(Part(k), j)]
      BY <1>1, <3>1
    <3> QED BY <3>1, <3>2
  <2> HIDE DEF G
  <2>5. LettersStep(Part(k), k) = LettersStep(G, k)
    BY <2>3, LettersOfEarlier
  <2> QED BY <2>1, <2>4, <2>5
<1>3. G = [k \in Nat \ {0} |-> LettersStep(G, k)]
  BY <1>2
<1> HIDE DEF G
<1>4. \E g : g = [k \in Nat \ {0} |-> LettersStep(g, k)]
  BY <1>3
<1>5. A1Letters = CHOOSE g : g = [k \in Nat \ {0} |-> LettersStep(g, k)]
  BY DEF A1Letters, LettersStep
<1>6. A1Letters = [k \in Nat \ {0} |-> LettersStep(A1Letters, k)]
  BY <1>4, <1>5
<1> QED
  BY <1>6

\* The number that the first k letters stand for, by that of the first k - 1.
ColumnStep(s, h, k) ==
    IF k = 0 THEN 0 ELSE h[k-1] * OvwLetters + s[k] + 1
ColumnsOf(s) == CHOOSE g : g = [k \in 0..Len(s) |-> ColumnStep(s, g, k)]

\* The number of every prefix of the letters is defined.
LEMMA ColumnDefined ==
    ASSUME NEW s, NEW size \in Nat
    PROVE  \E g : g = [k \in 0..size |-> ColumnStep(s, g, k)]
<1> DEFINE Upto(n) == \E g : g = [k \in 0..n |-> ColumnStep(s, g, k)]
           none == {n \in Nat : ~Upto(n)}
<1>1. Upto(0)
  <2> DEFINE g == [k \in 0..0 |-> 0]
  <2>1. \A k \in 0..0 : ColumnStep(s, g, k) = 0
    BY DEF ColumnStep
  <2>2. g = [k \in 0..0 |-> ColumnStep(s, g, k)]
    BY <2>1, Zenon
  <2> QED BY <2>2
<1>2. ASSUME NEW n \in Nat, Upto(n) PROVE Upto(n + 1)
  <2>1. PICK g : g = [k \in 0..n |-> ColumnStep(s, g, k)]
    BY <1>2
  <2> DEFINE h == [k \in 0..n+1 |-> IF k = n + 1 THEN ColumnStep(s, g, k) ELSE g[k]]
  <2>2. \A k \in 0..n : h[k] = g[k]
    OBVIOUS
  <2>3. \A k \in 0..n : g[k] = ColumnStep(s, g, k)
    BY <2>1
  <2>4. h = [k \in 0..n+1 |-> ColumnStep(s, g, k)]
    BY <2>3
  <2> HIDE DEF h
  <2>5. ASSUME NEW k \in 0..n+1 PROVE ColumnStep(s, h, k) = ColumnStep(s, g, k)
    <3>1. k # 0 => h[k-1] = g[k-1]
      BY <2>2
    <3> QED BY <3>1, Zenon DEF ColumnStep
  <2>6. h = [k \in 0..n+1 |-> ColumnStep(s, h, k)]
    BY <2>4, <2>5, Zenon
  <2> QED BY <2>6
<1> HIDE DEF Upto
<1>3. none = {}
  <2> SUFFICES ASSUME none # {} PROVE FALSE
    OBVIOUS
  <2>0. none \subseteq Nat
    OBVIOUS
  <2>1. PICK n \in none : \A m \in none : n <= m
    BY <2>0, LeastNatural
  <2>2. n # 0 /\ n - 1 \in Nat
    BY <1>1
  <2>3. Upto(n - 1)
    BY <2>1, <2>2
  <2> QED BY <1>2, <2>2, <2>3
<1> QED BY <1>3 DEF Upto

\* ColumnsOf is what its definition says.
LEMMA ColumnByStep ==
    ASSUME NEW s, Len(s) \in Nat, NEW k \in 0..Len(s)
    PROVE  ColumnsOf(s)[k] = ColumnStep(s, ColumnsOf(s), k)
<1> DEFINE C == ColumnsOf(s)
<1>1. C = [n \in 0..Len(s) |-> ColumnStep(s, C, n)]
  BY ColumnDefined DEF ColumnsOf
<1> HIDE DEF C
<1>2. C[k] = ColumnStep(s, C, k)
  BY <1>1
<1> QED BY <1>2 DEF C

\* Letters are numbers, and so is every column they stand for.
LEMMA ColumnIsNat ==
    ASSUME NEW s \in Seq(Nat)
    PROVE  \A k \in 0..Len(s) : ColumnsOf(s)[k] \in Nat
<1>0. Len(s) \in Nat /\ \A k \in 1..Len(s) : s[k] \in Nat
  BY ElementOfSeq, LenProperties
<1> DEFINE C == ColumnsOf(s)
           wrong == {k \in 0..Len(s) : C[k] \notin Nat}
<1>1. \A k \in 0..Len(s) : C[k] = ColumnStep(s, C, k)
  BY <1>0, ColumnByStep
<1> HIDE DEF C
<1>2. wrong = {}
  <2> SUFFICES ASSUME wrong # {} PROVE FALSE
    OBVIOUS
  <2>0. wrong \subseteq Nat
    BY <1>0
  <2>1. PICK k \in wrong : \A m \in wrong : k <= m
    BY <2>0, LeastNatural
  <2>2. C[k] = ColumnStep(s, C, k) /\ k \in 0..Len(s)
    BY <1>1
  <2>3. CASE k = 0
    BY <2>2, <2>3 DEF ColumnStep
  <2>4. CASE k # 0
    <3>1. C[k-1] \in Nat /\ s[k] \in Nat
      BY <1>0, <2>1, <2>2, <2>4
    <3>2. C[k] = C[k-1] * OvwLetters + s[k] + 1
      BY <2>2, <2>4 DEF ColumnStep
    <3>3. OvwLetters \in Nat
      BY OvwAssumption
    <3>4. C[k-1] * OvwLetters \in Nat
      BY <3>1, <3>3
    <3>5. C[k] \in Nat
      BY <3>1, <3>2, <3>4
    <3> QED BY <3>5
  <2> QED BY <2>3, <2>4
<1> QED BY <1>2 DEF C

\* One letter more.
LEMMA ColumnOfAppend ==
    ASSUME NEW s \in Seq(Nat), NEW e \in Nat
    PROVE  /\ Append(s, e) \in Seq(Nat)
           /\ ColumnsOf(Append(s, e))[Len(Append(s, e))]
                = ColumnsOf(s)[Len(s)] * OvwLetters + e + 1
<1> DEFINE t == Append(s, e)
           C == ColumnsOf(s)
           D == ColumnsOf(t)
<1>1. /\ t \in Seq(Nat) /\ Len(s) \in Nat /\ Len(t) = Len(s) + 1
      /\ t[Len(s) + 1] = e /\ \A k \in 1..Len(s) : t[k] = s[k]
  OBVIOUS
<1>2. /\ \A k \in 0..Len(s) : C[k] = ColumnStep(s, C, k)
      /\ \A k \in 0..Len(t) : D[k] = ColumnStep(t, D, k)
  <2>1. \A k \in 0..Len(s) : C[k] = ColumnStep(s, C, k)
    BY <1>1, ColumnByStep
  <2>2. Len(t) \in Nat
    BY <1>1
  <2> HIDE DEF t
  <2>3. \A k \in 0..Len(t) : D[k] = ColumnStep(t, D, k)
    BY <2>2, ColumnByStep
  <2> QED BY <2>1, <2>3
<1> HIDE DEF C, D, t
<1> DEFINE differ == {k \in 0..Len(s) : D[k] # C[k]}
<1>3. differ = {}
  <2> SUFFICES ASSUME differ # {} PROVE FALSE
    OBVIOUS
  <2>0. differ \subseteq Nat
    BY <1>1
  <2>1. PICK k \in differ : \A m \in differ : k <= m
    BY <2>0, LeastNatural
  <2>2. /\ C[k] = ColumnStep(s, C, k) /\ D[k] = ColumnStep(t, D, k)
        /\ k # 0 => D[k-1] = C[k-1] /\ t[k] = s[k]
    BY <1>1, <1>2, <2>1
  <2>3. D[k] = C[k]
    BY <2>2, Zenon DEF ColumnStep
  <2> QED BY <2>1, <2>3
<1>4. D[Len(s)] = C[Len(s)]
  BY <1>1, <1>3
<1>5. D[Len(t)] = D[Len(s)] * OvwLetters + e + 1
  <2>1. Len(t) # 0 /\ Len(t) - 1 = Len(s) /\ Len(t) \in 0..Len(t) /\ t[Len(t)] = e
    BY <1>1
  <2>2. D[Len(t)] = ColumnStep(t, D, Len(t))
    BY <1>2, <2>1
  <2> QED BY <2>1, <2>2, Zenon DEF ColumnStep
<1>6. D[Len(t)] = C[Len(s)] * OvwLetters + e + 1
  BY <1>4, <1>5
<1> QED BY <1>1, <1>6 DEF C, D, t

\* A column's letters stand for that column.
LEMMA LettersLeadBack ==
    ASSUME NEW n \in Nat \ {0}
    PROVE  A1Letters[n] \in Seq(Nat) /\ ColumnsOf(A1Letters[n])[Len(A1Letters[n])] = n
<1> DEFINE Good(k) == A1Letters[k] \in Seq(Nat) /\ ColumnsOf(A1Letters[k])[Len(A1Letters[k])] = k
           wrong == {k \in Nat \ {0} : ~Good(k)}
<1>1. ASSUME NEW k \in Nat \ {0}, \A j \in 1..k-1 : Good(j) PROVE Good(k)
  <2> DEFINE d == (k - 1) \div OvwLetters
             e == (k - 1) % OvwLetters
  <2>1. k - 1 \in Nat
    OBVIOUS
  <2>2. d \in Nat /\ e \in Nat /\ d * OvwLetters + e = k - 1 /\ d <= k - 1
    BY <2>1, DivByLetters
  <2>3. A1Letters[k] = IF d = 0 THEN <<e>> ELSE Append(A1Letters[d], e)
    BY LettersByStep DEF LettersStep
  <2>4. OvwLetters \in Nat
    BY OvwAssumption
  <2> HIDE DEF d, e
  <2>5. CASE d = 0
    <3>1. A1Letters[k] = Append(<<>>, e) /\ <<>> \in Seq(Nat) /\ Len(<<>>) = 0
      BY <2>3, <2>5
    <3>2. ColumnsOf(<<>>)[0] = 0
      BY <3>1, ColumnByStep DEF ColumnStep
    <3>3. /\ A1Letters[k] \in Seq(Nat)
          /\ ColumnsOf(A1Letters[k])[Len(A1Letters[k])] = 0 * OvwLetters + e + 1
      BY <2>2, <3>1, <3>2, ColumnOfAppend
    <3>4. 0 * OvwLetters + e + 1 = k
      BY <2>2, <2>4, <2>5
    <3> QED BY <3>3, <3>4
  <2>6. CASE d # 0
    <3>1. Good(d)
      BY <1>1, <2>2, <2>6
    <3>2. /\ A1Letters[k] \in Seq(Nat)
          /\ ColumnsOf(A1Letters[k])[Len(A1Letters[k])] = d * OvwLetters + e + 1
      BY <2>2, <2>3, <2>6, <3>1, ColumnOfAppend
    <3>3. d * OvwLetters \in Nat
      BY <2>2, <2>4
    <3>4. d * OvwLetters + e + 1 = k
      BY <2>2, <3>3
    <3> QED BY <3>2, <3>4
  <2> QED BY <2>5, <2>6
<1> HIDE DEF Good
<1>2. wrong = {}
  <2> SUFFICES ASSUME wrong # {} PROVE FALSE
    OBVIOUS
  <2>0. wrong \subseteq Nat
    OBVIOUS
  <2>1. PICK k \in wrong : \A m \in wrong : k <= m
    BY <2>0, LeastNatural
  <2>2. k \in Nat \ {0} /\ \A j \in 1..k-1 : Good(j)
    BY <2>1
  <2> QED BY <1>1, <2>1, <2>2
<1>3. Good(n)
  BY <1>2
<1> QED BY <1>3 DEF Good

\* The address that a cell is printed with leads back to that cell, in a table
\* of any size (row_col_to_a1, parse_xl_address).
THEOREM AddressLeadsBack ==
    \A row, col \in Nat : ParseXlAddress(A1Address(<<row, col>>)) = <<row, col>>
<1> SUFFICES ASSUME NEW row \in Nat, NEW col \in Nat
             PROVE  ParseXlAddress(A1Address(<<row, col>>)) = <<row, col>>
  OBVIOUS
<1> DEFINE letters == A1Letters[col + 1]
<1>1. ColumnsOf(letters)[Len(letters)] = col + 1
  BY LettersLeadBack
<1>2. A1Address(<<row, col>>) = [letters |-> letters, digits |-> row + 1]
  BY DEF A1Address
<1> HIDE DEF letters
<1>3. ParseXlAddress(A1Address(<<row, col>>))
        = <<row + 1 - 1, ColumnsOf(letters)[Len(letters)] - 1>>
  <2> DEFINE a == [letters |-> letters, digits |-> row + 1]
  <2>1. a.letters = letters /\ a.digits = row + 1
    OBVIOUS
  <2> HIDE DEF a
  <2>2. ParseXlAddress(a) = <<a.digits - 1, ColumnsOf(a.letters)[Len(a.letters)] - 1>>
    BY DEF ParseXlAddress, ColumnsOf, ColumnStep
  <2>3. ParseXlAddress(a) = <<row + 1 - 1, ColumnsOf(letters)[Len(letters)] - 1>>
    BY <2>1, <2>2
  <2> QED BY <1>2, <2>3 DEF a
<1> QED
  BY <1>1, <1>3

-----------------------------------------------------------------------------
(* overwrite: what list prints                                             *)

\* The place of a cell among finitely many is a number up to theirs.
LEMMA PlaceIsAPlace ==
    ASSUME NEW S, IsFiniteSet(S), NEW c \in S
    PROVE  PlaceOf(S, c) \in 1..Cardinality(S)
<1> DEFINE T == {b \in S : b = c \/ CellLess(b, c)}
<1>1. T \in SUBSET S /\ c \in T
  OBVIOUS
<1> HIDE DEF T
<1>2. IsFiniteSet(T) /\ Cardinality(T) <= Cardinality(S)
  BY <1>1, FS_Subset
<1>3. Cardinality(T) \in Nat /\ Cardinality(S) \in Nat
  BY <1>2, FS_CardinalityType
<1>4. Cardinality(T) # 0
  BY <1>1, <1>2, FS_EmptySet
<1>5. Cardinality(T) \in 1..Cardinality(S)
  BY <1>2, <1>3, <1>4
<1> QED
  BY <1>5 DEF PlaceOf, T

\* Of two cells one comes first, and its place is the smaller.
LEMMA PlacesDiffer ==
    ASSUME NEW S, IsFiniteSet(S), S \subseteq Nat \X Nat, NEW c \in S, NEW d \in S, c # d
    PROVE  PlaceOf(S, c) # PlaceOf(S, d)
<1>1. ASSUME NEW a \in S, NEW e \in S, CellLess(a, e) PROVE PlaceOf(S, a) # PlaceOf(S, e)
  <2> DEFINE A == {b \in S : b = a \/ CellLess(b, a)}
             E == {b \in S : b = e \/ CellLess(b, e)}
  <2>1. ASSUME NEW b \in S, b = a \/ CellLess(b, a) PROVE CellLess(b, e)
    BY <1>1, <2>1 DEF CellLess
  <2>2. ~CellLess(e, e)
    BY DEF CellLess
  <2>3. e \notin A
    BY <2>1, <2>2
  <2>4. A \in SUBSET E /\ E \in SUBSET S /\ e \in E
    BY <2>1
  <2> HIDE DEF A, E
  <2>5. IsFiniteSet(E)
    BY <2>4, FS_Subset
  <2>6. Cardinality(E) # Cardinality(A)
    BY <2>3, <2>4, <2>5, FS_Subset
  <2> QED BY <2>6 DEF PlaceOf, A, E
<1>2. CellLess(c, d) \/ CellLess(d, c)
  BY DEF CellLess
<1> QED
  BY <1>1, <1>2

\* Every cell has its place in the order, and every place its cell.
LEMMA OrderHasEveryCell ==
    ASSUME NEW S, IsFiniteSet(S), S \subseteq Nat \X Nat
    PROVE  /\ \A k \in 1..Cardinality(S) : InOrder(S)[k] \in S
           /\ \A c \in S : \E k \in 1..Cardinality(S) : InOrder(S)[k] = c
<1> DEFINE n == Cardinality(S)
           place == [c \in S |-> PlaceOf(S, c)]
<1>1. n \in Nat
  BY FS_CardinalityType
<1>2. IsFiniteSet(1..n) /\ Cardinality(1..n) = n
  BY <1>1, FS_Interval
<1>3. place \in [S -> 1..n]
  BY PlaceIsAPlace
<1>4. \A c, d \in S : place[c] = place[d] => c = d
  BY PlacesDiffer
<1>5. \A c \in S : place[c] = PlaceOf(S, c)
  OBVIOUS
<1>6. \A k \in 1..n : InOrder(S)[k] = CHOOSE c \in S : PlaceOf(S, c) = k
  BY DEF InOrder
<1> HIDE DEF place
<1>7. place \in Injection(S, 1..n)
  BY <1>3, <1>4 DEF Injection, IsInjective
<1>8. place \in Surjection(S, 1..n)
  BY <1>2, <1>7, FS_Injection
<1>9. \A k \in 1..n : \E c \in S : place[c] = k
  BY <1>8 DEF Surjection
<1>10. \A k \in 1..n : InOrder(S)[k] \in S /\ place[InOrder(S)[k]] = k
  <2> TAKE k \in 1..n
  <2>1. \E c \in S : PlaceOf(S, c) = k
    BY <1>5, <1>9
  <2>2. InOrder(S)[k] \in S /\ PlaceOf(S, InOrder(S)[k]) = k
    BY <1>6, <2>1
  <2> QED BY <1>5, <2>2
<1>11. ASSUME NEW c \in S PROVE \E k \in 1..n : InOrder(S)[k] = c
  <2>1. place[c] \in 1..n
    BY <1>3
  <2>2. InOrder(S)[place[c]] \in S /\ place[InOrder(S)[place[c]]] = place[c]
    BY <1>10, <2>1
  <2>3. InOrder(S)[place[c]] = c
    BY <1>4, <2>2
  <2> QED BY <2>1, <2>3
<1> QED
  BY <1>10, <1>11

\* A table of finitely many cells, each with its row and its column.
CellTable(table) == IsFiniteSet(DOMAIN table) /\ DOMAIN table \subseteq OvwCells

\* The listing of such a table names every cell of it once.
LEMMA ListingOfTable ==
    ASSUME NEW table, CellTable(table)
    PROVE  /\ {ParseXlAddress(Listing(table)[k].at) : k \in DOMAIN Listing(table)} = DOMAIN table
           /\ \A k \in DOMAIN Listing(table) :
                table[ParseXlAddress(Listing(table)[k].at)] = Listing(table)[k].value
           /\ Len(Listing(table)) = Cardinality(DOMAIN table)
<1> DEFINE S == DOMAIN table
           n == Cardinality(S)
           cells == InOrder(S)
           lines == Listing(table)
<1>1. IsFiniteSet(S) /\ S \subseteq Nat \X Nat
  BY OvwAssumption DEF CellTable
<1>2. n \in Nat
  BY <1>1, FS_CardinalityType
<1>3. /\ \A k \in 1..n : cells[k] \in S
      /\ \A c \in S : \E k \in 1..n : cells[k] = c
  BY <1>1, OrderHasEveryCell
<1>4. lines = [k \in 1..n |-> [at |-> A1Address(cells[k]), value |-> table[cells[k]]]]
  BY DEF Listing
<1> HIDE DEF lines, cells, n
<1>5. \A k \in 1..n : lines[k].at = A1Address(cells[k]) /\ lines[k].value = table[cells[k]]
  BY <1>4
<1>6. lines = [k \in 1..n |-> lines[k]]
  BY <1>4
<1>7. DOMAIN lines = 1..n /\ Len(lines) = n
  BY <1>2, <1>6, ListIsSequence
<1>8. ASSUME NEW k \in 1..n PROVE ParseXlAddress(lines[k].at) = cells[k]
  <2>1. cells[k] \in Nat \X Nat
    BY <1>1, <1>3
  <2>2. PICK row \in Nat, col \in Nat : cells[k] = <<row, col>>
    BY <2>1
  <2>3. ParseXlAddress(A1Address(<<row, col>>)) = <<row, col>>
    BY AddressLeadsBack
  <2> QED BY <1>5, <2>2, <2>3
<1>9. {ParseXlAddress(lines[k].at) : k \in DOMAIN lines} = S
  <2>1. {ParseXlAddress(lines[k].at) : k \in DOMAIN lines} = {cells[k] : k \in 1..n}
    BY <1>7, <1>8, Zenon
  <2>2. {cells[k] : k \in 1..n} = S
    BY <1>3
  <2> QED BY <2>1, <2>2
<1>10. \A k \in DOMAIN lines : table[ParseXlAddress(lines[k].at)] = lines[k].value
  BY <1>5, <1>7, <1>8
<1> QED
  BY <1>7, <1>9, <1>10 DEF lines, n

\* A statement leaves a table of finitely many cells.
LEMMA EffectOnTable ==
    ASSUME NEW op, NEW table, NEW row, NEW force, CellTable(table), row.at \in OvwCells
    PROVE  CellTable(Effect(op, table, row, force))
<1>1. CellTable(Added(table, row, force))
  <2> DEFINE T == DOMAIN table \cup {row.at}
  <2>1. IsFiniteSet(T) /\ T \subseteq OvwCells
    BY FS_AddElement DEF CellTable
  <2>2. DOMAIN Added(table, row, force) \in {DOMAIN table, T}
    BY DEF Added
  <2> QED BY <2>1, <2>2 DEF CellTable
<1>2. CellTable(Removed(table, row))
  <2> DEFINE T == DOMAIN table \ {row.at}
  <2>1. IsFiniteSet(T) /\ T \subseteq OvwCells
    BY FS_RemoveElement DEF CellTable
  <2>2. DOMAIN Removed(table, row) \in {DOMAIN table, T}
    BY DEF Removed, Restrict
  <2> QED BY <2>1, <2>2 DEF CellTable
<1> QED
  BY <1>1, <1>2, Zenon DEF Effect

\* The file and an open transaction hold finitely many cells, and what list
\* has printed is the listing of the file as it still is.
ListHolds(s, printed, table) ==
    /\ CellTable(table)
    /\ s.pc = "bulk" =>
         /\ s.rows \in OvwBulk /\ s.next \in Nat \ {0} /\ s.op # "list"
         /\ s.tx => CellTable(s.work)
    /\ s.op = "list" => printed = Listing(table)

ListInv == cmd = "overwrite" /\ ListHolds(st, out, disk)

\* Commands of one statement.
LEMMA OneStatementLists ==
    ASSUME ListInv, OverwriteOne \/ OverwriteClear \/ OverwriteList
    PROVE  ListInv'
<1>0. cmd' = cmd
  BY Zenon DEF OverwriteOne, OverwriteClear, OverwriteList
<1>1. cmd' = "overwrite"
  BY <1>0 DEF ListInv
<1>2. CASE OverwriteOne
  <2>1. PICK op \in {"add", "remove"}, row \in OvwEntry, force \in BOOLEAN :
          /\ disk' = IF Fails(op, disk, row, force) THEN disk ELSE Effect(op, disk, row, force)
          /\ st' = [OvwIdle(st.left - 1) EXCEPT !.op = op, !.rows = <<row>>,
                      !.err = Fails(op, disk, row, force), !.before = disk]
    BY <1>2, Zenon DEF OverwriteOne
  <2>2. st'.pc = "idle" /\ st'.op = op
    BY <2>1 DEF OvwIdle
  <2>3. row.at \in OvwCells
    BY DEF OvwEntry
  <2>4. CellTable(disk')
    BY <2>1, <2>3, EffectOnTable DEF ListInv, ListHolds
  <2> QED BY <1>1, <2>2, <2>4 DEF ListInv, ListHolds
<1>3. CASE OverwriteClear
  <2>1. disk' = OvwNothing /\ st' = [OvwIdle(st.left - 1) EXCEPT !.op = "clear", !.before = disk]
    BY <1>3 DEF OverwriteClear
  <2>2. st'.pc = "idle" /\ st'.op = "clear"
    BY <2>1 DEF OvwIdle
  <2>3. CellTable(disk')
    BY <2>1, FS_EmptySet DEF CellTable, OvwNothing
  <2> QED BY <1>1, <2>2, <2>3 DEF ListInv, ListHolds
<1>4. CASE OverwriteList
  <2>1. /\ disk' = disk /\ out' = Listing(disk)
        /\ st' = [OvwIdle(st.left - 1) EXCEPT !.op = "list", !.before = disk]
    BY <1>4 DEF OverwriteList
  <2>2. st'.pc = "idle"
    BY <2>1 DEF OvwIdle
  <2> QED BY <1>1, <2>1, <2>2 DEF ListInv, ListHolds
<1> QED
  BY <1>2, <1>3, <1>4

\* A bulk change, row by row, to its end or to that of the process.
LEMMA BulkLists ==
    ASSUME ListInv, BulkInv,
           OverwriteBulk \/ OverwriteBulkRow \/ OverwriteBulkEnd \/ OverwriteCrash
    PROVE  ListInv'
<1>0. cmd' = cmd
  BY Zenon DEF OverwriteBulk, OverwriteBulkRow, OverwriteBulkEnd, OverwriteCrash
<1>1. cmd' = "overwrite"
  BY <1>0 DEF ListInv
<1>2. CASE OverwriteBulk
  <2>1. PICK op \in {"add", "remove"}, rows \in OvwBulk, force \in BOOLEAN :
          /\ disk' = disk
          /\ st' = [OvwIdle(st.left - 1) EXCEPT !.pc = "bulk", !.op = op, !.rows = rows,
                      !.force = force, !.tx = TRUE, !.work = disk, !.before = disk]
    BY <1>2, Zenon DEF OverwriteBulk
  <2>2. st'.rows = rows /\ st'.next = 1 /\ st'.op = op /\ st'.work = disk
    BY <2>1 DEF OvwIdle
  <2> QED BY <1>1, <2>1, <2>2 DEF ListInv, ListHolds
<1>3. CASE OverwriteBulkRow
  <2> DEFINE row == BulkRow(st.rows[st.next])
             table == IF st.tx THEN st.work ELSE disk
             empty == NoValueYet(st.op, st.rows, st.next)
             fails == ~empty /\ Fails(st.op, table, row, st.force)
             new == IF empty THEN table ELSE Effect(st.op, table, row, st.force)
  <2>1. /\ st.pc = "bulk" /\ st.next <= Len(st.rows)
        /\ st' = [st EXCEPT !.next = @ + 1,
                            !.tx = @ /\ ~fails,
                            !.work = IF st.tx /\ ~fails THEN new ELSE OvwNothing,
                            !.failed = IF fails THEN @ \cup {st.next} ELSE @]
        /\ disk' = IF st.tx \/ fails THEN disk ELSE new
    BY <1>3 DEF OverwriteBulkRow
  <2>2. st.rows \in OvwBulk /\ st.next \in Nat \ {0} /\ st.op # "list" /\ CellTable(disk)
        /\ (st.tx => CellTable(st.work))
    BY <2>1 DEF ListInv, ListHolds
  <2>3. st.next \in DOMAIN st.rows
    BY <2>1, <2>2, OvwAssumption
  <2>4. row.at \in OvwCells
    BY <2>2, <2>3, OvwAssumption DEF BulkRow
  <2>5. CellTable(table)
    BY <2>2
  <2> HIDE DEF row, table, empty
  <2>6. CellTable(new)
    BY <2>4, <2>5, EffectOnTable
  <2> HIDE DEF new, fails
  <2>7. OvwShape(st)
    BY DEF BulkInv
  <2>8. st'.rows = st.rows /\ st'.next = st.next + 1 /\ st'.op = st.op
        /\ st'.tx = (st.tx /\ ~fails)
        /\ st'.work = IF st.tx /\ ~fails THEN new ELSE OvwNothing
    BY <2>1, <2>7 DEF OvwShape
  <2>9. st'.tx => CellTable(st'.work)
    BY <2>6, <2>8
  <2>10. CellTable(disk')
    BY <2>1, <2>2, <2>6
  <2> QED BY <1>1, <2>2, <2>8, <2>9, <2>10 DEF ListInv, ListHolds
<1>4. CASE OverwriteBulkEnd \/ OverwriteCrash
  <2>1. PICK err : st' = [st EXCEPT !.pc = "idle", !.err = err, !.tx = FALSE, !.work = OvwNothing]
    <3>1. CASE OverwriteCrash
      BY <3>1, Zenon DEF OverwriteCrash
    <3>2. CASE OverwriteBulkEnd
      <4>1. st' = [st EXCEPT !.pc = "idle", !.tx = FALSE, !.work = OvwNothing]
        BY <3>2 DEF OverwriteBulkEnd
      <4>2. st' = [st EXCEPT !.pc = "idle", !.err = st.err, !.tx = FALSE, !.work = OvwNothing]
        BY <4>1 DEF OvwShape, BulkInv
      <4> QED BY <4>2, Zenon
    <3> QED BY <1>4, <3>1, <3>2, Zenon
  <2>2. st'.pc = "idle" /\ st'.op = st.op
    BY <2>1 DEF OvwShape, BulkInv
  <2>3. st.pc = "bulk" /\ (disk' = disk \/ (st.tx /\ disk' = st.work))
    BY <1>4 DEF OverwriteBulkEnd, OverwriteCrash
  <2>4. CellTable(disk') /\ st.op # "list"
    BY <2>3 DEF ListInv, ListHolds
  <2> QED BY <1>1, <2>2, <2>4 DEF ListInv, ListHolds
<1> QED
  BY <1>2, <1>3, <1>4

\* What list prints can be given back to add: in a table of any size every
\* address leads to the cell it was printed for, and no two lines name the
\* same one (show_all_overwrites, parse_xl_address).
THEOREM ListsLeadBack == OverwriteSpec => []ListedAddressesLeadBack
<1>1. OverwriteInit => ListInv
  <2> SUFFICES ASSUME OverwriteInit PROVE ListInv
    OBVIOUS
  <2>1. cmd = "overwrite" /\ disk = OvwNothing /\ st = OvwIdle(OvwCommands)
    BY DEF OverwriteInit
  <2>2. st.pc = "idle" /\ st.op = "none"
    BY <2>1 DEF OvwIdle
  <2>3. CellTable(disk)
    BY <2>1, FS_EmptySet DEF CellTable, OvwNothing
  <2> QED BY <2>1, <2>2, <2>3 DEF ListInv, ListHolds
<1>2. ListInv /\ BulkInv /\ [OverwriteNext \/ Finished]_procVars => ListInv'
  <2> SUFFICES ASSUME ListInv, BulkInv, [OverwriteNext \/ Finished]_procVars PROVE ListInv'
    OBVIOUS
  <2>1. CASE UNCHANGED procVars
    BY <2>1 DEF procVars, ListInv, ListHolds
  <2>2. CASE OverwriteDone
    <3>1. st' = [st EXCEPT !.pc = "done"] /\ UNCHANGED <<cmd, out, disk>>
      BY <2>2 DEF OverwriteDone
    <3>2. st'.pc = "done" /\ st'.op = st.op
      BY <3>1 DEF OvwShape, BulkInv
    <3> QED BY <3>1, <3>2 DEF ListInv, ListHolds
  <2>3. CASE OverwriteNext
    BY <2>2, <2>3, OneStatementLists, BulkLists DEF OverwriteNext
  <2> QED BY <2>1, <2>3 DEF Finished
<1>3. ListInv => ListedAddressesLeadBack
  <2>1. CellTable(disk) /\ out = Listing(disk) =>
          /\ {ParseXlAddress(out[k].at) : k \in DOMAIN out} = DOMAIN disk
          /\ \A k \in DOMAIN out : disk[ParseXlAddress(out[k].at)] = out[k].value
          /\ Len(out) = Cardinality(DOMAIN disk)
    BY ListingOfTable, Zenon
  <2> QED BY <2>1, Zenon DEF ListInv, ListHolds, ListedAddressesLeadBack
<1> QED
  BY <1>1, <1>2, <1>3, BulkInvHolds, PTL DEF OverwriteSpec
===============================================================================
