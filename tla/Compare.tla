------------------------------ MODULE Compare ------------------------------
(***************************************************************************)
(* app/compare.c with compare_sort.c, compare_unique_colname.c and         *)
(* compare_redline.c: two or more inputs are merged by key.  Each step     *)
(* loads a row of every input that has none, takes the inputs that show    *)
(* the smallest key for one group, reports what differs within the group   *)
(* and lets the group's rows go.  A cell is a character code, 0 if blank.  *)
(***************************************************************************)
EXTENDS Process

CONSTANTS
    CmpInputs,    \* sequences of [header, rows]
    CmpOptions    \* [keys, sort, tol, requireAll, redline, tolerated, add]

\* An input has a header and rows of cells.
ASSUME CmpAssumption ==
    /\ \A files \in CmpInputs : IsList(files) /\ \A i \in DOMAIN files :
         /\ IsList(files[i].header) /\ IsList(files[i].rows)
         /\ \A r \in DOMAIN files[i].rows :
              /\ IsList(files[i].rows[r])
              /\ \A c \in DOMAIN files[i].rows[r] : files[i].rows[r][c] \in Nat
    /\ \A o \in CmpOptions : IsList(o.keys)

\* zsv_strincmp orders by the lower-case letter, sqlite by the code itself.
FoldCase(v) == IF v \in 65..90 THEN v + 32 ELSE v
IsDigit(v) == v \in 48..57

KeyLess(a, b) ==
    \E k \in DOMAIN a : a[k] < b[k] /\ \A j \in 1..(k - 1) : a[j] = b[j]

\* zsv_compare_unique_colname_add: the name and how often it occurred before.
Instance(header, c) ==
    <<header[c], Cardinality({b \in 1..(c - 1) : header[b] = header[c]})>>

CmpRow(f, r, c) == IF c \in DOMAIN f.rows[r] THEN f.rows[r][c] ELSE 0

\* The columns of a key: for each key the first column of that name which no
\* earlier key has taken; 0 if there is none.
KeyColumns(keys, header) ==
    LET taken[k \in 0..Len(keys)] ==
          IF k = 0 THEN <<>>
          ELSE LET free == {c \in DOMAIN header :
                              header[c] = keys[k] /\ c \notin Range(taken[k-1])}
               IN  Append(taken[k-1], IF free = {} THEN 0 ELSE Min(free))
    IN  taken[Len(keys)]

\* compare_sort.c: with --sort the rows come from "select * order by" the keys;
\* rows of equal keys stay as they are.
SqlOrder(keys, f) ==
    LET cols == KeyColumns(keys, f.header)
        code(row) == [k \in DOMAIN cols |-> IF cols[k] \in DOMAIN row THEN row[cols[k]] ELSE 0]
        before(q, r) == \/ KeyLess(code(f.rows[q]), code(f.rows[r]))
                        \/ q < r /\ ~KeyLess(code(f.rows[r]), code(f.rows[q]))
        place(r) == Cardinality({q \in DOMAIN f.rows : before(q, r)}) + 1
    IN  [k \in DOMAIN f.rows |-> f.rows[CHOOSE r \in DOMAIN f.rows : place(r) = k]]

CompareInit ==
    /\ cmd = "compare" /\ out = <<>> /\ disk = <<>>
    /\ \E f \in CmpInputs, o \in CmpOptions :
         st = [pc |-> "open", files |-> f, opts |-> o, status |-> "ok",
               colnames |-> <<>>, out2in |-> <<>>, keyCols |-> <<>>,
               next |-> [i \in DOMAIN f |-> 1], rowCount |-> 0, diffs |-> 0,
               redline |-> [inAll |-> 0, missing |-> [i \in DOMAIN f |-> 0],
                            perInput |-> [i \in DOMAIN f |-> 0], withDiff |-> 0,
                            compared |-> 0, matched |-> 0, tolerated |-> 0, differing |-> 0]]

CmpInput == DOMAIN st.files

\* Opening the inputs: a file without a header row is an error, --add does not
\* go with --redline, --sort needs a key and brings the rows of each input into the order of its key.
CompareOpen ==
    /\ st.pc = "open"
    /\ LET bad == \/ st.opts.sort /\ st.opts.keys = <<>>
                  \/ st.opts.redline /\ st.opts.add # ""
                  \/ \E i \in CmpInput : st.files[i].header = <<>>
       IN  st' = [st EXCEPT
             !.pc = IF bad THEN "done" ELSE "columns",
             !.status = IF bad THEN "error" ELSE @,
             !.files = IF bad \/ ~st.opts.sort THEN @
                       ELSE [i \in CmpInput |-> [header |-> @[i].header,
                                                 rows |-> SqlOrder(st.opts.keys, @[i])]]]
    /\ UNCHANGED <<cmd, out, disk>>

\* The output columns are the named columns of all the inputs, each once.
UnionColumns(files) ==
    LET names[i \in 0..Len(files)] ==
          IF i = 0 THEN <<>>
          ELSE LET h == files[i].header
                   upTo[c \in 0..Len(h)] ==
                     IF c = 0 THEN names[i-1]
                     ELSE IF Instance(h, c) \in Range(upTo[c-1]) THEN upTo[c-1]
                     ELSE Append(upTo[c-1], Instance(h, c))
               IN  upTo[Len(h)]
    IN  names[Len(files)]

\* The main function up to the loop: keys are looked for in every input, the
\* columns of each input are mapped to those of the output, and fewer than two
\* inputs are refused.
CompareColumns ==
    /\ st.pc = "columns"
    /\ LET cols == [i \in CmpInput |-> KeyColumns(st.opts.keys, st.files[i].header)]
           names == UnionColumns(st.files)
           at(i, o) == {c \in DOMAIN st.files[i].header : Instance(st.files[i].header, c) = names[o]}
           bad == Len(st.files) < 2 \/ \E i \in CmpInput : 0 \in Range(cols[i])
       IN  st' = [st EXCEPT
             !.pc = IF bad THEN "done" ELSE "rows",
             !.status = IF bad THEN "error" ELSE @,
             !.keyCols = cols,
             !.colnames = names,
             !.out2in = [i \in CmpInput |-> [o \in DOMAIN names |->
                           IF at(i, o) = {} THEN 0 ELSE Min(at(i, o))]]]
    /\ UNCHANGED <<cmd, out, disk>>
\* A column is a key column if it is one of the input that brought it in.
IsKeyColumn(o) ==
    LET first == Min({i \in CmpInput : st.out2in[i][o] # 0})
    IN  st.out2in[first][o] \in Range(st.keyCols[first])

-----------------------------------------------------------------------------

\* The inputs that have a row loaded; zsv_compare_advance has just read one
\* for each input that had none and was not done.
LoadedInputs == {i \in CmpInput : st.next[i] <= Len(st.files[i].rows)}

CmpCell(i, o) ==
    IF st.out2in[i][o] = 0 THEN 0 ELSE CmpRow(st.files[i], st.next[i], st.out2in[i][o])

RowKey(i) ==
    [k \in DOMAIN st.keyCols[i] |-> FoldCase(CmpRow(st.files[i], st.next[i], st.keyCols[i][k]))]

\* Mutant: of equal keys only one input is taken.
GroupOfOne ==
    {Min({i \in LoadedInputs : \A j \in LoadedInputs : ~KeyLess(RowKey(j), RowKey(i))})}

\* zsv_compare_next after its qsort: the inputs that stand first, with the
\* same key.  Without keys all the loaded rows are one group.
Group == {i \in LoadedInputs : \A j \in LoadedInputs : ~KeyLess(RowKey(j), RowKey(i))}

\* zsv_compare_within_tolerance
WithinTolerance(a, b) ==
    /\ st.opts.tol > 0 /\ IsDigit(a) /\ IsDigit(b)
    /\ a - b < st.opts.tol /\ b - a < st.opts.tol

\* Mutant: the tolerance is not applied.
DiffersExactly(g, o) ==
    \E i \in g \ {Min(g)} :
        st.out2in[i][o] # 0 /\ FoldCase(CmpCell(i, o)) # FoldCase(CmpCell(Min(g), o))

\* zsv_compare_print_row: a column differs when an input that has it shows
\* another value than the first input of the group.
Differs(g, o) ==
    \E i \in g \ {Min(g)} :
        /\ st.out2in[i][o] # 0
        /\ FoldCase(CmpCell(i, o)) # FoldCase(CmpCell(Min(g), o))
        /\ ~WithinTolerance(CmpCell(Min(g), o), CmpCell(i, o))

\* The additional column shows what the first input that has it has loaded.
AddedCell ==
    LET source == {i \in CmpInput : st.opts.add \in Range(st.files[i].header)}
        i == Min(source)
        c == Min({c \in DOMAIN st.files[i].header : st.files[i].header[c] = st.opts.add})
    IN  IF st.opts.add = "" \/ source = {} THEN [from |-> 0, val |-> 0]
        ELSE IF i \notin LoadedInputs THEN [from |-> i, val |-> 0]
        ELSE [from |-> i, val |-> CmpRow(st.files[i], st.next[i], c)]

Tuple(g, kind, o, vals) ==
    [kind |-> kind, rows |-> [i \in g |-> st.next[i]],
     col |-> IF o = 0 THEN <<>> ELSE st.colnames[o], vals |-> vals, added |-> AddedCell]

\* What one group prints: who misses the row, then a line for each column
\* that differs.
PrintRow(g) ==
    LET lines[o \in 0..Len(st.colnames)] ==
          IF o = 0
          THEN IF g = CmpInput THEN <<>>
               ELSE <<Tuple(g, "missing", 0, [i \in CmpInput \ g |-> "Missing"])>>
          ELSE IF ~IsKeyColumn(o) /\ Differs(g, o)
          THEN Append(lines[o-1], Tuple(g, "diff", o, [i \in g |-> CmpCell(i, o)]))
          ELSE lines[o-1]
    IN  lines[Len(st.colnames)]

\* zsv_compare_collect_row: only rows of all inputs and columns of all inputs
\* are compared, and what lies within the tolerance is counted by itself.
InAll(o) == \A i \in CmpInput : st.out2in[i][o] # 0
AllWithin(o) ==
    st.opts.tol > 0 /\ \A i \in CmpInput \ {1} : WithinTolerance(CmpCell(1, o), CmpCell(i, o))
CellsDiffer(o) ==
    ~IsKeyColumn(o) /\ \E i \in CmpInput : FoldCase(CmpCell(i, o)) # FoldCase(CmpCell(1, o))

CollectRow(r, g) ==
    LET whole == g = CmpInput
        cols == IF whole THEN {o \in DOMAIN st.colnames : InAll(o)} ELSE {}
        tol == {o \in cols : CellsDiffer(o) /\ AllWithin(o)}
        diff == {o \in cols : CellsDiffer(o) /\ ~AllWithin(o)}
        shown == diff \cup (IF st.opts.tolerated THEN tol ELSE {})
    IN  [r EXCEPT
          !.perInput = [i \in CmpInput |-> @[i] + (IF i \in g THEN 1 ELSE 0)],
          !.inAll = @ + (IF whole THEN 1 ELSE 0),
          !.missing = [i \in CmpInput |-> @[i] + (IF i \in g THEN 0 ELSE 1)],
          !.compared = @ + Cardinality(cols),
          !.matched = @ + Cardinality(cols \ (tol \cup diff)),
          !.tolerated = @ + Cardinality(tol),
          !.differing = @ + Cardinality(diff),
          !.withDiff = @ + (IF ~whole \/ shown # {} THEN 1 ELSE 0)]

\* zsv_compare_next: one group.
CompareNextGroup ==
    /\ st.pc = "rows" /\ LoadedInputs # {}
    /\ LET g == Group
           shown == ~st.opts.requireAll \/ g = CmpInput
           lines == IF shown /\ ~st.opts.redline THEN PrintRow(g) ELSE <<>>
       IN  /\ out' = out \o lines
           /\ st' = [st EXCEPT
                !.rowCount = @ + 1,
                !.next = [i \in CmpInput |-> IF i \in g THEN @[i] + 1 ELSE @[i]],
                !.diffs = @ + Cardinality({k \in DOMAIN lines : lines[k].kind = "diff"}),
                !.redline = IF shown /\ st.opts.redline THEN CollectRow(@, g) ELSE @]
    /\ UNCHANGED <<cmd, disk>>

\* No more input: the redline document is written last, and its differing
\* cells become the exit code.
CompareEnd ==
    /\ st.pc = "rows" /\ LoadedInputs = {}
    /\ st' = [st EXCEPT !.pc = "done",
                        !.diffs = IF st.opts.redline THEN st.redline.differing ELSE @]
    /\ UNCHANGED <<cmd, out, disk>>

CompareNext ==
    cmd = "compare" /\ (CompareOpen \/ CompareColumns \/ CompareNextGroup \/ CompareEnd)

\* compare alone.
CompareSpec == CompareInit /\ [][CompareNext \/ Finished]_procVars

-----------------------------------------------------------------------------
(* What a comparison means, from the files alone.                          *)

\* A row is known by its key and by how many rows of that key stand before
\* it, or by its position where there are no keys.
FileKey(i, r) == [k \in DOMAIN st.keyCols[i] |-> FoldCase(CmpRow(st.files[i], r, st.keyCols[i][k]))]
Identity(i, r) ==
    <<FileKey(i, r), Cardinality({q \in 1..r : FileKey(i, q) = FileKey(i, r)})>>

RowsOf(i) == DOMAIN st.files[i].rows
Matches(id) == {i \in CmpInput : \E r \in RowsOf(i) : Identity(i, r) = id}
RowOf(i, id) == CHOOSE r \in RowsOf(i) : Identity(i, r) = id

\* The inputs are in the order that the merge compares by.
InKeyOrder ==
    \A i \in CmpInput : \A q, r \in RowsOf(i) :
        q < r => ~KeyLess(FileKey(i, r), FileKey(i, q))

CompareDone == cmd = "compare" /\ st.pc = "done" /\ st.status = "ok"

\* Where the input that supplies the additional column takes part in a line,
\* the column's value is of the line's own row.
AddedIsOfTheRow(line) ==
    LET a == line.added IN
    a.from \in DOMAIN line.rows =>
        \E c \in DOMAIN st.files[a.from].header :
            /\ st.files[a.from].header[c] = st.opts.add
            /\ a.val = CmpRow(st.files[a.from], line.rows[a.from], c)

\* Rows are compared with the rows of the same key and with no other: every
\* line of the report is about one identity, a row is reported missing exactly
\* in the inputs without it, the additional column is of the same row, and no
\* row of any input is passed over by the merge (zsv_compare_next, zsv_compare_inputp_cmp).
RowsAreMatchedByKey == CompareDone /\ InKeyOrder =>
    LET ids == UNION {{Identity(i, r) : r \in RowsOf(i)} : i \in CmpInput}
        of(l) == {Identity(i, l.rows[i]) : i \in DOMAIN l.rows}
    IN  /\ \A k \in DOMAIN out : Cardinality(of(out[k])) = 1
        /\ \A k \in DOMAIN out : \A id \in of(out[k]) : DOMAIN out[k].rows = Matches(id)
        /\ st.rowCount = Cardinality(ids)
        /\ \A k \in DOMAIN out : AddedIsOfTheRow(out[k])
        /\ ~st.opts.redline /\ ~st.opts.requireAll =>
             /\ Cardinality({k \in DOMAIN out : out[k].kind = "missing"})
                  = Cardinality({id \in ids : Matches(id) # CmpInput})
             /\ \A k \in DOMAIN out : out[k].kind = "missing" =>
                  DOMAIN out[k].vals = CmpInput \ DOMAIN out[k].rows

\* The cells of the file that really differ, each named by row and column.
RealDifferences(ids) ==
    {x \in ids \X Range(st.colnames) :
       LET g == Matches(x[1])
           o == CHOOSE o \in DOMAIN st.colnames : st.colnames[o] = x[2]
           v(i) == IF st.out2in[i][o] = 0 THEN 0
                   ELSE CmpRow(st.files[i], RowOf(i, x[1]), st.out2in[i][o])
       IN  /\ ~IsKeyColumn(o)
           /\ ~st.opts.requireAll \/ g = CmpInput
           /\ \E i \in g \ {Min(g)} : /\ st.out2in[i][o] # 0
                                      /\ FoldCase(v(i)) # FoldCase(v(Min(g)))
                                      /\ ~WithinTolerance(v(Min(g)), v(i))}

\* The exit code counts the cells that differ, in the report and in the
\* redline document alike when there are two inputs of the same columns; the
\* redline leaves out the rows and the columns that some input lacks.
ExitCodeCountsDifferences ==
    CompareDone /\ InKeyOrder
      /\ (st.opts.redline => Len(st.files) = 2 /\ \A o \in DOMAIN st.colnames : InAll(o)) =>
    LET ids == UNION {{Identity(i, r) : r \in RowsOf(i)} : i \in CmpInput}
        r == st.redline
    IN  /\ st.diffs = Cardinality(RealDifferences(ids))
        /\ st.opts.redline =>
             /\ r.compared = r.matched + r.tolerated + r.differing
             /\ ~st.opts.requireAll => \A i \in CmpInput : r.perInput[i] = Len(st.files[i].rows)
=============================================================================
