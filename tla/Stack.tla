------------------------------- MODULE Stack -------------------------------
(***************************************************************************)
(* app/stack.c: every input is parsed twice.  The first pass stops each    *)
(* parser at its header row, whose cells are still in the parser when the  *)
(* columns of all the inputs are lined up by name; the second pass rewinds *)
(* the files and writes their rows under the common header.                *)
(***************************************************************************)
EXTENDS Process

CONSTANTS
    StackInputs,    \* sequences of [rows, ended]: the files on the command line
    StackLower(_),  \* zsv_strtolowercase on a column name
    StackBlank      \* the blank cell

\* A file is a sequence of rows of cells; its last row has a cell that no row
\* end follows, or the file has ended.
IsStackFile(f) ==
    LET isSeq(s) == s \in Seq(Range(s))
    IN  /\ isSeq(f.rows) /\ \A r \in Range(f.rows) : isSeq(r)
        /\ f.ended \/ (f.rows # <<>> /\ Last(f.rows) # <<>>)

\* There is a file.
ASSUME StackAssumption ==
    \A files \in StackInputs :
        files # <<>> /\ files \in Seq(Range(files)) /\ \A f \in Range(files) : IsStackFile(f)

BlankRow(row) == \A i \in DOMAIN row : row[i] = StackBlank

\* The option loop: a file that cannot be opened is an error of the command.
StackInit ==
    /\ cmd = "stack" /\ out = <<>> /\ disk = <<>>
    /\ \E f \in StackInputs, unique \in BOOLEAN, keep \in BOOLEAN, err \in BOOLEAN :
         st = [pc |-> "headers", files |-> f, unique |-> unique, keep |-> keep,
               err |-> err, cur |-> 1, next |-> 1,
               headersDone |-> [k \in DOMAIN f |-> FALSE],
               header |-> [k \in DOMAIN f |-> <<>>],
               colnames |-> <<>>,
               columnMap |-> [k \in DOMAIN f |-> <<>>]]

\* The rows of a file that end with a row end; only these reach a handler of
\* the first pass, which never calls zsv_finish().
EndedRows(f) == IF f.ended THEN f.rows ELSE Front(f.rows)

\* zsv_stack_header_row: the first row with data stops the parser.  A file
\* that ends before that leaves in the parser the cells of its last row that a
\* delimiter has ended.
StackReadHeader ==
    /\ st.pc = "headers" /\ ~st.err /\ st.cur <= Len(st.files)
    /\ LET f == st.files[st.cur]
           data == {r \in DOMAIN EndedRows(f) : ~BlankRow(f.rows[r])}
           left == IF f.ended THEN <<>> ELSE Front(Last(f.rows))
       IN  st' = [st EXCEPT !.cur = @ + 1,
                            !.headersDone[st.cur] = (data # {}),
                            !.header[st.cur] = IF data = {} THEN left ELSE f.rows[Min(data)]]
    /\ UNCHANGED <<cmd, out, disk>>

\* zsv_stack_colname_get_or_add on the input's own names: how many columns of
\* the same name stand to the left; none are counted with --unique.
Occurrence(unique, header, c) ==
    IF unique THEN 0
    ELSE Cardinality({b \in 1..(c - 1) : StackLower(header[b]) = StackLower(header[c])})

ColumnKey(unique, header, c) == <<StackLower(header[c]), Occurrence(unique, header, c)>>

\* zsv_stack_consolidate_header for each column of one input: a name that is
\* not yet known gets the next position, spelled as it was first met.
Consolidate(unique, colnames, header) ==
    LET names[c \in 0..Len(header)] ==
            IF c = 0 THEN colnames
            ELSE LET key == ColumnKey(unique, header, c)
                     known == \E o \in DOMAIN names[c - 1] : names[c - 1][o].key = key
                 IN  IF known THEN names[c - 1]
                     ELSE Append(names[c - 1], [key |-> key, name |-> header[c]])
    IN  names[Len(header)]

\* The alignment of one input, whose parser is then deleted.  A later column
\* of the same key replaces an earlier one in the map.
StackAlign ==
    /\ st.pc = "headers" /\ ~st.err /\ st.cur > Len(st.files)
    /\ LET k == st.cur - Len(st.files)
           h == st.header[k]
           names == Consolidate(st.unique, st.colnames, h)
           at(o) == {c \in DOMAIN h : ColumnKey(st.unique, h, c) = names[o].key}
       IN  st' = [st EXCEPT !.colnames = names,
                            !.columnMap[k] = [o \in DOMAIN names |->
                                IF at(o) = {} THEN 0 ELSE Max(at(o))],
                            !.cur = IF k = Len(st.files) THEN 1 ELSE @ + 1,
                            !.pc = IF k = Len(st.files) THEN "print" ELSE @]
    /\ UNCHANGED <<cmd, out, disk>>

StackPrintHeaders ==
    /\ st.pc = "print"
    /\ out' = IF st.colnames = <<>> THEN out
              ELSE Append(out, [o \in DOMAIN st.colnames |-> st.colnames[o].name])
    /\ st' = [st EXCEPT !.pc = "input"]
    /\ UNCHANGED <<cmd, disk>>

\* The row the second parser delivers first: unless empty header rows are
\* kept, the parser itself passes over them.
FirstDelivered(s, f) ==
    LET data == {r \in DOMAIN f.rows : ~BlankRow(f.rows[r])}
    IN  IF s.keep \/ data = {} THEN 1 ELSE Min(data)

\* Mutant: every input is read through the map of the first.
StackCellByFirst(s, row, o) ==
    LET map == s.columnMap[1]
        ix == IF o \in DOMAIN map THEN map[o] ELSE 0
    IN  IF ix \in DOMAIN row THEN row[ix] ELSE StackBlank

\* zsv_stack_data_row: a row as the columns of the output want it.
StackCell(s, row, o) ==
    LET map == s.columnMap[s.cur]
        ix == IF o \in DOMAIN map THEN map[o] ELSE 0
    IN  IF ix \in DOMAIN row THEN row[ix] ELSE StackBlank

\* Only an input whose header was found is rewound and parsed again.
StackRewind ==
    /\ st.pc = "input" /\ st.cur <= Len(st.files)
    /\ st' = IF st.headersDone[st.cur]
             THEN [st EXCEPT !.pc = "rows", !.headersDone[st.cur] = FALSE,
                             !.next = FirstDelivered(st, st.files[st.cur])]
             ELSE [st EXCEPT !.cur = @ + 1]
    /\ UNCHANGED <<cmd, out, disk>>

\* One row of the second pass: the first one delivered is taken for the header.
StackDataRow ==
    /\ st.pc = "rows" /\ st.next <= Len(st.files[st.cur].rows)
    /\ LET row == st.files[st.cur].rows[st.next]
       IN  /\ st' = [st EXCEPT !.next = @ + 1, !.headersDone[st.cur] = TRUE]
           /\ out' = IF ~st.headersDone[st.cur] \/ BlankRow(row) THEN out
                     ELSE Append(out, [o \in DOMAIN st.colnames |-> StackCell(st, row, o)])
    /\ UNCHANGED <<cmd, disk>>

StackInputEnd ==
    /\ st.pc = "rows" /\ st.next > Len(st.files[st.cur].rows)
    /\ st' = [st EXCEPT !.pc = "input", !.cur = @ + 1]
    /\ UNCHANGED <<cmd, out, disk>>

StackCleanup ==
    /\ \/ st.pc = "headers" /\ st.err
       \/ st.pc = "input" /\ st.cur > Len(st.files)
    /\ st' = [st EXCEPT !.pc = "done"]
    /\ UNCHANGED <<cmd, out, disk>>

StackNext ==
    /\ cmd = "stack"
    /\ \/ StackReadHeader \/ StackAlign \/ StackPrintHeaders
       \/ StackRewind \/ StackDataRow \/ StackInputEnd \/ StackCleanup

\* The command alone.
StackSpec == StackInit /\ [][StackNext \/ Finished]_procVars

-----------------------------------------------------------------------------

\* The rows that are not blank.
NonBlankRows(rows) ==
    LET data[n \in 0..Len(rows)] ==
            IF n = 0 THEN <<>>
            ELSE IF BlankRow(rows[n]) THEN data[n - 1] ELSE Append(data[n - 1], rows[n])
    IN  data[Len(rows)]

\* The data rows of an input under its own header: <<header, row>> pairs.
Labelled(f) ==
    LET data == NonBlankRows(f.rows)
    IN  IF NonBlankRows(EndedRows(f)) = <<>> THEN <<>>
        ELSE [k \in 1..(Len(data) - 1) |-> <<data[1], data[k + 1]>>]

\* A value of the output stands under the name, and under the occurrence of
\* the name, that it had in its input, and no row is lost or invented: the
\* column maps made in the first pass fit the rows read in the second.
StackedRowsKeepTheirNames ==
    cmd = "stack" /\ st.pc = "done" /\ ~st.err
      /\ ~(st.keep /\ \E f \in Range(st.files) : BlankRow(f.rows[1])) =>
    LET all == FlattenSeq([k \in DOMAIN st.files |-> Labelled(st.files[k])])
        under(pair, key) == {c \in DOMAIN pair[1] : ColumnKey(st.unique, pair[1], c) = key}
        cell(pair, key) ==
            IF under(pair, key) = {} \/ Max(under(pair, key)) > Len(pair[2])
            THEN StackBlank ELSE pair[2][Max(under(pair, key))]
        outKey(o) == ColumnKey(st.unique, out[1], o)
    IN  st.colnames # <<>> =>
        /\ Len(out) = Len(all) + 1
        /\ \A k \in DOMAIN all : \A o \in DOMAIN out[1] :
             out[k + 1][o] = cell(all[k], outKey(o))
        /\ \A k \in DOMAIN all : \A c \in DOMAIN all[k][1] :
             \E o \in DOMAIN out[1] : outKey(o) = ColumnKey(st.unique, all[k][1], c)
=============================================================================
