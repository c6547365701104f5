--------------------------- MODULE CommandProofs ----------------------------
(***************************************************************************)
(* For every command line and every input: what select leaves of the file  *)
(* of -o when it fails, and which rows, columns and cells it writes; which *)
(* rows compare puts together, and what its exit code counts; under which  *)
(* names stack writes the values of its files.                             *)
(***************************************************************************)
EXTENDS Select, Compare, Stack, CommonLemmas, FiniteSetTheorems

-----------------------------------------------------------------------------
(* select: the file of -o                                                  *)

\* The record of the command.
SelShape(s) ==
    s = [pc |-> s.pc, opts |-> s.opts, table |-> s.table, next |-> s.next, over |-> s.over,
         orig |-> s.orig, names |-> s.names, cols |-> s.cols, count |-> s.count, skip |-> s.skip,
         cancelled |-> s.cancelled, headerFailed |-> s.headerFailed,
         headerFinished |-> s.headerFinished, stat |-> s.stat]

\* Nothing has been written.
Untouched == disk = "old" /\ out = <<>>
\* The file of -o has been opened.
Opened == disk = (IF st.opts.file THEN "new" ELSE "old")

\* The header has failed and nothing has been written, or the file has been
\* opened; only before the header is there neither.
HeaderOutcome ==
    /\ st.headerFailed \in BOOLEAN /\ st.headerFinished \in BOOLEAN
    /\ st.pc = "header" => ~st.headerFailed /\ ~st.headerFinished
    /\ st.pc = "data" => (st.headerFinished <=> ~st.headerFailed)
    /\ st.headerFailed => st.cancelled /\ ~st.headerFinished
    /\ IF st.headerFinished THEN Opened ELSE st.pc # "done" => Untouched
    /\ st.headerFinished => st.stat = "ok"
    /\ st.pc \in {"header", "data"} => st.stat = "ok"
    /\ st.pc = "close" => (st.headerFailed => st.stat = "error")
    /\ st.pc = "done" => (st.stat = "ok" => Opened) /\ (st.stat = "error" => Untouched)

SelInv ==
    /\ SelShape(st) /\ st.opts \in {r.opts : r \in SelRuns}
    /\ st.pc \in {"header", "data", "close", "done"} /\ st.stat \in {"ok", "error"}
    /\ ~st.opts.pull => HeaderOutcome

\* The options that decide are flags.
LEMMA OptionFlags ==
    ASSUME SelInv
    PROVE  st.opts.pull \in BOOLEAN /\ st.opts.file \in BOOLEAN /\ st.opts.badOutput \in BOOLEAN
BY SelAssumption DEF SelInv

\* The invariant holds at the start.
LEMMA SelInitInv == SelectInit => SelInv
<1> SUFFICES ASSUME SelectInit PROVE SelInv
  OBVIOUS
<1>1. PICK r \in SelRuns :
        LET bad == BadArguments(r.opts)
            opens == r.opts.file /\ r.opts.pull
        IN  /\ st = [pc |-> IF bad THEN "close" ELSE "header", opts |-> r.opts,
                     table |-> r.table, next |-> 1, over |-> r.over, orig |-> r.over,
                     names |-> <<>>, cols |-> <<>>, count |-> 0, skip |-> r.opts.skip,
                     cancelled |-> FALSE, headerFailed |-> FALSE, headerFinished |-> FALSE,
                     stat |-> IF bad THEN "error" ELSE "ok"]
            /\ disk = IF opens THEN "new" ELSE "old"
  BY DEF SelectInit
<1>2. SelShape(st)
  BY <1>1 DEF SelShape
<1>3. st.opts = r.opts /\ ~st.headerFailed /\ ~st.headerFinished /\ out = <<>>
      /\ st.headerFailed \in BOOLEAN /\ st.headerFinished \in BOOLEAN
      /\ st.pc \in {"header", "close"} /\ (st.pc = "header" => st.stat = "ok")
      /\ st.stat \in {"ok", "error"} /\ (~r.opts.pull => disk = "old")
  BY <1>1 DEF SelectInit
<1> QED
  BY <1>2, <1>3 DEF SelInv, HeaderOutcome, Untouched

\* The header row: the file is opened if nothing fails.
LEMMA SelHeaderInv ==
    ASSUME SelInv, SelectHeaderRow
    PROVE  SelInv'
<1> DEFINE o == st.opts
           row == st.table[1]
           f == Fetch(st.over, 0, row, [i \in DOMAIN row |-> i])
           names == [i \in 1..Min({Len(row), SelMaxColumns}) |-> Cleaned(o, f.got[i])]
           fails == \/ 0 \in Range(WantedColumns(o, names))
                    \/ ~o.pull /\ (RenamesFail(o, names) \/ (o.file /\ o.badOutput))
           final == IF o.pull THEN names ELSE Renamed(o, names)
           cols == OutputColumns(o, names)
<1>1. /\ st.pc = "header"
      /\ st' = [st EXCEPT !.pc = "data", !.next = 2, !.over = f.over,
                          !.names = final, !.cols = IF fails THEN <<>> ELSE cols,
                          !.cancelled = fails, !.headerFailed = fails /\ ~o.pull,
                          !.headerFinished = ~fails]
      /\ out' = IF fails THEN out ELSE out \o HeaderRow(o, final, cols)
      /\ disk' = IF OpensOutput(o, fails) THEN "new" ELSE disk
  BY DEF SelectHeaderRow
<1>2. fails \in BOOLEAN
  OBVIOUS
<1> HIDE DEF f, names, fails, final, cols
<1>3. /\ st'.pc = "data" /\ st'.opts = st.opts /\ st'.stat = st.stat /\ st'.cancelled = fails
      /\ st'.headerFailed = (fails /\ ~o.pull) /\ st'.headerFinished = ~fails /\ SelShape(st)'
  BY <1>1 DEF SelInv, SelShape
<1>4. CASE o.pull
  BY <1>3, <1>4 DEF SelInv
<1>5. CASE ~o.pull /\ fails
  BY <1>1, <1>3, <1>5, OptionFlags DEF SelInv, HeaderOutcome, OpensOutput, Untouched, Opened
<1>6. CASE ~o.pull /\ ~fails
  <2>1. disk' = IF o.file THEN "new" ELSE "old"
    BY <1>1, <1>6 DEF SelInv, HeaderOutcome, OpensOutput, Untouched
  <2> QED
    BY <1>1, <1>3, <1>6, <2>1 DEF SelInv, HeaderOutcome, Opened
<1> QED
  BY <1>2, <1>4, <1>5, <1>6, OptionFlags

\* A data row.
LEMMA SelDataInv ==
    ASSUME SelInv, SelectDataRow
    PROVE  SelInv'
<1>1. st.pc = "data" /\ ~st.cancelled /\ disk' = disk
  BY DEF SelectDataRow
<1>2. /\ st'.pc = "data" /\ st'.opts = st.opts /\ st'.stat = st.stat
      /\ st'.headerFailed = st.headerFailed /\ st'.headerFinished = st.headerFinished
      /\ SelShape(st)'
  BY DEF SelectDataRow, SelInv, SelShape
<1> QED
  BY <1>1, <1>2 DEF SelInv, HeaderOutcome, Opened

\* The end of the input, or an interrupt.
LEMMA SelStopInv ==
    ASSUME SelInv, SelectInterrupt \/ SelectEnd
    PROVE  SelInv'
<1>1. st.pc \in {"header", "data"} /\ disk' = disk /\ out' = out
  BY DEF SelectInterrupt, SelectEnd
<1>2. /\ st'.pc = "close" /\ st'.opts = st.opts
      /\ st'.stat = (IF st.headerFailed THEN "error" ELSE st.stat) /\ st'.cancelled = st.cancelled
      /\ st'.headerFailed = st.headerFailed /\ st'.headerFinished = st.headerFinished
      /\ SelShape(st)'
  BY DEF SelectInterrupt, SelectEnd, SelInv, SelShape
<1> QED
  BY <1>1, <1>2 DEF SelInv, HeaderOutcome, Opened, Untouched

\* The end of the command; the file of an empty input.
LEMMA SelCloseInv ==
    ASSUME SelInv, SelectClose
    PROVE  SelInv'
<1> DEFINE late == /\ st.opts.file /\ ~st.opts.pull /\ st.stat = "ok"
                   /\ ~st.headerFinished /\ ~st.headerFailed
<1>1. /\ st.pc = "close" /\ out' = out
      /\ disk' = IF late /\ ~st.opts.badOutput THEN "new" ELSE disk
  BY DEF SelectClose
<1>2. /\ st'.pc = "done" /\ st'.opts = st.opts
      /\ st'.stat = (IF late /\ st.opts.badOutput THEN "error" ELSE st.stat)
      /\ st'.cancelled = st.cancelled
      /\ st'.headerFailed = st.headerFailed /\ st'.headerFinished = st.headerFinished
      /\ SelShape(st)'
  BY DEF SelectClose, SelInv, SelShape
<1>3. CASE st.opts.pull
  BY <1>2, <1>3 DEF SelInv
<1>4. CASE ~st.opts.pull
  BY <1>1, <1>2, <1>4, OptionFlags DEF SelInv, HeaderOutcome, Opened, Untouched
<1> QED
  BY <1>3, <1>4, OptionFlags

\* select leaves the file of -o as it was whenever it fails before its first
\* row of output, and otherwise has replaced it.
THEOREM FailureLeavesTheFile == SelSpec => []FailedHeaderLeavesTheFile
<1>1. SelectInit => SelInv
  BY SelInitInv
<1>2. SelInv /\ [SelectNext \/ Finished]_procVars => SelInv'
  <2> SUFFICES ASSUME SelInv, [SelectNext \/ Finished]_procVars PROVE SelInv'
    OBVIOUS
  <2>1. CASE UNCHANGED procVars
    BY <2>1 DEF SelInv, SelShape, HeaderOutcome, Opened, Untouched, procVars
  <2> QED
    BY <2>1, SelHeaderInv, SelDataInv, SelStopInv, SelCloseInv DEF SelectNext, Finished
<1>3. SelInv => FailedHeaderLeavesTheFile
  BY OptionFlags DEF SelInv, HeaderOutcome, Opened, Untouched, FailedHeaderLeavesTheFile
<1> QED
  BY <1>1, <1>2, <1>3, PTL DEF SelSpec

-----------------------------------------------------------------------------
(* select: the rows written are those asked for                            *)

\* The numbers of a set up to n; the place of k is how many there are up to k.
UpToPlace(S, n) == {j \in S : j <= n}

\* They are counted one by one.
LEMMA PlacesCount ==
    ASSUME NEW S, S \subseteq Nat, NEW n \in Nat
    PROVE  /\ IsFiniteSet(UpToPlace(S, n)) /\ Cardinality(UpToPlace(S, n)) \in Nat
           /\ \A k \in UpToPlace(S, n) : PlaceIn(S, k) \in 1..Cardinality(UpToPlace(S, n))
           /\ n + 1 \in S =>
                /\ UpToPlace(S, n + 1) = UpToPlace(S, n) \cup {n + 1}
                /\ Cardinality(UpToPlace(S, n + 1)) = Cardinality(UpToPlace(S, n)) + 1
                /\ PlaceIn(S, n + 1) = Cardinality(UpToPlace(S, n)) + 1
           /\ n + 1 \notin S => UpToPlace(S, n + 1) = UpToPlace(S, n)
<1>0. /\ \A j \in S : j \in Nat
      /\ \A m, j : j \in UpToPlace(S, m) <=> j \in S /\ j <= m
  BY DEF UpToPlace
<1>1. ASSUME NEW m \in Nat
      PROVE  IsFiniteSet(UpToPlace(S, m)) /\ Cardinality(UpToPlace(S, m)) \in Nat
  <2>1. IsFiniteSet(0..m)
    BY FS_Interval
  <2>2. UpToPlace(S, m) \subseteq 0..m
    <3>1. \A j \in UpToPlace(S, m) : j \in Nat /\ j <= m
      BY <1>0, Zenon
    <3>2. \A j \in UpToPlace(S, m) : j \in 0..m
      BY <3>1
    <3> QED BY <3>2
  <2>3. IsFiniteSet(UpToPlace(S, m))
    BY <2>1, <2>2, FS_Subset
  <2> QED BY <2>3, FS_CardinalityType
<1>2. \A k : PlaceIn(S, k) = Cardinality(UpToPlace(S, k))
  BY DEF PlaceIn, UpToPlace
<1>3. ASSUME NEW k \in UpToPlace(S, n)
      PROVE  PlaceIn(S, k) \in 1..Cardinality(UpToPlace(S, n))
  <2>1. k \in Nat /\ k <= n /\ k \in S
    BY <1>0
  <2>2. k \in UpToPlace(S, k) /\ UpToPlace(S, k) \subseteq UpToPlace(S, n)
    <3>1. \A j \in Nat : j <= k => j <= n
      BY <2>1
    <3>2. \A j \in UpToPlace(S, k) : j \in UpToPlace(S, n)
      BY <1>0, <3>1, Zenon
    <3>3. k <= k
      BY <2>1
    <3>4. k \in UpToPlace(S, k)
      BY <1>0, <2>1, <3>3, Zenon
    <3> QED BY <3>2, <3>4
  <2>3. /\ IsFiniteSet(UpToPlace(S, k)) /\ Cardinality(UpToPlace(S, k)) \in Nat
        /\ IsFiniteSet(UpToPlace(S, n)) /\ Cardinality(UpToPlace(S, n)) \in Nat
    BY <1>1, <2>1
  <2>4. Cardinality(UpToPlace(S, k)) <= Cardinality(UpToPlace(S, n))
    BY <2>2, <2>3, FS_Subset
  <2>5. Cardinality(UpToPlace(S, k)) # 0
    BY <2>2, <2>3, FS_EmptySet
  <2> QED BY <1>2, <2>3, <2>4, <2>5
<1>4. ASSUME n + 1 \in S
      PROVE  /\ UpToPlace(S, n + 1) = UpToPlace(S, n) \cup {n + 1}
             /\ Cardinality(UpToPlace(S, n + 1)) = Cardinality(UpToPlace(S, n)) + 1
  <2>1. UpToPlace(S, n + 1) = UpToPlace(S, n) \cup {n + 1} /\ n + 1 \notin UpToPlace(S, n)
    <3>1. \A j \in Nat : j <= n + 1 <=> j <= n \/ j = n + 1
      OBVIOUS
    <3>2. ~(n + 1 <= n) /\ n + 1 <= n + 1
      OBVIOUS
    <3>3. \A j : j \in UpToPlace(S, n + 1) <=> j \in UpToPlace(S, n) \/ j = n + 1
      BY <1>0, <1>4, <3>1, <3>2, Zenon
    <3>4. n + 1 \notin UpToPlace(S, n)
      BY <1>0, <3>2, Zenon
    <3> QED BY <3>3, <3>4
  <2>2. IsFiniteSet(UpToPlace(S, n))
    BY <1>1
  <2> QED BY <2>1, <2>2, FS_AddElement
<1>5. ASSUME n + 1 \notin S PROVE UpToPlace(S, n + 1) = UpToPlace(S, n)
  <2>1. \A j \in Nat : j # n + 1 => (j <= n + 1 <=> j <= n)
    OBVIOUS
  <2>2. \A j : j \in UpToPlace(S, n + 1) <=> j \in UpToPlace(S, n)
    BY <1>0, <1>5, <2>1, Zenon
  <2> QED BY <2>2
<1> QED BY <1>1, <1>2, <1>3, <1>4, <1>5

\* Without overwrites the cursor stays where it is.
LEMMA NothingLaidOver ==
    ASSUME NEW row, NEW cells, NEW i
    PROVE  /\ Asked(<<>>, row, cells, i) = <<>>
           /\ CellAt(<<>>, row, cells, i) = CellAt(<<>>, 0, cells, i)
           /\ i \in DOMAIN cells => CellAt(<<>>, 0, cells, i) = cells[i]
<1>1. Ahead(<<>>, row, i - 1) = <<>>
  <2>1. {k \in DOMAIN <<>> : <<>>[k].row > row \/ (<<>>[k].row = row /\ <<>>[k].col >= i - 1)} = {}
    OBVIOUS
  <2> QED BY <2>1, Zenon DEF Ahead
<1>2. \A r : ~StandsAt(<<>>, r, i - 1)
  BY DEF StandsAt
<1> QED BY <1>1, <1>2 DEF Asked, CellAt

\* The cells asked for, one after the other.
LEMMA FetchPlain ==
    ASSUME NEW row, NEW cells, NEW seq, Len(seq) \in Nat
    PROVE  /\ Fetch(<<>>, row, cells, seq).over = <<>>
           /\ Fetch(<<>>, row, cells, seq).got
                = [n \in 1..Len(seq) |-> CellAt(<<>>, 0, cells, seq[n])]
<1> DEFINE Step(f, n) == IF n = 0 THEN <<>> ELSE Asked(f[n - 1], row, cells, seq[n])
           c == CHOOSE f : f = [n \in 0..Len(seq) |-> Step(f, n)]
           still == [n \in 0..Len(seq) |-> <<>>]
<1>1. still = [n \in 0..Len(seq) |-> Step(still, n)]
  <2>1. ASSUME NEW n \in 0..Len(seq) PROVE Step(still, n) = <<>>
    <3>1. n # 0 => still[n - 1] = <<>>
      OBVIOUS
    <3> QED BY <3>1, NothingLaidOver
  <2> QED BY <2>1, Zenon
<1>2. c = [n \in 0..Len(seq) |-> Step(c, n)]
  BY <1>1, Zenon
<1>3. Fetch(<<>>, row, cells, seq)
        = [over |-> c[Len(seq)],
           got |-> [n \in 1..Len(seq) |-> CellAt(c[n], row, cells, seq[n])]]
  BY Zenon DEF Fetch
<1> HIDE DEF c
<1>4. \A n \in 0..Len(seq) : c[n] = <<>>
  <2> DEFINE W == {n \in 0..Len(seq) : c[n] = <<>>}
  <2>1. 0 \in W
    BY <1>2
  <2>2. ASSUME NEW k \in 1..Len(seq), k - 1 \in W PROVE k \in W
    <3>1. k \in 0..Len(seq) /\ k # 0 /\ c[k - 1] = <<>>
      BY <2>2
    <3>2. c[k] = Asked(c[k - 1], row, cells, seq[k])
      BY <1>2, <3>1
    <3> QED BY <3>1, <3>2, NothingLaidOver
  <2> HIDE DEF W
  <2>3. 0..Len(seq) \subseteq W
    BY <2>1, <2>2, UpTo
  <2> QED BY <2>3 DEF W
<1>5. \A n \in 1..Len(seq) : CellAt(c[n], row, cells, seq[n]) = CellAt(<<>>, 0, cells, seq[n])
  <2>1. \A n \in 1..Len(seq) : c[n] = <<>>
    BY <1>4
  <2> QED BY <2>1, NothingLaidOver
<1>6. c[Len(seq)] = <<>>
  BY <1>4
<1> QED BY <1>3, <1>5, <1>6

\* A row asked for from end to end.
LEMMA FetchRow ==
    ASSUME NEW row, NEW cells, IsList(cells)
    PROVE  LET f == Fetch(<<>>, row, cells, [i \in DOMAIN cells |-> i])
           IN  f.over = <<>> /\ f.got = [i \in DOMAIN cells |-> cells[i]]
<1>1. PICK n : n = Len(cells)
  OBVIOUS
<1>2. n \in Nat /\ DOMAIN cells = 1..n
  BY <1>1 DEF IsList
<1>3. PICK seq : seq = [i \in DOMAIN cells |-> i]
  OBVIOUS
<1>4. Len(seq) = n /\ \A i \in 1..n : seq[i] = i
  <2>1. seq = [i \in 1..n |-> seq[i]]
    BY <1>2, <1>3
  <2> QED BY <1>2, <1>3, <2>1, ListIsSequence
<1>5. /\ Fetch(<<>>, row, cells, seq).over = <<>>
      /\ Fetch(<<>>, row, cells, seq).got = [i \in 1..n |-> CellAt(<<>>, 0, cells, seq[i])]
  BY <1>2, <1>4, FetchPlain
<1>6. \A i \in 1..n : CellAt(<<>>, 0, cells, seq[i]) = cells[i]
  BY <1>2, <1>4, NothingLaidOver
<1> QED BY <1>2, <1>3, <1>5, <1>6

\* What one argument stands for is a sequence.
LEMMA WantedIsSequence ==
    ASSUME NEW o, NEW names, NEW a, ColumnArguments(o), Len(names) \in Nat,
           a \in DOMAIN o.columns
    PROVE  IsSequence(Wanted(o, names, o.columns[a]))
<1> DEFINE arg == o.columns[a]
<1>1. \A x : IsSequence(<<x>>)
  <2> TAKE x
  <2>1. <<x>> \in Seq({x})
    OBVIOUS
  <2> QED BY <2>1, SequenceOver
<1>2. ASSUME NEW m \in Int, NEW l
      PROVE  IsSequence([k \in 1..m |-> l + k - 1])
  <2> DEFINE n == IF m > 0 THEN m ELSE 0
             f == [k \in 1..n |-> l + k - 1]
  <2>1. 1..m = 1..n /\ n \in Nat
    OBVIOUS
  <2>2. f = [k \in 1..n |-> f[k]]
    OBVIOUS
  <2> HIDE DEF n, f
  <2>3. IsSequence(f)
    BY <2>1, <2>2, ListIsSequence
  <2> QED BY <2>1, <2>3 DEF f
<1>3. CASE ~o.byIndex
  BY <1>1, <1>3, Zenon DEF Wanted
<1>4. CASE o.byIndex
  <2>1. arg.kind \in {"none", "single", "range", "lower"} /\ arg.lo \in Nat /\ arg.hi \in Nat
    BY <1>4, Zenon DEF ColumnArguments
  <2>2. CASE arg.kind = "none"
    BY <1>1, <1>4, <2>2 DEF Wanted
  <2>3. CASE arg.kind = "single"
    BY <1>1, <1>4, <2>3 DEF Wanted
  <2>4. CASE arg.kind = "range"
    <3>1. Min({arg.hi, SelMaxColumns - 1}) \in Int
      <4>1. SelMaxColumns - 1 \in Int /\ arg.hi \in Int
        BY <2>1, SelAssumption
      <4>2. PICK x : x = SelMaxColumns - 1
        OBVIOUS
      <4>3. \E y \in {arg.hi, x} : \A z \in {arg.hi, x} : y <= z
        BY <4>1, <4>2
      <4>4. Min({arg.hi, x}) \in {arg.hi, x}
        BY <4>3, Zenon DEF Min
      <4> QED BY <4>1, <4>2, <4>4
    <3>2. Min({arg.hi, SelMaxColumns - 1}) - arg.lo + 1 \in Int
      BY <2>1, <3>1
    <3>3. Wanted(o, names, arg)
            = [k \in 1..(Min({arg.hi, SelMaxColumns - 1}) - arg.lo + 1) |-> arg.lo + k - 1]
      BY <1>4, <2>4 DEF Wanted
    <3> QED BY <1>2, <3>2, <3>3, Zenon
  <2>5. CASE arg.kind = "lower"
    <3>1. Len(names) - arg.lo + 1 \in Int
      BY <2>1
    <3>2. Wanted(o, names, arg) = [k \in 1..(Len(names) - arg.lo + 1) |-> arg.lo + k - 1]
      BY <1>4, <2>5 DEF Wanted
    <3> QED BY <1>2, <3>1, <3>2, Zenon
  <2> QED BY <2>1, <2>2, <2>3, <2>4, <2>5
<1>5. o.byIndex \in BOOLEAN \/ o.byIndex \notin BOOLEAN
  OBVIOUS
<1> QED BY <1>3, <1>4

\* Sequences put together one after the other give a sequence.
LEMMA FlatIsSequence ==
    ASSUME NEW n \in Nat, NEW s, s = [k \in 1..n |-> s[k]], \A k \in 1..n : IsSequence(s[k])
    PROVE  IsSequence(FlattenSeq(s))
<1>0. IsSequence(s) /\ Len(s) = n /\ DOMAIN s = 1..n
  BY ListIsSequence
<1>1. CASE n = 0
  <2>1. FlattenSeq(s) = s
    BY <1>0, <1>1, Zenon DEF FlattenSeq
  <2> QED BY <1>0, <2>1
<1>2. CASE n > 0
  <2>1. PICK f : f = [i \in 1..n |-> FlatNext(f, s, i)] /\ FlattenSeq(s) = f[n]
    BY <1>0, <1>2, FlatteningSteps
  <2> DEFINE W == {k \in 0..n : k > 0 => IsSequence(f[k])}
  <2>2. 0 \in W
    OBVIOUS
  <2>3. ASSUME NEW k \in 1..n, k - 1 \in W PROVE k \in W
    <3>1. f[k] = FlatNext(f, s, k)
      BY <2>1
    <3>2. CASE k = 1
      BY <3>1, <3>2 DEF FlatNext
    <3>3. CASE k # 1
      <4>1. IsSequence(f[k - 1]) /\ IsSequence(s[k])
        BY <2>3, <3>3
      <4>2. f[k] = f[k - 1] \o s[k]
        BY <3>1, <3>3 DEF FlatNext
      <4>3. IsSequence(f[k])
        BY <4>1, <4>2, ConcatElements
      <4> QED BY <4>3
    <3> QED BY <3>2, <3>3
  <2> HIDE DEF W
  <2>4. 0..n \subseteq W
    BY <2>2, <2>3, UpTo
  <2>5. n \in W
    BY <2>4
  <2> QED BY <1>2, <2>1, <2>5 DEF W
<1> QED BY <1>1, <1>2

\* The columns the arguments stand for are a sequence.
LEMMA WantedIsList ==
    ASSUME NEW o, NEW names, ColumnArguments(o), IsList(names)
    PROVE  IsSequence(WantedColumns(o, names))
<1>0. Len(names) \in Nat /\ DOMAIN names = 1..Len(names)
  BY DEF IsList
<1>1. CASE o.columns = <<>>
  <2> DEFINE f == [i \in DOMAIN names |-> i]
  <2>1. f = [i \in 1..Len(names) |-> f[i]]
    BY <1>0
  <2> HIDE DEF f
  <2>2. IsSequence(f)
    BY <1>0, <2>1, ListIsSequence
  <2>3. WantedColumns(o, names) = f
    BY <1>1 DEF WantedColumns, f
  <2> QED BY <2>2, <2>3
<1>2. CASE o.columns # <<>>
  <2> DEFINE s == [a \in DOMAIN o.columns |-> Wanted(o, names, o.columns[a])]
  <2>1. Len(o.columns) \in Nat /\ DOMAIN o.columns = 1..Len(o.columns)
    BY DEF ColumnArguments, IsList
  <2>2. s = [k \in 1..Len(o.columns) |-> s[k]]
    BY <2>1
  <2>3. \A k \in 1..Len(o.columns) : IsSequence(s[k])
    BY <1>0, <2>1, WantedIsSequence
  <2>4. WantedColumns(o, names) = FlattenSeq(s)
    BY <1>2, Zenon DEF WantedColumns
  <2> HIDE DEF s
  <2> QED BY <2>1, <2>2, <2>3, <2>4, FlatIsSequence
<1> QED BY <1>1, <1>2

\* A sequence that holds f of the numbers of a set up to n, in their order.
Listed(s, S, n, f) ==
    /\ IsSequence(s) /\ Len(s) = Cardinality(UpToPlace(S, n))
    /\ \A j \in UpToPlace(S, n) : PlaceIn(S, j) \in DOMAIN s /\ s[PlaceIn(S, j)] = f[j]
    /\ \A p \in DOMAIN s : \E j \in UpToPlace(S, n) : PlaceIn(S, j) = p

\* What such a sequence is.
LEMMA ListedHas ==
    ASSUME NEW s, NEW S, NEW n, NEW f, Listed(s, S, n, f)
    PROVE  /\ IsSequence(s) /\ Len(s) = Cardinality(UpToPlace(S, n)) /\ Len(s) \in Nat
           /\ DOMAIN s = 1..Len(s)
<1>1. IsSequence(s) /\ Len(s) = Cardinality(UpToPlace(S, n))
  BY DEF Listed
<1> QED BY <1>1, AppendIsSequence

\* Where it holds a number, and which number is at a place.
LEMMA ListedPlace ==
    ASSUME NEW s, NEW S, NEW n, NEW f, Listed(s, S, n, f), NEW j \in UpToPlace(S, n)
    PROVE  PlaceIn(S, j) \in DOMAIN s /\ s[PlaceIn(S, j)] = f[j]
BY DEF Listed

\* Every place holds one.
LEMMA ListedFrom ==
    ASSUME NEW s, NEW S, NEW n, NEW f, Listed(s, S, n, f), NEW p \in DOMAIN s
    PROVE  \E j \in UpToPlace(S, n) : PlaceIn(S, j) = p /\ s[p] = f[j]
<1>1. /\ \A j \in UpToPlace(S, n) : s[PlaceIn(S, j)] = f[j]
      /\ \E j \in UpToPlace(S, n) : PlaceIn(S, j) = p
  BY DEF Listed
<1> QED BY <1>1

\* It begins empty.
LEMMA ListedNothing ==
    ASSUME NEW S, S \subseteq Nat, NEW n \in Nat, NEW f, UpToPlace(S, n) = {}
    PROVE  Listed(<<>>, S, n, f)
<1>1. Cardinality(UpToPlace(S, n)) = 0
  BY FS_EmptySet
<1>2. Len(<<>>) = 0 /\ DOMAIN <<>> = {}
  OBVIOUS
<1> QED BY <1>1, <1>2, EmptyIsSequence DEF Listed

\* It goes on as it is past a number that is not in the set.
LEMMA ListedStays ==
    ASSUME NEW s, NEW S, S \subseteq Nat, NEW n \in Nat, NEW f, Listed(s, S, n, f), n + 1 \notin S
    PROVE  Listed(s, S, n + 1, f)
<1>1. UpToPlace(S, n + 1) = UpToPlace(S, n)
  BY PlacesCount
<1> QED BY <1>1, Zenon DEF Listed

\* And grows by one that is.
LEMMA ListedGrows ==
    ASSUME NEW s, NEW S, S \subseteq Nat, NEW n \in Nat, NEW f, Listed(s, S, n, f), n + 1 \in S
    PROVE  Listed(Append(s, f[n + 1]), S, n + 1, f)
<1> DEFINE t == Append(s, f[n + 1])
<1>1. /\ UpToPlace(S, n + 1) = UpToPlace(S, n) \cup {n + 1}
      /\ Cardinality(UpToPlace(S, n + 1)) = Cardinality(UpToPlace(S, n)) + 1
      /\ PlaceIn(S, n + 1) = Cardinality(UpToPlace(S, n)) + 1
  BY PlacesCount
<1>2. /\ IsSequence(s) /\ Len(s) = Cardinality(UpToPlace(S, n)) /\ Len(s) \in Nat
      /\ DOMAIN s = 1..Len(s)
      /\ \A j \in UpToPlace(S, n) : PlaceIn(S, j) \in DOMAIN s /\ s[PlaceIn(S, j)] = f[j]
      /\ \A p \in DOMAIN s : \E j \in UpToPlace(S, n) : PlaceIn(S, j) = p /\ s[p] = f[j]
  <2> HIDE DEF t
  <2>1. IsSequence(s) /\ Len(s) = Cardinality(UpToPlace(S, n))
    BY ListedHas
  <2>2. Len(s) \in Nat /\ DOMAIN s = 1..Len(s)
    BY ListedHas
  <2>3. \A j \in UpToPlace(S, n) : PlaceIn(S, j) \in DOMAIN s /\ s[PlaceIn(S, j)] = f[j]
    <3> TAKE j \in UpToPlace(S, n)
    <3> QED BY ListedPlace
  <2>4. \A p \in DOMAIN s : \E j \in UpToPlace(S, n) : PlaceIn(S, j) = p /\ s[p] = f[j]
    <3> TAKE p \in DOMAIN s
    <3> QED BY ListedFrom
  <2> QED BY <2>1, <2>2, <2>3, <2>4
<1>3. /\ IsSequence(t) /\ Len(t) = Len(s) + 1 /\ t[Len(s) + 1] = f[n + 1]
      /\ \A k \in DOMAIN s : t[k] = s[k]
      /\ DOMAIN t = 1..(Len(s) + 1)
  BY <1>2, AppendIsSequence
<1> HIDE DEF t
<1>4. \A j \in UpToPlace(S, n + 1) : PlaceIn(S, j) \in DOMAIN t /\ t[PlaceIn(S, j)] = f[j]
  BY <1>1, <1>2, <1>3
<1>5. \A p \in DOMAIN t : \E j \in UpToPlace(S, n + 1) : PlaceIn(S, j) = p
  <2> TAKE p \in DOMAIN t
  <2>1. p = Len(s) + 1 \/ p \in DOMAIN s
    BY <1>2, <1>3
  <2>2. CASE p = Len(s) + 1
    BY <1>1, <1>2, <2>2
  <2>3. CASE p \in DOMAIN s
    BY <1>1, <1>2, <2>3
  <2> QED BY <2>1, <2>2, <2>3
<1> QED BY <1>1, <1>2, <1>3, <1>4, <1>5 DEF Listed, t

\* The loop over the columns, as an equation of what it gives for the first.
ChosenNext(o, names, want, f, n) ==
    IF n = 0 THEN <<>> ELSE AddOutputCol(o, names, f[n - 1], want[n])

\* It has a solution.
LEMMA ChosenExist ==
    ASSUME NEW o, NEW names, NEW want, NEW N \in Nat
    PROVE  \E f : f = [n \in 0..N |-> ChosenNext(o, names, want, f, n)]
<1> DEFINE Step(f, n) == ChosenNext(o, names, want, f, n)
           Upto(m) == \E f : f = [n \in 0..m |-> Step(f, n)]
           W == {m \in 0..N : Upto(m)}
<1>1. 0 \in W
  <2> DEFINE f == [n \in 0..0 |-> <<>>]
  <2>1. \A n \in 0..0 : Step(f, n) = <<>>
    BY DEF ChosenNext
  <2>2. f = [n \in 0..0 |-> Step(f, n)]
    BY <2>1, Zenon
  <2>3. Upto(0)
    BY <2>2
  <2>4. 0 \in 0..N
    OBVIOUS
  <2> HIDE DEF f, Upto
  <2> QED BY <2>3, <2>4
<1>2. ASSUME NEW k \in 1..N, k - 1 \in W PROVE k \in W
  <2>1. PICK g : g = [n \in 0..(k - 1) |-> Step(g, n)]
    BY <1>2
  <2> DEFINE h == [n \in 0..k |-> IF n = k THEN Step(g, k) ELSE g[n]]
  <2>2. \A n \in 0..(k - 1) : h[n] = g[n]
    OBVIOUS
  <2>3. h = [n \in 0..k |-> IF n = k THEN Step(g, k) ELSE g[n]]
    OBVIOUS
  <2> HIDE DEF h
  <2>4. ASSUME NEW n \in 0..k PROVE Step(h, n) = Step(g, n)
    <3>1. CASE n = 0
      BY <3>1 DEF ChosenNext
    <3>2. CASE n # 0
      <4>1. h[n - 1] = g[n - 1]
        BY <2>2, <3>2
      <4> QED BY <4>1 DEF ChosenNext
    <3> QED BY <3>1, <3>2
  <2>5. \A n \in 0..(k - 1) : g[n] = Step(g, n)
    BY <2>1
  <2>6. \A n \in 0..k : (IF n = k THEN Step(g, k) ELSE g[n]) = Step(h, n)
    <3> HIDE DEF Step
    <3>1. \A n \in 0..k : n = k \/ n \in 0..(k - 1)
      OBVIOUS
    <3> QED BY <2>4, <2>5, <3>1
  <2>7. h = [n \in 0..k |-> Step(h, n)]
    BY <2>3, <2>6, Zenon
  <2>8. Upto(k)
    BY <2>7, Zenon
  <2> QED BY <2>8
<1> HIDE DEF W
<1>3. 0..N \subseteq W
  BY <1>1, <1>2, UpTo
<1> QED BY <1>3 DEF W

\* The loop step by step.
LEMMA ChosenSteps ==
    ASSUME NEW o, NEW names, NEW want, want = WantedColumns(o, names), Len(want) \in Nat
    PROVE  \E c : /\ c[0] = <<>> /\ OutputColumns(o, names) = c[Len(want)]
                  /\ \A n \in 1..Len(want) : c[n] = AddOutputCol(o, names, c[n - 1], want[n])
<1> DEFINE c == CHOOSE f : f = [n \in 0..Len(want) |-> ChosenNext(o, names, want, f, n)]
<1>0. \E f : f = [n \in 0..Len(want) |-> ChosenNext(o, names, want, f, n)]
  BY ChosenExist
<1>1. c = [n \in 0..Len(want) |-> ChosenNext(o, names, want, c, n)]
  BY <1>0, Zenon
<1>2. OutputColumns(o, names) = c[Len(want)]
  BY Zenon DEF OutputColumns, ChosenNext
<1> HIDE DEF c
<1>3. c[0] = <<>>
  BY <1>1 DEF ChosenNext
<1>4. \A n \in 1..Len(want) : c[n] = AddOutputCol(o, names, c[n - 1], want[n])
  BY <1>1 DEF ChosenNext
<1> QED BY <1>2, <1>3, <1>4

\* Namesakes of one column are namesakes.
LEMMA NamesakesOfOne ==
    ASSUME NEW names, NEW a, NEW b, Namesakes(names, a, b)
    PROVE  /\ Namesakes(names, b, a)
           /\ \A c : Namesakes(names, b, c) => Namesakes(names, a, c)
           /\ \A c : Namesakes(names, c, b) => Namesakes(names, c, a)
BY DEF Namesakes, SameName

\* The columns asked for, place by place.
LEMMA AskedPlaces ==
    ASSUME NEW o, NEW names, NEW want, want = WantedColumns(o, names)
    PROVE  \A k : k \in AskedColumns(o, names) <=>
                    /\ k \in DOMAIN want /\ ~Excluded(o, names, want[k])
                    /\ o.distinct # "none" =>
                         ~\E j \in DOMAIN want : /\ ~Excluded(o, names, want[j]) /\ j < k
                                                 /\ Namesakes(names, want[j], want[k])
<1> DEFINE kept == {k \in DOMAIN want : ~Excluded(o, names, want[k])}
<1>1. AskedColumns(o, names) =
        {k \in kept : o.distinct # "none" =>
                        ~\E j \in kept : j < k /\ Namesakes(names, want[j], want[k])}
  BY Zenon DEF AskedColumns
<1>2. \A k : k \in kept <=> k \in DOMAIN want /\ ~Excluded(o, names, want[k])
  OBVIOUS
<1> HIDE DEF kept
<1>3. \A k : (\E j \in kept : j < k /\ Namesakes(names, want[j], want[k])) <=>
             (\E j \in DOMAIN want : /\ ~Excluded(o, names, want[j]) /\ j < k
                                     /\ Namesakes(names, want[j], want[k]))
  BY <1>2, Zenon
<1> QED BY <1>1, <1>2, <1>3, Zenon

\* They are numbers.
LEMMA AskedAreNumbers ==
    ASSUME NEW o, NEW names, IsSequence(WantedColumns(o, names))
    PROVE  /\ AskedColumns(o, names) \subseteq Nat
           /\ \A k \in AskedColumns(o, names) : k \in 1..Len(WantedColumns(o, names))
           /\ DOMAIN WantedColumns(o, names) = 1..Len(WantedColumns(o, names))
           /\ Len(WantedColumns(o, names)) \in Nat
<1> DEFINE want == WantedColumns(o, names)
<1>1. Len(want) \in Nat /\ DOMAIN want = 1..Len(want)
  BY AppendIsSequence
<1>2. \A k \in AskedColumns(o, names) : k \in DOMAIN want
  BY AskedPlaces, Zenon
<1> HIDE DEF want
<1>3. \A k \in AskedColumns(o, names) : k \in 1..Len(want) /\ k \in Nat
  BY <1>1, <1>2
<1> QED BY <1>1, <1>3 DEF want

\* A column has a namesake among the first columns if it has one among those
\* that are not excluded: the first of them.
LEMMA NamesakeBefore ==
    ASSUME NEW o, NEW names, NEW want, want = WantedColumns(o, names), IsSequence(want),
           o.distinct # "none", NEW n \in Nat, NEW m \in DOMAIN want, NEW j \in DOMAIN want,
           j <= n, ~Excluded(o, names, want[j]), Namesakes(names, want[j], want[m])
    PROVE  \E k \in UpToPlace(AskedColumns(o, names), n) : Namesakes(names, want[k], want[m])
<1> DEFINE S == {i \in DOMAIN want : /\ ~Excluded(o, names, want[i])
                                     /\ Namesakes(names, want[i], want[m])}
<1>0. DOMAIN want = 1..Len(want) /\ Len(want) \in Nat
  BY AskedAreNumbers
<1>1. S \subseteq Nat /\ j \in S
  BY <1>0
<1>2. PICK k \in S : \A i \in S : k <= i
  BY <1>1, LeastNatural
<1>3. /\ k \in DOMAIN want /\ ~Excluded(o, names, want[k]) /\ k <= n /\ k \in Nat
      /\ Namesakes(names, want[k], want[m])
  BY <1>0, <1>1, <1>2
<1>4. ASSUME NEW i \in DOMAIN want, ~Excluded(o, names, want[i]), i < k,
             Namesakes(names, want[i], want[k])
      PROVE  FALSE
  <2>1. Namesakes(names, want[i], want[m])
    BY <1>3, <1>4, NamesakesOfOne
  <2>2. i \in S
    BY <1>4, <2>1
  <2>3. k <= i
    BY <1>2, <2>2
  <2> QED BY <1>0, <1>3, <1>4, <2>3
<1> HIDE DEF S
<1>5. k \in AskedColumns(o, names)
  BY <1>3, <1>4, AskedPlaces, Zenon
<1> QED BY <1>3, <1>5 DEF UpToPlace

\* The numbers of the columns chosen.
Ixs(cols) == [p \in DOMAIN cols |-> cols[p].ix]
\* The places after k of columns with its name.
Later(names, want, k) == {j \in DOMAIN want : j > k /\ Namesakes(names, want[k], want[j])}
\* The cases of --merge that are covered.
Merging(o) == o.distinct = "merge" /\ ~(o.byIndex /\ o.exclude # <<>>)

\* After n columns of the arguments: those asked for, and what they merge.
ColumnsAre(o, names, cols, n) ==
    /\ IsSequence(cols)
    /\ \A p \in DOMAIN cols : cols[p] = [ix |-> cols[p].ix, merge |-> cols[p].merge]
    /\ Listed(Ixs(cols), AskedColumns(o, names), n, WantedColumns(o, names))
    /\ Merging(o) => \A k \in UpToPlace(AskedColumns(o, names), n) :
         Listed(cols[PlaceIn(AskedColumns(o, names), k)].merge,
                Later(names, WantedColumns(o, names), k), n, WantedColumns(o, names))

\* One column more is one number more.
LEMMA IxsGrow ==
    ASSUME NEW cols, IsSequence(cols), NEW i, NEW m
    PROVE  /\ Len(Ixs(cols)) = Len(cols) /\ DOMAIN Ixs(cols) = DOMAIN cols
           /\ Ixs(Append(cols, [ix |-> i, merge |-> m])) = Append(Ixs(cols), i)
<1> DEFINE e == [ix |-> i, merge |-> m]
           a == Append(cols, e)
           s == Ixs(cols)
           t == Ixs(a)
<1>1. /\ IsSequence(a) /\ Len(a) = Len(cols) + 1 /\ Len(cols) \in Nat
      /\ a[Len(cols) + 1] = e /\ \A k \in DOMAIN cols : a[k] = cols[k]
      /\ DOMAIN cols = 1..Len(cols) /\ DOMAIN a = 1..(Len(cols) + 1)
  BY AppendIsSequence
<1> HIDE DEF a
<1>2. s = [k \in 1..Len(cols) |-> s[k]] /\ \A k \in 1..Len(cols) : s[k] = cols[k].ix
  BY <1>1 DEF Ixs
<1>3. t = [k \in 1..(Len(cols) + 1) |-> t[k]] /\ \A k \in 1..(Len(cols) + 1) : t[k] = a[k].ix
  BY <1>1 DEF Ixs
<1> HIDE DEF s, t
<1>4. IsSequence(s) /\ Len(s) = Len(cols) /\ DOMAIN s = 1..Len(cols)
  BY <1>1, <1>2, ListIsSequence
<1>5. IsSequence(t) /\ Len(t) = Len(cols) + 1
  <2>1. Len(cols) + 1 \in Nat
    BY <1>1
  <2> QED BY <1>3, <2>1, ListIsSequence
<1> DEFINE u == Append(s, i)
<1>6. /\ IsSequence(u) /\ Len(u) = Len(s) + 1 /\ u[Len(s) + 1] = i
      /\ \A k \in DOMAIN s : u[k] = s[k]
  BY <1>4, AppendIsSequence
<1> HIDE DEF u
<1>7. \A k \in 1..Len(t) : t[k] = u[k]
  <2> TAKE k \in 1..Len(t)
  <2>1. CASE k \in 1..Len(cols)
    <3>1. u[k] = cols[k].ix
      BY <1>2, <1>4, <1>6, <2>1
    <3>2. t[k] = cols[k].ix
      BY <1>1, <1>3, <1>5, <2>1
    <3> QED BY <3>1, <3>2
  <2>2. CASE k = Len(cols) + 1
    <3>1. t[k] = a[k].ix /\ a[k] = e
      BY <1>1, <1>3, <1>5, <2>2
    <3>2. u[k] = i
      BY <1>4, <1>6, <2>2
    <3> QED BY <3>1, <3>2
  <2> QED BY <1>1, <1>5, <2>1, <2>2
<1>8. t = u
  BY <1>4, <1>5, <1>6, <1>7, SamePlaces
<1> QED BY <1>1, <1>4, <1>8 DEF a, s, t, u

\* The column chosen whose name the next one has.
FoundIs(o, names, cols, n, found) ==
    LET want == WantedColumns(o, names)
        first == AskedColumns(o, names)
    IN  \/ found = 0 /\ \A k \in UpToPlace(first, n) : ~Namesakes(names, want[k], want[n + 1])
        \/ found # 0 /\ \E k \in UpToPlace(first, n) :
             /\ found = PlaceIn(first, k) /\ found \in DOMAIN cols
             /\ Namesakes(names, want[k], want[n + 1])

\* zsv_select_find_header finds it.
LEMMA HeaderIsFound ==
    ASSUME NEW o, NEW names, NEW cols, NEW n \in Nat, ColumnsAre(o, names, cols, n),
           NEW i, i = WantedColumns(o, names)[n + 1]
    PROVE  FoundIs(o, names, cols, n, FindHeader(names, cols, i))
<1> DEFINE want == WantedColumns(o, names)
           first == AskedColumns(o, names)
           same == {k \in DOMAIN cols : Namesakes(names, cols[k].ix, i)}
<1>1. IsSequence(cols) /\ Listed(Ixs(cols), first, n, want)
  BY DEF ColumnsAre
<1>2. DOMAIN cols = 1..Len(cols) /\ Len(cols) \in Nat
  BY <1>1, AppendIsSequence
<1>3. DOMAIN Ixs(cols) = DOMAIN cols /\ \A p \in DOMAIN cols : Ixs(cols)[p] = cols[p].ix
  BY DEF Ixs
<1>4. FindHeader(names, cols, i) = IF same = {} THEN 0 ELSE Min(same)
  BY DEF FindHeader
<1> HIDE DEF want, first
<1>5. CASE same = {}
  <2>1. ASSUME NEW k \in UpToPlace(first, n), Namesakes(names, want[k], i) PROVE FALSE
    <3>1. PlaceIn(first, k) \in DOMAIN Ixs(cols) /\ Ixs(cols)[PlaceIn(first, k)] = want[k]
      BY <1>1, ListedPlace
    <3>2. PlaceIn(first, k) \in same
      BY <1>3, <2>1, <3>1
    <3> QED BY <1>5, <3>2
  <2>2. FindHeader(names, cols, i) = 0
    BY <1>4, <1>5
  <2> QED BY <2>1, <2>2, Zenon DEF FoundIs, want, first
<1>6. CASE same # {}
  <2>1. same \subseteq Nat
    BY <1>2
  <2>2. Min(same) \in same
    BY <1>6, <2>1, MinIsLeast
  <2>3. PICK f : f = FindHeader(names, cols, i)
    OBVIOUS
  <2>4. f \in DOMAIN cols /\ Namesakes(names, cols[f].ix, i) /\ f # 0
    BY <1>2, <1>4, <1>6, <2>2, <2>3
  <2>5. PICK k \in UpToPlace(first, n) : PlaceIn(first, k) = f /\ Ixs(cols)[f] = want[k]
    <3>1. f \in DOMAIN Ixs(cols)
      BY <1>3, <2>4
    <3> QED BY <1>1, <3>1, ListedFrom
  <2>6. Namesakes(names, want[k], i)
    BY <1>3, <2>4, <2>5
  <2> QED BY <2>3, <2>4, <2>5, <2>6, Zenon DEF FoundIs, want, first
<1> QED BY <1>5, <1>6

\* With --distinct or --merge a column found is one not to be chosen again, and
\* one not found is chosen unless it is excluded.
LEMMA NextIsChosen ==
    ASSUME NEW o, NEW names, NEW want, want = WantedColumns(o, names), IsSequence(want),
           NEW cols, NEW n \in Nat, n + 1 \in DOMAIN want, NEW found,
           FoundIs(o, names, cols, n, found)
    PROVE  n + 1 \in AskedColumns(o, names) <=>
             ~Excluded(o, names, want[n + 1]) /\ (o.distinct # "none" => found = 0)
<1> DEFINE first == AskedColumns(o, names)
           before == \E j \in DOMAIN want : /\ ~Excluded(o, names, want[j]) /\ j < n + 1
                                            /\ Namesakes(names, want[j], want[n + 1])
<1>1. n + 1 \in first <=> ~Excluded(o, names, want[n + 1]) /\ (o.distinct # "none" => ~before)
  BY AskedPlaces, Zenon
<1>2. ASSUME o.distinct # "none" PROVE ~before <=> found = 0
  <2>0. DOMAIN want = 1..Len(want) /\ Len(want) \in Nat
    BY AskedAreNumbers
  <2>1. ASSUME before PROVE found # 0
    <3>1. PICK j \in DOMAIN want : /\ ~Excluded(o, names, want[j]) /\ j < n + 1
                                   /\ Namesakes(names, want[j], want[n + 1])
      BY <2>1
    <3>2. j <= n
      BY <2>0, <3>1
    <3>3. \E k \in UpToPlace(first, n) : Namesakes(names, want[k], want[n + 1])
      BY <1>2, <3>1, <3>2, NamesakeBefore
    <3> QED BY <3>3, Zenon DEF FoundIs
  <2>2. ASSUME found # 0 PROVE before
    <3>1. PICK k \in UpToPlace(first, n) : Namesakes(names, want[k], want[n + 1])
      BY <2>2, Zenon DEF FoundIs
    <3>2. k \in first /\ k <= n
      BY DEF UpToPlace
    <3> HIDE DEF first
    <3>3. k \in DOMAIN want /\ ~Excluded(o, names, want[k])
      BY <3>2, AskedPlaces, Zenon DEF first
    <3>4. k < n + 1
      BY <2>0, <3>2, <3>3
    <3> QED BY <3>1, <3>3, <3>4
  <2> QED BY <2>1, <2>2
<1> QED BY <1>1, <1>2

\* Of each name only one column is asked for.
LEMMA OneOfEachName ==
    ASSUME NEW o, NEW names, NEW want, want = WantedColumns(o, names), IsSequence(want),
           o.distinct # "none", NEW j \in AskedColumns(o, names), NEW k \in AskedColumns(o, names),
           Namesakes(names, want[j], want[k])
    PROVE  j = k
<1>0. DOMAIN want = 1..Len(want) /\ Len(want) \in Nat
  BY AskedAreNumbers
<1>1. /\ j \in DOMAIN want /\ ~Excluded(o, names, want[j])
      /\ k \in DOMAIN want /\ ~Excluded(o, names, want[k])
  BY AskedPlaces, Zenon
<1>2. Namesakes(names, want[k], want[j])
  BY NamesakesOfOne
<1>3. ~(j < k)
  BY <1>1, AskedPlaces, Zenon
<1>4. ~(k < j)
  BY <1>1, <1>2, AskedPlaces, Zenon
<1> QED BY <1>0, <1>1, <1>3, <1>4

\* Columns of one name are excluded together, except by their numbers.
LEMMA NamesakesExcluded ==
    ASSUME NEW o, Merging(o), NEW names, NEW i, NEW j, Namesakes(names, i, j),
           Excluded(o, names, i)
    PROVE  Excluded(o, names, j)
<1>1. ~o.byIndex
  <2> SUFFICES ASSUME o.byIndex PROVE FALSE
    OBVIOUS
  <2>1. o.exclude = <<>>
    BY Zenon DEF Merging
  <2>2. Range(<<>>) = {}
    BY DEF Range
  <2> QED BY <2>1, <2>2, Zenon DEF Excluded
<1>2. PICK x \in Range(o.exclude) : SameName(names[i], x)
  BY <1>1, Zenon DEF Excluded
<1>3. j \in DOMAIN names /\ SameName(names[i], names[j])
  BY DEF Namesakes
<1>4. SameName(names[j], x)
  BY <1>2, <1>3 DEF SameName
<1> QED BY <1>1, <1>2, <1>3, <1>4, Zenon DEF Excluded

\* There is room for one column more.
LEMMA RoomForOne ==
    ASSUME NEW o, NEW names, NEW want, want = WantedColumns(o, names), IsSequence(want),
           Len(want) <= SelMaxColumns, NEW n \in Nat, n + 1 \in DOMAIN want,
           NEW cols, ColumnsAre(o, names, cols, n)
    PROVE  ~(Len(cols) >= SelMaxColumns)
<1> DEFINE first == AskedColumns(o, names)
<1>0. DOMAIN want = 1..Len(want) /\ Len(want) \in Nat /\ first \subseteq Nat
      /\ \A k \in first : k \in 1..Len(want)
  BY AskedAreNumbers
<1>1. Listed(Ixs(cols), first, n, want) /\ IsSequence(cols)
  BY DEF ColumnsAre
<1>2. Len(Ixs(cols)) = Cardinality(UpToPlace(first, n)) /\ Len(Ixs(cols)) = Len(cols)
  <2>1. Len(Ixs(cols)) = Len(cols)
    BY <1>1, IxsGrow
  <2> HIDE DEF first
  <2> QED BY <1>1, <2>1, ListedHas
<1>3. UpToPlace(first, n) \subseteq 1..n
  BY <1>0 DEF UpToPlace
<1>4. IsFiniteSet(1..n) /\ Cardinality(1..n) = n
  BY FS_Interval
<1>5. Cardinality(UpToPlace(first, n)) <= n
  BY <1>3, <1>4, FS_Subset
<1> QED BY <1>0, <1>2, <1>5, SelAssumption

\* A place before the next one that is none of its name.
LEMMA NotLater ==
    ASSUME NEW names, NEW want, NEW n, NEW k, ~Namesakes(names, want[k], want[n + 1])
    PROVE  n + 1 \notin Later(names, want, k)
BY DEF Later

\* The column is chosen.
LEMMA ColumnChosen ==
    ASSUME NEW o, NEW names, NEW want, want = WantedColumns(o, names), IsSequence(want),
           NEW n \in Nat, n + 1 \in DOMAIN want, NEW cols, ColumnsAre(o, names, cols, n),
           NEW first, first = AskedColumns(o, names), n + 1 \in first,
           Merging(o) => \A k \in UpToPlace(first, n) : ~Namesakes(names, want[k], want[n + 1]),
           NEW e, e = [ix |-> want[n + 1], merge |-> <<>>]
    PROVE  ColumnsAre(o, names, Append(cols, e), n + 1)
<1> DEFINE a == Append(cols, e)
<1>0. DOMAIN want = 1..Len(want) /\ Len(want) \in Nat /\ first \subseteq Nat
  BY AskedAreNumbers
<1>1. /\ IsSequence(cols) /\ Listed(Ixs(cols), first, n, want)
      /\ \A p \in DOMAIN cols : cols[p] = [ix |-> cols[p].ix, merge |-> cols[p].merge]
      /\ Merging(o) => \A k \in UpToPlace(first, n) :
           Listed(cols[PlaceIn(first, k)].merge, Later(names, want, k), n, want)
  BY DEF ColumnsAre
<1>2. /\ IsSequence(a) /\ Len(a) = Len(cols) + 1 /\ Len(cols) \in Nat
      /\ a[Len(cols) + 1] = e /\ \A k \in DOMAIN cols : a[k] = cols[k]
      /\ DOMAIN cols = 1..Len(cols) /\ DOMAIN a = 1..(Len(cols) + 1)
  BY <1>1, AppendIsSequence
<1>3. Ixs(a) = Append(Ixs(cols), want[n + 1]) /\ DOMAIN Ixs(cols) = DOMAIN cols
      /\ Len(Ixs(cols)) = Len(cols)
  BY <1>1, IxsGrow
<1> HIDE DEF a
<1>4. Listed(Ixs(a), first, n + 1, want)
  BY <1>0, <1>1, <1>3, ListedGrows
<1>5. \A p \in DOMAIN a : a[p] = [ix |-> a[p].ix, merge |-> a[p].merge]
  <2> TAKE p \in DOMAIN a
  <2>1. CASE p \in DOMAIN cols
    BY <1>1, <1>2, <2>1
  <2>2. CASE p = Len(cols) + 1
    BY <1>2, <2>2
  <2> QED BY <1>2, <2>1, <2>2
<1>6. ASSUME Merging(o), NEW k \in UpToPlace(first, n + 1)
      PROVE  Listed(a[PlaceIn(first, k)].merge, Later(names, want, k), n + 1, want)
  <2>0. Later(names, want, k) \subseteq Nat
    BY <1>0 DEF Later
  <2>1. /\ UpToPlace(first, n + 1) = UpToPlace(first, n) \cup {n + 1}
        /\ PlaceIn(first, n + 1) = Cardinality(UpToPlace(first, n)) + 1
    BY <1>0, PlacesCount
  <2>2. CASE k \in UpToPlace(first, n)
    <3>1. PlaceIn(first, k) \in DOMAIN cols
      BY <1>1, <1>3, <2>2, ListedPlace
    <3>2. n + 1 \notin Later(names, want, k)
      BY <1>6, <2>2, NotLater
    <3>3. Listed(cols[PlaceIn(first, k)].merge, Later(names, want, k), n, want)
      BY <1>1, <1>6, <2>2
    <3>4. Listed(cols[PlaceIn(first, k)].merge, Later(names, want, k), n + 1, want)
      BY <2>0, <3>2, <3>3, ListedStays
    <3> QED BY <1>2, <3>1, <3>4
  <2>3. CASE k = n + 1
    <3>1. Len(Ixs(cols)) = Cardinality(UpToPlace(first, n))
      BY <1>1, ListedHas
    <3>2. a[PlaceIn(first, k)].merge = <<>>
      BY <1>2, <1>3, <2>1, <2>3, <3>1
    <3>3. UpToPlace(Later(names, want, k), n + 1) = {}
      BY <1>0, <2>3 DEF UpToPlace, Later
    <3> QED BY <2>0, <3>2, <3>3, ListedNothing
  <2> QED BY <2>1, <2>2, <2>3
<1> QED BY <1>2, <1>4, <1>5, <1>6, Zenon DEF ColumnsAre, a

\* The column is passed over.
LEMMA ColumnPassed ==
    ASSUME NEW o, NEW names, NEW want, want = WantedColumns(o, names), IsSequence(want),
           NEW n \in Nat, NEW cols, ColumnsAre(o, names, cols, n),
           NEW first, first = AskedColumns(o, names), n + 1 \notin first,
           Merging(o) => \A k \in UpToPlace(first, n) : ~Namesakes(names, want[k], want[n + 1])
    PROVE  ColumnsAre(o, names, cols, n + 1)
<1>0. DOMAIN want = 1..Len(want) /\ Len(want) \in Nat /\ first \subseteq Nat
  BY AskedAreNumbers
<1>1. /\ IsSequence(cols) /\ Listed(Ixs(cols), first, n, want)
      /\ \A p \in DOMAIN cols : cols[p] = [ix |-> cols[p].ix, merge |-> cols[p].merge]
      /\ Merging(o) => \A k \in UpToPlace(first, n) :
           Listed(cols[PlaceIn(first, k)].merge, Later(names, want, k), n, want)
  BY DEF ColumnsAre
<1>2. Listed(Ixs(cols), first, n + 1, want)
  BY <1>0, <1>1, ListedStays
<1>3. ASSUME Merging(o), NEW k \in UpToPlace(first, n + 1)
      PROVE  Listed(cols[PlaceIn(first, k)].merge, Later(names, want, k), n + 1, want)
  <2>1. k \in UpToPlace(first, n)
    BY <1>0, PlacesCount
  <2>2. Later(names, want, k) \subseteq Nat
    BY <1>0 DEF Later
  <2>3. n + 1 \notin Later(names, want, k)
    BY <1>3, <2>1, NotLater
  <2>4. Listed(cols[PlaceIn(first, k)].merge, Later(names, want, k), n, want)
    BY <1>1, <1>3, <2>1
  <2> QED BY <2>2, <2>3, <2>4, ListedStays
<1> QED BY <1>1, <1>2, <1>3, Zenon DEF ColumnsAre

\* The column is merged into one of its name.
LEMMA ColumnMerged ==
    ASSUME NEW o, NEW names, NEW want, want = WantedColumns(o, names), IsSequence(want),
           NEW n \in Nat, n + 1 \in DOMAIN want, NEW cols, ColumnsAre(o, names, cols, n),
           NEW first, first = AskedColumns(o, names), n + 1 \notin first, Merging(o),
           NEW k \in UpToPlace(first, n), NEW found, found = PlaceIn(first, k),
           Namesakes(names, want[k], want[n + 1])
    PROVE  ColumnsAre(o, names,
                      [cols EXCEPT ![found].merge = Append(@, want[n + 1])], n + 1)
<1> DEFINE m == Append(cols[found].merge, want[n + 1])
           a == [cols EXCEPT ![found].merge = Append(@, want[n + 1])]
<1>0. DOMAIN want = 1..Len(want) /\ Len(want) \in Nat /\ first \subseteq Nat
  BY AskedAreNumbers
<1>1. /\ IsSequence(cols) /\ Listed(Ixs(cols), first, n, want)
      /\ \A p \in DOMAIN cols : cols[p] = [ix |-> cols[p].ix, merge |-> cols[p].merge]
      /\ \A j \in UpToPlace(first, n) :
           Listed(cols[PlaceIn(first, j)].merge, Later(names, want, j), n, want)
  BY DEF ColumnsAre
<1>2. /\ Len(cols) \in Nat /\ DOMAIN cols = 1..Len(cols) /\ cols = [p \in 1..Len(cols) |-> cols[p]]
  <2>1. Len(cols) \in Nat /\ DOMAIN cols = 1..Len(cols)
    BY <1>1, AppendIsSequence
  <2>2. cols = [p \in DOMAIN cols |-> cols[p]]
    <3>1. cols \in Seq({cols[p] : p \in DOMAIN cols})
      BY <1>1 DEF IsSequence
    <3> QED BY <3>1
  <2> QED BY <2>1, <2>2
<1>3. found \in DOMAIN cols
  <2>1. DOMAIN Ixs(cols) = DOMAIN cols
    BY DEF Ixs
  <2> QED BY <1>1, <2>1, ListedPlace
<1>4. /\ DOMAIN a = DOMAIN cols /\ a = [p \in 1..Len(cols) |-> a[p]]
      /\ \A p \in DOMAIN cols : p # found => a[p] = cols[p]
      /\ a[found] = [ix |-> cols[found].ix, merge |-> m]
  <2>1. cols[found] = [ix |-> cols[found].ix, merge |-> cols[found].merge]
    BY <1>1, <1>3
  <2>2. [cols[found] EXCEPT !.merge = m] = [ix |-> cols[found].ix, merge |-> m]
    BY <2>1
  <2>3. a = [cols EXCEPT ![found] = [cols[found] EXCEPT !.merge = m]]
    OBVIOUS
  <2> HIDE DEF a, m
  <2> QED BY <1>2, <1>3, <2>2, <2>3
<1> HIDE DEF a
<1>5. IsSequence(a)
  BY <1>2, <1>4, ListIsSequence
<1>6. Ixs(a) = Ixs(cols)
  <2>1. \A p \in DOMAIN cols : a[p].ix = cols[p].ix
    <3> HIDE DEF m
    <3>1. a[found].ix = cols[found].ix
      BY <1>4
    <3>2. \A p \in DOMAIN cols : p # found => a[p].ix = cols[p].ix
      BY <1>4
    <3> QED BY <3>1, <3>2
  <2> QED BY <1>4, <2>1 DEF Ixs
<1>7. \A p \in DOMAIN a : a[p] = [ix |-> a[p].ix, merge |-> a[p].merge]
  <2> HIDE DEF m
  <2> QED BY <1>1, <1>3, <1>4
<1>8. Listed(Ixs(a), first, n + 1, want)
  BY <1>0, <1>1, <1>6, ListedStays
<1>9. ASSUME NEW j \in UpToPlace(first, n + 1)
      PROVE  Listed(a[PlaceIn(first, j)].merge, Later(names, want, j), n + 1, want)
  <2>0. Later(names, want, j) \subseteq Nat
    BY <1>0 DEF Later
  <2>1. j \in UpToPlace(first, n)
    BY <1>0, PlacesCount
  <2>2. Listed(cols[PlaceIn(first, j)].merge, Later(names, want, j), n, want)
    BY <1>1, <2>1
  <2>3. PlaceIn(first, j) \in DOMAIN cols
    <3>1. DOMAIN Ixs(cols) = DOMAIN cols
      BY DEF Ixs
    <3> QED BY <1>1, <2>1, <3>1, ListedPlace
  <2>4. CASE j = k
    <3>1. n + 1 \in Later(names, want, j)
      <4>1. k \in Nat /\ k <= n
        BY <1>0 DEF UpToPlace
      <4> QED BY <4>1, <2>4 DEF Later
    <3>2. Listed(m, Later(names, want, j), n + 1, want)
      BY <2>0, <2>2, <2>4, <3>1, ListedGrows
    <3>3. a[PlaceIn(first, j)].merge = m
      <4> HIDE DEF m
      <4> QED BY <1>4, <2>4
    <3> QED BY <3>2, <3>3
  <2>5. CASE j # k
    <3>0. o.distinct # "none" /\ j \in first /\ k \in first
      BY <2>1 DEF Merging, UpToPlace
    <3>1. ~Namesakes(names, want[j], want[n + 1])
      <4> SUFFICES ASSUME Namesakes(names, want[j], want[n + 1]) PROVE FALSE
        OBVIOUS
      <4>1. Namesakes(names, want[j], want[k])
        BY NamesakesOfOne
      <4>2. j = k
        BY <3>0, <4>1, OneOfEachName
      <4> QED BY <2>5, <4>2
    <3>2. PlaceIn(first, j) # found
      <4> SUFFICES ASSUME PlaceIn(first, j) = found PROVE FALSE
        OBVIOUS
      <4>1. Ixs(cols)[found] = want[j] /\ Ixs(cols)[found] = want[k]
        BY <1>1, <2>1, ListedPlace
      <4> QED BY <3>1, <4>1
    <3>3. Listed(cols[PlaceIn(first, j)].merge, Later(names, want, j), n + 1, want)
      BY <2>0, <2>2, <3>1, NotLater, ListedStays
    <3> QED BY <1>4, <2>3, <3>2, <3>3
  <2> QED BY <2>4, <2>5
<1> QED BY <1>5, <1>7, <1>8, <1>9, Zenon DEF ColumnsAre, a

\* One column of the arguments.
LEMMA ColumnStep ==
    ASSUME NEW o, NEW names, NEW want, want = WantedColumns(o, names), IsSequence(want),
           Len(want) <= SelMaxColumns, ~(o.distinct = "merge" /\ o.byIndex /\ o.exclude # <<>>),
           NEW n \in Nat, n + 1 \in DOMAIN want, NEW cols, ColumnsAre(o, names, cols, n)
    PROVE  ColumnsAre(o, names, AddOutputCol(o, names, cols, want[n + 1]), n + 1)
<1> DEFINE i == want[n + 1]
           found == FindHeader(names, cols, i)
           first == AskedColumns(o, names)
           e == [ix |-> i, merge |-> <<>>]
<1>1. AddOutputCol(o, names, cols, i) =
        IF Len(cols) >= SelMaxColumns THEN cols
        ELSE IF o.distinct # "none" /\ found # 0
        THEN IF o.distinct = "merge" THEN [cols EXCEPT ![found].merge = Append(@, i)] ELSE cols
        ELSE IF Excluded(o, names, i) THEN cols
        ELSE Append(cols, e)
  BY Zenon DEF AddOutputCol
<1>2. ~(Len(cols) >= SelMaxColumns)
  BY RoomForOne
<1>3. FoundIs(o, names, cols, n, found)
  BY HeaderIsFound
<1>4. n + 1 \in first <=> ~Excluded(o, names, i) /\ (o.distinct # "none" => found = 0)
  BY <1>3, NextIsChosen
<1>5. Merging(o) => o.distinct # "none"
  BY DEF Merging
<1>6. Merging(o) <=> o.distinct = "merge"
  BY DEF Merging
<1> DEFINE added == AddOutputCol(o, names, cols, i)
<1>7. CASE n + 1 \in first
  <2>1. added = Append(cols, e)
    <3> HIDE DEF found, first, i, e
    <3> QED BY <1>1, <1>2, <1>4, <1>7
  <2>2. Merging(o) => \A k \in UpToPlace(first, n) : ~Namesakes(names, want[k], i)
    <3>1. Merging(o) => found = 0
      BY <1>4, <1>5, <1>7, Zenon
    <3> QED BY <1>3, <3>1, Zenon DEF FoundIs
  <2>3. ColumnsAre(o, names, Append(cols, e), n + 1)
    BY <1>7, <2>2, ColumnChosen
  <2> HIDE DEF e, i, first
  <2> QED BY <2>1, <2>3 DEF i
<1>8. CASE n + 1 \notin first /\ ~(Merging(o) /\ found # 0)
  <2>1. added = cols
    <3> HIDE DEF found, first, i, e
    <3> QED BY <1>1, <1>2, <1>4, <1>6, <1>8
  <2>2. Merging(o) => \A k \in UpToPlace(first, n) : ~Namesakes(names, want[k], i)
    <3>1. Merging(o) => found = 0
      BY <1>8, Zenon
    <3> QED BY <1>3, <3>1, Zenon DEF FoundIs
  <2>3. ColumnsAre(o, names, cols, n + 1)
    BY <1>8, <2>2, ColumnPassed
  <2> HIDE DEF i, first
  <2> QED BY <2>1, <2>3 DEF i
<1>9. CASE n + 1 \notin first /\ Merging(o) /\ found # 0
  <2>1. found # 0
    BY <1>9
  <2>2. PICK k \in UpToPlace(first, n) :
          found = PlaceIn(first, k) /\ Namesakes(names, want[k], i)
    BY <1>3, <2>1, Zenon DEF FoundIs
  <2>3. added = [cols EXCEPT ![found].merge = Append(@, i)]
    <3> HIDE DEF found, first, i, e
    <3> QED BY <1>1, <1>2, <1>5, <1>6, <1>9, <2>1
  <2>4. ColumnsAre(o, names, [cols EXCEPT ![found].merge = Append(@, i)], n + 1)
    <3> HIDE DEF found
    <3> QED BY <1>9, <2>2, ColumnMerged
  <2> HIDE DEF found, first
  <2> QED BY <2>3, <2>4
<1> QED BY <1>7, <1>8, <1>9

\* The columns written are those asked for.
LEMMA ColumnsAreAsked ==
    ASSUME NEW o, NEW names, NEW want, want = WantedColumns(o, names), IsSequence(want),
           Len(want) <= SelMaxColumns, ~(o.distinct = "merge" /\ o.byIndex /\ o.exclude # <<>>)
    PROVE  ColumnsAre(o, names, OutputColumns(o, names), Len(want))
<1>0. DOMAIN want = 1..Len(want) /\ Len(want) \in Nat /\ AskedColumns(o, names) \subseteq Nat
      /\ \A k \in AskedColumns(o, names) : k \in 1..Len(want)
  BY AskedAreNumbers
<1>1. PICK c : /\ c[0] = <<>> /\ OutputColumns(o, names) = c[Len(want)]
               /\ \A n \in 1..Len(want) : c[n] = AddOutputCol(o, names, c[n - 1], want[n])
  BY <1>0, ChosenSteps
<1> DEFINE W == {n \in 0..Len(want) : ColumnsAre(o, names, c[n], n)}
<1>2. 0 \in W
  <2>1. UpToPlace(AskedColumns(o, names), 0) = {}
    BY <1>0 DEF UpToPlace
  <2>2. Ixs(<<>>) = <<>>
    BY DEF Ixs
  <2>3. Listed(Ixs(<<>>), AskedColumns(o, names), 0, want)
    BY <1>0, <2>1, <2>2, ListedNothing
  <2>4. \A p \in DOMAIN <<>> : FALSE
    OBVIOUS
  <2>5. ColumnsAre(o, names, <<>>, 0)
    BY <2>1, <2>3, <2>4, EmptyIsSequence, Zenon DEF ColumnsAre
  <2> QED BY <1>0, <1>1, <2>5
<1>3. ASSUME NEW k \in 1..Len(want), k - 1 \in W PROVE k \in W
  <2>1. PICK n : n = k - 1
    OBVIOUS
  <2>2. n \in Nat /\ n + 1 = k /\ n + 1 \in DOMAIN want /\ ColumnsAre(o, names, c[n], n)
    BY <1>0, <1>3, <2>1
  <2>3. c[k] = AddOutputCol(o, names, c[n], want[k])
    BY <1>1, <2>1
  <2>4. ColumnsAre(o, names, AddOutputCol(o, names, c[n], want[n + 1]), n + 1)
    BY <2>2, ColumnStep
  <2> QED BY <2>2, <2>3, <2>4
<1> HIDE DEF W
<1>4. 0..Len(want) \subseteq W
  BY <1>0, <1>2, <1>3, UpTo
<1>5. Len(want) \in W
  BY <1>0, <1>4
<1> QED BY <1>1, <1>5 DEF W

\* The text of a cell of the input.
TextAt(o, cells, c) == Cleaned(o, CellAt(<<>>, 0, cells, c))

\* The first text that is not empty among those of some columns.
FirstText(o, cells, tries, n) ==
    LET full == {m \in 1..n : TextAt(o, cells, tries[m]) # <<>>}
    IN  IF full = {} THEN <<>> ELSE TextAt(o, cells, tries[Min(full)])

\* Which place it has.
LEMMA FirstTextIs ==
    ASSUME NEW o, NEW cells, NEW tries, NEW n \in Nat
    PROVE  /\ (\A m \in 1..n : TextAt(o, cells, tries[m]) = <<>>)
                => FirstText(o, cells, tries, n) = <<>>
           /\ \A m \in 1..n : /\ TextAt(o, cells, tries[m]) # <<>>
                              /\ \A j \in 1..(m - 1) : TextAt(o, cells, tries[j]) = <<>>
                => FirstText(o, cells, tries, n) = TextAt(o, cells, tries[m])
<1> DEFINE T(m) == TextAt(o, cells, tries[m])
           full == {m \in 1..n : T(m) # <<>>}
<1>1. FirstText(o, cells, tries, n) = IF full = {} THEN <<>> ELSE T(Min(full))
  BY Zenon DEF FirstText
<1> HIDE DEF T
<1>2. (\A m \in 1..n : T(m) = <<>>) => FirstText(o, cells, tries, n) = <<>>
  BY <1>1
<1>3. ASSUME NEW m \in 1..n, T(m) # <<>>, \A j \in 1..(m - 1) : T(j) = <<>>
      PROVE  FirstText(o, cells, tries, n) = T(m)
  <2>1. full \subseteq Nat /\ m \in full
    BY <1>3
  <2>2. Min(full) \in full /\ Min(full) <= m
    BY <2>1, MinIsLeast
  <2>3. Min(full) \in Nat /\ Min(full) \in 1..n /\ T(Min(full)) # <<>>
    BY <2>2
  <2>4. Min(full) \notin 1..(m - 1)
    BY <1>3, <2>3
  <2>5. Min(full) = m
    BY <2>2, <2>3, <2>4
  <2> QED BY <1>1, <2>1, <2>5
<1> QED BY <1>2, <1>3, Zenon DEF T

\* It is found one column after the other.
LEMMA FirstTextNext ==
    ASSUME NEW o, NEW cells, NEW tries, NEW n \in Nat
    PROVE  /\ FirstText(o, cells, tries, 0) = <<>>
           /\ FirstText(o, cells, tries, n + 1) =
                IF FirstText(o, cells, tries, n) # <<>> THEN FirstText(o, cells, tries, n)
                ELSE TextAt(o, cells, tries[n + 1])
<1> DEFINE T(m) == TextAt(o, cells, tries[m])
           F(m) == FirstText(o, cells, tries, m)
<1>0. \A k \in Nat : /\ (\A m \in 1..k : T(m) = <<>>) => F(k) = <<>>
                     /\ \A m \in 1..k : /\ T(m) # <<>>
                                        /\ \A j \in 1..(m - 1) : T(j) = <<>>
                           => F(k) = T(m)
  BY FirstTextIs
<1> HIDE DEF T, F
<1>1. F(0) = <<>>
  BY <1>0
<1> DEFINE Goal == F(n + 1) = IF F(n) # <<>> THEN F(n) ELSE T(n + 1)
<1>2. ASSUME \A m \in 1..n : T(m) = <<>> PROVE Goal
  <2>1. F(n) = <<>>
    BY <1>0, <1>2
  <2>2. CASE T(n + 1) = <<>>
    <3>1. \A m \in 1..(n + 1) : T(m) = <<>>
      BY <1>2, <2>2
    <3> QED BY <1>0, <2>1, <2>2, <3>1
  <2>3. CASE T(n + 1) # <<>>
    <3>1. n + 1 \in 1..(n + 1) /\ n + 1 - 1 = n /\ n + 1 \in Nat
      OBVIOUS
    <3>2. F(n + 1) = T(n + 1)
      BY <1>0, <1>2, <2>3, <3>1
    <3> QED BY <2>1, <3>2
  <2> QED BY <2>2, <2>3
<1>3. ASSUME ~\A m \in 1..n : T(m) = <<>> PROVE Goal
  <2> DEFINE full == {m \in 1..n : T(m) # <<>>}
  <2>1. full \subseteq Nat /\ full # {}
    BY <1>3
  <2>2. PICK m \in full : \A j \in full : m <= j
    BY <2>1, LeastNatural
  <2>3. m \in 1..n /\ T(m) # <<>> /\ \A j \in 1..(m - 1) : T(j) = <<>>
    BY <2>2
  <2>4. F(n) = T(m)
    BY <1>0, <2>3
  <2>5. F(n + 1) = T(m)
    <3>1. m \in 1..(n + 1) /\ n + 1 \in Nat
      BY <2>3
    <3> QED BY <1>0, <2>3, <3>1
  <2> QED BY <2>3, <2>4, <2>5
<1> QED BY <1>1, <1>2, <1>3 DEF F, T

\* The columns of a cell.
Tries(o, col) == IF o.distinct = "merge" THEN <<col.ix>> \o col.merge ELSE <<col.ix>>

\* The loop of zsv_select_output_data_row over them.
PickNext(o, over, row, cells, tries, f, n) ==
    IF n = 0 THEN [over |-> over, text |-> <<>>]
    ELSE IF f[n - 1].text # <<>> THEN f[n - 1]
    ELSE LET ahead == Asked(f[n - 1].over, row, cells, tries[n])
         IN  [over |-> ahead, text |-> Cleaned(o, CellAt(ahead, row, cells, tries[n]))]

\* One step of it, without overwrites.
LEMMA PickOne ==
    ASSUME NEW o, NEW row, NEW cells, NEW tries, NEW f, NEW n \in Nat,
           f[n] = [over |-> <<>>, text |-> FirstText(o, cells, tries, n)]
    PROVE  PickNext(o, <<>>, row, cells, tries, f, n + 1)
             = [over |-> <<>>, text |-> FirstText(o, cells, tries, n + 1)]
<1>1. n + 1 # 0 /\ n + 1 - 1 = n
  OBVIOUS
<1>2. f[n].over = <<>> /\ f[n].text = FirstText(o, cells, tries, n)
  OBVIOUS
<1>3. /\ Asked(<<>>, row, cells, tries[n + 1]) = <<>>
      /\ CellAt(<<>>, row, cells, tries[n + 1]) = CellAt(<<>>, 0, cells, tries[n + 1])
  BY NothingLaidOver
<1>4. PickNext(o, <<>>, row, cells, tries, f, n + 1) =
        IF FirstText(o, cells, tries, n) # <<>> THEN f[n]
        ELSE [over |-> <<>>, text |-> TextAt(o, cells, tries[n + 1])]
  BY <1>1, <1>2, <1>3 DEF PickNext, TextAt
<1>5. FirstText(o, cells, tries, n + 1) =
                IF FirstText(o, cells, tries, n) # <<>> THEN FirstText(o, cells, tries, n)
                ELSE TextAt(o, cells, tries[n + 1])
  BY FirstTextNext
<1> QED BY <1>4, <1>5

\* A cell of the output is the first of its columns that is not empty.
LEMMA CellIsFirstText ==
    ASSUME NEW o, NEW acc, acc.over = <<>>, NEW row, NEW cells, NEW col,
           Len(Tries(o, col)) \in Nat
    PROVE  OutputCell(o, acc, row, cells, col) =
             [over |-> <<>>,
              cells |-> Append(acc.cells,
                              FirstText(o, cells, Tries(o, col), Len(Tries(o, col))))]
<1> DEFINE tries == Tries(o, col)
           N == Len(tries)
           Step(f, n) == PickNext(o, acc.over, row, cells, tries, f, n)
           at(n) == [over |-> <<>>, text |-> FirstText(o, cells, tries, n)]
           first == [n \in 0..N |-> at(n)]
           c == CHOOSE f : f = [n \in 0..N |-> Step(f, n)]
<1>n. Len(tries) \in Nat
  OBVIOUS
<1>0. \A f : Step(f, 0) = at(0)
  <2>1. FirstText(o, cells, tries, 0) = <<>>
    BY FirstTextNext
  <2> QED BY <2>1 DEF PickNext
<1>a. ASSUME NEW f, NEW n \in 1..N, f[n - 1] = at(n - 1) PROVE Step(f, n) = at(n)
  <2>1. PICK m : m = n - 1
    OBVIOUS
  <2>2. m \in Nat /\ n = m + 1
    BY <2>1
  <2> HIDE DEF tries
  <2> QED BY <1>a, <2>1, <2>2, PickOne
<1>1. first = [n \in 0..N |-> Step(first, n)]
  <2> HIDE DEF Step, at, tries
  <2>1. ASSUME NEW n \in 0..N PROVE Step(first, n) = at(n)
    <3>1. n # 0 => n \in 1..N /\ first[n - 1] = at(n - 1)
      OBVIOUS
    <3> QED BY <1>0, <1>a, <3>1
  <2> QED BY <2>1
<1>2. c = [n \in 0..N |-> Step(c, n)]
  <2> HIDE DEF Step, first
  <2> QED BY <1>1, Zenon
<1>3. OutputCell(o, acc, row, cells, col)
        = [over |-> c[N].over, cells |-> Append(acc.cells, c[N].text)]
  BY Zenon DEF OutputCell, PickNext, Tries
<1> HIDE DEF c, Step, at, tries
<1>4. c[N] = at(N)
  <2> DEFINE W == {n \in 0..N : c[n] = at(n)}
  <2>1. 0 \in W
    BY <1>0, <1>2
  <2>2. ASSUME NEW k \in 1..N, k - 1 \in W PROVE k \in W
    <3>1. c[k] = Step(c, k) /\ k \in 0..N
      BY <1>2
    <3> QED BY <1>a, <2>2, <3>1
  <2> HIDE DEF W
  <2>3. 0..N \subseteq W
    BY <1>n, <2>1, <2>2, UpTo
  <2>4. N \in W
    BY <1>n, <2>3
  <2> QED BY <2>4 DEF W
<1> QED BY <1>3, <1>4 DEF at, tries

\* What stands further back has a later place.
LEMMA PlaceMonotone ==
    ASSUME NEW S, S \subseteq Nat, NEW i \in Nat, NEW j \in Nat, i <= j
    PROVE  PlaceIn(S, i) <= PlaceIn(S, j)
<1>1. \A k : PlaceIn(S, k) = Cardinality(UpToPlace(S, k))
  BY DEF PlaceIn, UpToPlace
<1>2. IsFiniteSet(UpToPlace(S, j))
  BY PlacesCount
<1>3. \A k \in S : k \in Nat
  OBVIOUS
<1>4. UpToPlace(S, i) \subseteq UpToPlace(S, j)
  <2>1. \A k \in Nat : k <= i => k <= j
    OBVIOUS
  <2>2. \A k \in UpToPlace(S, i) : k \in UpToPlace(S, j)
    BY <1>3, <2>1, Zenon DEF UpToPlace
  <2> QED BY <2>2
<1> QED BY <1>1, <1>2, <1>4, FS_Subset

\* A cell of one column.
LEMMA OneTry ==
    ASSUME NEW o, NEW cells, NEW col, o.distinct # "merge"
    PROVE  /\ Len(Tries(o, col)) = 1
           /\ FirstText(o, cells, Tries(o, col), 1) = TextAt(o, cells, col.ix)
<1>1. Tries(o, col) = <<col.ix>>
  BY DEF Tries
<1>2. FirstText(o, cells, Tries(o, col), 0) = <<>>
  BY FirstTextNext
<1>3. FirstText(o, cells, Tries(o, col), 0 + 1) = TextAt(o, cells, Tries(o, col)[0 + 1])
  BY <1>2, FirstTextNext
<1> QED BY <1>1, <1>3

\* The value asked for, in terms of the texts of the row.
LEMMA AskedCellIs ==
    ASSUME NEW o, NEW names, NEW want, want = WantedColumns(o, names), IsSequence(want),
           NEW cells, NEW i
    PROVE  /\ o.distinct # "merge" => AskedCell(o, names, cells, i) = TextAt(o, cells, i)
           /\ TextAt(o, cells, i) # <<>> => AskedCell(o, names, cells, i) = TextAt(o, cells, i)
           /\ (\A j \in DOMAIN want :
                 Namesakes(names, i, want[j]) => TextAt(o, cells, want[j]) = <<>>)
                => AskedCell(o, names, cells, i) = TextAt(o, cells, i)
<1> DEFINE T(c) == TextAt(o, cells, c)
           full == {k \in DOMAIN want : Namesakes(names, i, want[k]) /\ T(want[k]) # <<>>}
<1>1. AskedCell(o, names, cells, i) =
        IF o.distinct # "merge" \/ T(i) # <<>> \/ full = {} THEN T(i) ELSE T(want[Min(full)])
  BY Zenon DEF AskedCell, TextAt
<1> HIDE DEF T
<1>2. (\A j \in DOMAIN want : Namesakes(names, i, want[j]) => T(want[j]) = <<>>) => full = {}
  OBVIOUS
<1>3. /\ o.distinct # "merge" => AskedCell(o, names, cells, i) = T(i)
      /\ T(i) # <<>> => AskedCell(o, names, cells, i) = T(i)
  BY <1>1, Zenon
<1>4. (\A j \in DOMAIN want : Namesakes(names, i, want[j]) => T(want[j]) = <<>>)
        => AskedCell(o, names, cells, i) = T(i)
  BY <1>1, <1>2, Zenon
<1> QED BY <1>3, <1>4, Zenon DEF T

\* The one taken from a column of the same name.
LEMMA AskedCellFrom ==
    ASSUME NEW o, NEW names, NEW want, want = WantedColumns(o, names), IsSequence(want),
           NEW cells, NEW i, o.distinct = "merge", TextAt(o, cells, i) = <<>>,
           NEW q \in DOMAIN want, Namesakes(names, i, want[q]), TextAt(o, cells, want[q]) # <<>>,
           \A j \in DOMAIN want :
             Namesakes(names, i, want[j]) /\ TextAt(o, cells, want[j]) # <<>> => q <= j
    PROVE  AskedCell(o, names, cells, i) = TextAt(o, cells, want[q])
<1> DEFINE T(c) == TextAt(o, cells, c)
           full == {k \in DOMAIN want : Namesakes(names, i, want[k]) /\ T(want[k]) # <<>>}
<1>1. AskedCell(o, names, cells, i) =
        IF o.distinct # "merge" \/ T(i) # <<>> \/ full = {} THEN T(i) ELSE T(want[Min(full)])
  BY Zenon DEF AskedCell, TextAt
<1>2. DOMAIN want = 1..Len(want)
  BY AppendIsSequence
<1> HIDE DEF T
<1>3. full \subseteq Nat /\ q \in full
  BY <1>2 DEF T
<1>4. Min(full) \in full /\ Min(full) <= q
  BY <1>3, MinIsLeast
<1>5. q <= Min(full) /\ Min(full) \in Nat
  BY <1>3, <1>4 DEF T
<1>6. full # {} /\ Min(full) = q
  BY <1>2, <1>3, <1>4, <1>5
<1>7. T(i) = <<>>
  BY DEF T
<1> HIDE DEF full
<1>8. AskedCell(o, names, cells, i) = T(want[q])
  BY <1>1, <1>6, <1>7
<1> QED BY <1>8 DEF T

\* A cell of a column and those merged into it.
LEMMA MergedTries ==
    ASSUME NEW o, NEW names, NEW want, want = WantedColumns(o, names), IsSequence(want),
           Merging(o), NEW k \in AskedColumns(o, names), NEW cells, NEW col, col.ix = want[k],
           Listed(col.merge, Later(names, want, k), Len(want), want)
    PROVE  /\ Len(Tries(o, col)) \in Nat
           /\ FirstText(o, cells, Tries(o, col), Len(Tries(o, col)))
                = AskedCell(o, names, cells, want[k])
<1> DEFINE later == Later(names, want, k)
           m == col.merge
           t == Tries(o, col)
           T(c) == TextAt(o, cells, c)
           i == want[k]
           N == Len(t)
<1>0. DOMAIN want = 1..Len(want) /\ Len(want) \in Nat /\ k \in 1..Len(want)
  BY AskedAreNumbers
<1>1. later \subseteq Nat /\ \A j \in later : j \in 1..Len(want) /\ j > k
  BY <1>0 DEF Later
<1>2. \A j : j \in UpToPlace(later, Len(want)) <=> j \in later
  BY <1>0, <1>1 DEF UpToPlace
<1>3. /\ IsSequence(m) /\ Len(m) \in Nat /\ DOMAIN m = 1..Len(m)
  BY ListedHas
<1>4. \A j \in later : PlaceIn(later, j) \in DOMAIN m /\ m[PlaceIn(later, j)] = want[j]
  BY <1>2, ListedPlace
<1>5. \A p \in DOMAIN m : \E j \in later : PlaceIn(later, j) = p /\ m[p] = want[j]
  BY <1>2, ListedFrom
<1>6. o.distinct = "merge" /\ o.distinct # "none"
  BY DEF Merging
<1>7. /\ N = 1 + Len(m) /\ t[1] = i /\ \A p \in 1..Len(m) : t[1 + p] = m[p]
  <2>1. t = <<i>> \o m
    BY <1>6 DEF Tries
  <2>2. IsSequence(<<i>>) /\ Len(<<i>>) = 1 /\ <<i>>[1] = i
    <3>1. <<i>> \in Seq({i})
      OBVIOUS
    <3> QED BY <3>1, SequenceOver
  <2> HIDE DEF t, i, m
  <2>3. /\ IsSequence(t) /\ DOMAIN t = 1..(1 + Len(m))
        /\ \A p \in 1..1 : t[p] = <<i>>[p]
        /\ \A p \in 1..Len(m) : t[1 + p] = m[p]
    BY <1>3, <2>1, <2>2, ConcatElements
  <2>4. Len(t) \in Nat /\ DOMAIN t = 1..Len(t)
    BY <2>3, AppendIsSequence
  <2>5. Len(t) = 1 + Len(m)
    BY <1>3, <2>3, <2>4, SameBound
  <2> QED BY <2>2, <2>3, <2>5
<1>8. N \in Nat
  BY <1>3, <1>7
<1>9. \A j \in DOMAIN want : Namesakes(names, i, want[j]) => j = k \/ j \in later
  <2> TAKE j \in DOMAIN want
  <2> HAVE Namesakes(names, i, want[j])
  <2>1. ~(j < k)
    <3> SUFFICES ASSUME j < k PROVE FALSE
      OBVIOUS
    <3>1. ~Excluded(o, names, want[k])
      BY AskedPlaces, Zenon
    <3>2. Namesakes(names, want[j], want[k])
      BY NamesakesOfOne
    <3>3. ~Excluded(o, names, want[j])
      BY <3>1, <3>2, NamesakesExcluded
    <3> QED BY <1>6, <3>2, <3>3, AskedPlaces, Zenon
  <2> QED BY <1>0, <2>1 DEF Later
<1>10. \A j \in later : Namesakes(names, i, want[j])
  BY DEF Later
<1> HIDE DEF later, m, t, T, i
<1>11. CASE T(i) # <<>>
  <2>1. 1 \in 1..N /\ \A j \in 1..(1 - 1) : FALSE
    BY <1>3, <1>7
  <2>2. FirstText(o, cells, t, N) = T(t[1])
    BY <1>7, <1>8, <1>11, <2>1, FirstTextIs DEF T
  <2>3. AskedCell(o, names, cells, i) = T(i)
    BY <1>11, AskedCellIs DEF T
  <2> QED BY <1>7, <1>8, <2>2, <2>3 DEF i, t
<1>12. CASE T(i) = <<>> /\ \A j \in later : T(want[j]) = <<>>
  <2>1. \A p \in 1..N : T(t[p]) = <<>>
    <3> TAKE p \in 1..N
    <3>1. CASE p = 1
      BY <1>7, <1>12, <3>1
    <3>2. CASE p # 1
      <4>1. PICK r : r = p - 1
        OBVIOUS
      <4>2. r \in 1..Len(m) /\ p = 1 + r
        BY <1>3, <1>7, <3>2, <4>1
      <4>3. PICK j \in later : m[r] = want[j]
        BY <1>3, <1>5, <4>2
      <4> QED BY <1>7, <1>12, <4>2, <4>3
    <3> QED BY <3>1, <3>2
  <2>2. FirstText(o, cells, t, N) = <<>>
    BY <1>8, <2>1, FirstTextIs DEF T
  <2>3. \A j \in DOMAIN want : Namesakes(names, i, want[j]) => T(want[j]) = <<>>
    BY <1>9, <1>12 DEF i
  <2>4. AskedCell(o, names, cells, i) = T(i)
    BY <2>3, AskedCellIs DEF T
  <2> QED BY <1>8, <1>12, <2>2, <2>4 DEF i, t
<1>13. CASE T(i) = <<>> /\ \E j \in later : T(want[j]) # <<>>
  <2> DEFINE full == {j \in later : T(want[j]) # <<>>}
  <2>1. full \subseteq Nat /\ full # {}
    BY <1>1, <1>13
  <2>2. PICK q \in full : \A j \in full : q <= j
    BY <2>1, LeastNatural
  <2>3. q \in later /\ T(want[q]) # <<>> /\ q \in DOMAIN want /\ q \in Nat
    BY <1>0, <1>1, <2>2
  <2>4. AskedCell(o, names, cells, i) = T(want[q])
    <3>1. \A j \in DOMAIN want :
            Namesakes(names, i, want[j]) /\ T(want[j]) # <<>> => q <= j
      <4> TAKE j \in DOMAIN want
      <4> HAVE Namesakes(names, i, want[j]) /\ T(want[j]) # <<>>
      <4>1. j \in later
        BY <1>9, <1>13 DEF i
      <4> QED BY <2>2, <4>1
    <3>2. Namesakes(names, i, want[q])
      BY <1>10, <2>3
    <3> QED BY <1>6, <1>13, <2>3, <3>1, <3>2, AskedCellFrom DEF T
  <2>5. PICK p : p = PlaceIn(later, q)
    OBVIOUS
  <2>6. p \in 1..Len(m) /\ m[p] = want[q]
    BY <1>3, <1>4, <2>3, <2>5
  <2>7. 1 + p \in 1..N /\ T(t[1 + p]) = T(want[q])
    BY <1>3, <1>7, <2>6
  <2>8. \A r \in 1..((1 + p) - 1) : T(t[r]) = <<>>
    <3> TAKE r \in 1..((1 + p) - 1)
    <3>1. CASE r = 1
      BY <1>7, <1>13, <3>1
    <3>2. CASE r # 1
      <4>1. PICK s : s = r - 1
        OBVIOUS
      <4>2. s \in 1..Len(m) /\ r = 1 + s /\ s < p
        BY <1>3, <2>6, <3>2, <4>1
      <4>3. PICK j \in later : PlaceIn(later, j) = s /\ m[s] = want[j]
        BY <1>3, <1>5, <4>2
      <4>4. ~(q <= j)
        <5> SUFFICES ASSUME q <= j PROVE FALSE
          OBVIOUS
        <5>1. j \in Nat
          BY <1>1
        <5>2. PlaceIn(later, q) <= PlaceIn(later, j)
          BY <1>1, <2>3, <5>1, PlaceMonotone
        <5> QED BY <2>5, <2>6, <4>2, <4>3, <5>2
      <4>5. j \notin full
        BY <2>2, <4>4
      <4> QED BY <1>7, <4>2, <4>3, <4>5
    <3> QED BY <3>1, <3>2
  <2>9. FirstText(o, cells, t, N) = T(t[1 + p])
    <3>1. T(t[1 + p]) # <<>>
      BY <2>3, <2>7
    <3> QED BY <1>8, <2>7, <2>8, <3>1, FirstTextIs DEF T
  <2> QED BY <1>8, <2>4, <2>7, <2>9 DEF i, t
<1> QED BY <1>11, <1>12, <1>13

\* One element more at the end of a list.
LEMMA OneAtTheEnd ==
    ASSUME NEW n \in Nat, NEW f, f = [p \in 1..(n + 1) |-> f[p]]
    PROVE  Append([p \in 1..n |-> f[p]], f[n + 1]) = f
<1> DEFINE s == [p \in 1..n |-> f[p]]
           t == Append(s, f[n + 1])
<1>1. s = [p \in 1..n |-> s[p]] /\ \A p \in 1..n : s[p] = f[p]
  OBVIOUS
<1> HIDE DEF s
<1>2. IsSequence(s) /\ Len(s) = n /\ DOMAIN s = 1..n
  BY <1>1, ListIsSequence
<1>3. n + 1 \in Nat
  OBVIOUS
<1>4. IsSequence(f) /\ Len(f) = n + 1
  BY <1>3, ListIsSequence
<1>5. IsSequence(t) /\ Len(t) = n + 1 /\ t[n + 1] = f[n + 1] /\ \A p \in 1..n : t[p] = s[p]
  BY <1>2, AppendIsSequence
<1> HIDE DEF t
<1>6. \A p \in 1..Len(t) : t[p] = f[p]
  BY <1>1, <1>5
<1>7. t = f
  BY <1>4, <1>5, <1>6, SamePlaces
<1> QED BY <1>7 DEF s, t

\* The text of a cell of the output.
CellText(o, cells, col) == FirstText(o, cells, Tries(o, col), Len(Tries(o, col)))

\* The loop of zsv_select_output_data_row over the columns.
WrittenNext(o, over, row, cells, cols, f, k) ==
    IF k = 0 THEN [over |-> over, cells |-> <<>>] ELSE OutputCell(o, f[k - 1], row, cells, cols[k])

\* What it gives, without overwrites, after k columns.
WrittenAt(o, cells, cols, k) ==
    [over |-> <<>>, cells |-> [p \in 1..k |-> CellText(o, cells, cols[p])]]

\* It begins so, and goes on so.
LEMMA WrittenBegins ==
    ASSUME NEW o, NEW row, NEW cells, NEW cols, NEW f
    PROVE  WrittenNext(o, <<>>, row, cells, cols, f, 0) = WrittenAt(o, cells, cols, 0)
<1>1. [p \in 1..0 |-> CellText(o, cells, cols[p])] = <<>>
  OBVIOUS
<1> QED BY <1>1 DEF WrittenNext, WrittenAt

\* With every column.
LEMMA WrittenGoesOn ==
    ASSUME NEW o, NEW row, NEW cells, NEW cols, NEW f, NEW n \in Nat,
           f[n] = WrittenAt(o, cells, cols, n), Len(Tries(o, cols[n + 1])) \in Nat
    PROVE  WrittenNext(o, <<>>, row, cells, cols, f, n + 1) = WrittenAt(o, cells, cols, n + 1)
<1> DEFINE e(p) == CellText(o, cells, cols[p])
           g == [p \in 1..(n + 1) |-> e(p)]
<1>1. f[n].over = <<>> /\ f[n].cells = [p \in 1..n |-> e(p)]
  BY DEF WrittenAt
<1>2. OutputCell(o, f[n], row, cells, cols[n + 1])
        = [over |-> <<>>, cells |-> Append(f[n].cells, e(n + 1))]
  <2>1. PICK acc : acc = f[n]
    OBVIOUS
  <2>2. PICK col : col = cols[n + 1]
    OBVIOUS
  <2>3. acc.over = <<>> /\ Len(Tries(o, col)) \in Nat
    BY <1>1, <2>1, <2>2
  <2>4. OutputCell(o, acc, row, cells, col)
          = [over |-> <<>>, cells |-> Append(acc.cells, CellText(o, cells, col))]
    BY <2>3, CellIsFirstText DEF CellText
  <2> QED BY <2>1, <2>2, <2>4
<1>3. Append([p \in 1..n |-> e(p)], e(n + 1)) = g
  <2> HIDE DEF e
  <2>1. g = [p \in 1..(n + 1) |-> g[p]] /\ g[n + 1] = e(n + 1)
        /\ [p \in 1..n |-> g[p]] = [p \in 1..n |-> e(p)]
    OBVIOUS
  <2> HIDE DEF g
  <2>2. Append([p \in 1..n |-> g[p]], g[n + 1]) = g
    BY <2>1, OneAtTheEnd
  <2> QED BY <2>1, <2>2
<1>4. WrittenNext(o, <<>>, row, cells, cols, f, n + 1)
        = OutputCell(o, f[n], row, cells, cols[n + 1])
  <2>1. PICK m : m = n + 1
    OBVIOUS
  <2>2. m # 0 /\ m - 1 = n
    BY <2>1
  <2>3. WrittenNext(o, <<>>, row, cells, cols, f, m) = OutputCell(o, f[m - 1], row, cells, cols[m])
    BY <2>2, Zenon DEF WrittenNext
  <2> QED BY <2>1, <2>2, <2>3
<1>5. WrittenAt(o, cells, cols, n + 1) = [over |-> <<>>, cells |-> g]
  BY DEF WrittenAt
<1> HIDE DEF e, g
<1>6. WrittenNext(o, <<>>, row, cells, cols, f, n + 1)
        = [over |-> <<>>, cells |-> Append(f[n].cells, e(n + 1))]
  BY <1>2, <1>4, Zenon
<1>7. Append(f[n].cells, e(n + 1)) = g
  BY <1>1, <1>3
<1> QED BY <1>5, <1>6, <1>7

\* A row of the output, without overwrites: the cells of its columns.
LEMMA RowIsCells ==
    ASSUME NEW o, NEW row, NEW cells, NEW cols, IsSequence(cols),
           \A p \in DOMAIN cols : Len(Tries(o, cols[p])) \in Nat,
           ~AnyClean(o) => Len(cols) <= SelFastColumns
    PROVE  OutputDataRow(o, <<>>, row, cells, cols) = WrittenAt(o, cells, cols, Len(cols))
<1> DEFINE n == Min({Len(cols), SelFastColumns})
           seq == [k \in 1..n |-> cols[k].ix]
           f == Fetch(<<>>, row, cells, seq)
           N == Len(cols)
           tried == IF ~o.pull /\ ~o.lineNumber /\ ~AnyClean(o) /\ o.distinct # "merge"
                    THEN f.over ELSE <<>>
           Step(g, k) == WrittenNext(o, tried, row, cells, cols, g, k)
           at(k) == WrittenAt(o, cells, cols, k)
           c == CHOOSE g : g = [k \in 0..N |-> Step(g, k)]
           done == [k \in 0..N |-> at(k)]
<1>0. Len(cols) \in Nat /\ DOMAIN cols = 1..Len(cols)
  BY AppendIsSequence
<1>1. n \in Nat /\ (~AnyClean(o) => n = Len(cols))
  <2> DEFINE S == {Len(cols), SelFastColumns}
  <2>1. S \subseteq Nat /\ S # {}
    BY <1>0, SelAssumption
  <2>2. Min(S) \in S /\ Min(S) <= Len(cols) /\ Min(S) <= SelFastColumns
    BY <2>1, MinIsLeast
  <2> QED BY <1>0, <2>2, SelAssumption
<1> HIDE DEF n
<1>2. Len(seq) = n
  <2>1. seq = [k \in 1..n |-> seq[k]]
    OBVIOUS
  <2> HIDE DEF seq
  <2> QED BY <1>1, <2>1, ListIsSequence
<1>3. f.over = <<>> /\ f.got = [k \in 1..n |-> CellAt(<<>>, 0, cells, seq[k])]
  <2> HIDE DEF seq
  <2> QED BY <1>1, <1>2, FetchPlain
<1>4. tried = <<>>
  BY <1>3
<1>5. OutputDataRow(o, <<>>, row, cells, cols) =
        IF FastRow(o, f) THEN [over |-> f.over, cells |-> [k \in 1..n |-> f.got[k].t]] ELSE c[N]
  BY Zenon DEF OutputDataRow, WrittenNext, n
<1>6. CASE FastRow(o, f)
  <2>1. ~AnyClean(o) /\ o.distinct # "merge"
    BY <1>6, Zenon DEF FastRow
  <2>2. \A k \in 1..n : f.got[k].t = CellText(o, cells, cols[k])
    <3> TAKE k \in 1..n
    <3>1. f.got[k] = CellAt(<<>>, 0, cells, cols[k].ix)
      BY <1>3
    <3>2. CellText(o, cells, cols[k]) = TextAt(o, cells, cols[k].ix)
      BY <2>1, OneTry DEF CellText
    <3>3. TextAt(o, cells, cols[k].ix) = CellAt(<<>>, 0, cells, cols[k].ix).t
      BY <2>1, Zenon DEF TextAt, Cleaned
    <3> HIDE DEF f
    <3> QED BY <3>1, <3>2, <3>3
  <2>3. [k \in 1..n |-> f.got[k].t] = [k \in 1..N |-> CellText(o, cells, cols[k])]
    <3> HIDE DEF f
    <3>1. n = N
      BY <1>1, <2>1
    <3> QED BY <2>2, <3>1
  <2> HIDE DEF f
  <2> QED BY <1>3, <1>5, <1>6, <2>3 DEF WrittenAt
<1>7. CASE ~FastRow(o, f)
  <2> HIDE DEF tried, f
  <2>0. \A g : Step(g, 0) = at(0)
    BY <1>4, WrittenBegins
  <2>1. ASSUME NEW g, NEW k \in 1..N, g[k - 1] = at(k - 1) PROVE Step(g, k) = at(k)
    <3>1. PICK m : m = k - 1
      OBVIOUS
    <3>2. m \in Nat /\ k = m + 1 /\ g[m] = at(m) /\ Len(Tries(o, cols[m + 1])) \in Nat
      BY <1>0, <2>1, <3>1
    <3>3. WrittenNext(o, <<>>, row, cells, cols, g, m + 1) = at(m + 1)
      BY <3>2, WrittenGoesOn
    <3> QED BY <1>4, <3>2, <3>3
  <2>2. done = [k \in 0..N |-> Step(done, k)]
    <3> HIDE DEF Step, at
    <3>1. ASSUME NEW k \in 0..N PROVE Step(done, k) = at(k)
      <4>1. k # 0 => k \in 1..N /\ done[k - 1] = at(k - 1)
        BY <1>0
      <4> QED BY <2>0, <2>1, <4>1
    <3> QED BY <3>1
  <2>3. c = [k \in 0..N |-> Step(c, k)]
    <3> HIDE DEF Step, done
    <3> QED BY <2>2, Zenon
  <2> HIDE DEF c, Step, at
  <2>4. c[N] = at(N)
    <3> DEFINE W == {k \in 0..N : c[k] = at(k)}
    <3>1. 0 \in W
      BY <1>0, <2>0, <2>3
    <3>2. ASSUME NEW k \in 1..N, k - 1 \in W PROVE k \in W
      <4>1. c[k] = Step(c, k) /\ k \in 0..N
        BY <1>0, <2>3
      <4> QED BY <2>1, <3>2, <4>1
    <3> HIDE DEF W
    <3>3. 0..N \subseteq W
      BY <1>0, <3>1, <3>2, UpTo
    <3>4. N \in W
      BY <1>0, <3>3
    <3> QED BY <3>4 DEF W
  <2> QED BY <1>5, <1>7, <2>4 DEF at
<1> QED BY <1>6, <1>7

\* The cells of a row as they are asked for.
RowIsAsked(o, names, cells, texts) ==
    LET cols == AskedColumns(o, names)
    IN  /\ Len(texts) = Cardinality(cols)
        /\ \A k \in cols :
             texts[PlaceIn(cols, k)] = AskedCell(o, names, cells, WantedColumns(o, names)[k])

\* The cases covered, of one command line and one header.
Asks(o, names) ==
    /\ SelCovered(o, WantedColumns(o, names), AskedColumns(o, names))
    /\ ColumnArguments(o) /\ IsList(names)

\* The columns of the output.
LEMMA ColumnsOfAsked ==
    ASSUME NEW o, NEW names, Asks(o, names), NEW cols, cols = OutputColumns(o, names),
           NEW first, first = AskedColumns(o, names)
    PROVE  /\ ColumnsAre(o, names, cols, Len(WantedColumns(o, names)))
           /\ IsSequence(cols) /\ Len(cols) = Cardinality(first) /\ Len(cols) \in Nat
           /\ DOMAIN cols = 1..Len(cols)
           /\ \A k \in first : /\ PlaceIn(first, k) \in DOMAIN cols
                               /\ cols[PlaceIn(first, k)].ix = WantedColumns(o, names)[k]
           /\ \A p \in DOMAIN cols : \E k \in first : PlaceIn(first, k) = p
<1> DEFINE want == WantedColumns(o, names)
           N == Len(want)
<1>1. IsSequence(want)
  BY WantedIsList DEF Asks
<1>2. Len(want) <= SelMaxColumns /\ ~(o.distinct = "merge" /\ o.byIndex /\ o.exclude # <<>>)
  BY Zenon DEF Asks, SelCovered
<1>3. N \in Nat /\ first \subseteq Nat /\ \A k \in first : k \in 1..N
  BY <1>1, AskedAreNumbers
<1>4. ColumnsAre(o, names, cols, N)
  BY <1>1, <1>2, ColumnsAreAsked
<1> HIDE DEF want
<1>5. IsSequence(cols) /\ Listed(Ixs(cols), first, N, want)
  BY <1>4, Zenon DEF ColumnsAre, want
<1>6. UpToPlace(first, N) = first
  BY <1>3 DEF UpToPlace
<1>7. /\ Len(Ixs(cols)) = Len(cols) /\ DOMAIN Ixs(cols) = DOMAIN cols
      /\ \A p \in DOMAIN cols : Ixs(cols)[p] = cols[p].ix
  BY <1>5, IxsGrow DEF Ixs
<1>8. Len(cols) = Cardinality(first) /\ Len(cols) \in Nat /\ DOMAIN cols = 1..Len(cols)
  BY <1>5, <1>6, <1>7, ListedHas
<1>9. ASSUME NEW k \in first
      PROVE  PlaceIn(first, k) \in DOMAIN cols /\ cols[PlaceIn(first, k)].ix = want[k]
  <2>1. PlaceIn(first, k) \in DOMAIN Ixs(cols) /\ Ixs(cols)[PlaceIn(first, k)] = want[k]
    BY <1>5, <1>6, ListedPlace
  <2> QED BY <1>7, <2>1
<1>10. ASSUME NEW p \in DOMAIN cols
       PROVE  \E k \in first : PlaceIn(first, k) = p
  <2>1. p \in DOMAIN Ixs(cols)
    BY <1>7
  <2>2. PICK k \in UpToPlace(first, N) : PlaceIn(first, k) = p /\ Ixs(cols)[p] = want[k]
    BY <1>5, <2>1, ListedFrom
  <2> QED BY <1>6, <2>2
<1> QED BY <1>4, <1>5, <1>8, <1>9, <1>10, Zenon DEF want

\* The text of a cell of the output.
LEMMA CellOfColumn ==
    ASSUME NEW o, NEW names, Asks(o, names), NEW cols, cols = OutputColumns(o, names),
           NEW first, first = AskedColumns(o, names), NEW k \in first, NEW cells
    PROVE  /\ Len(Tries(o, cols[PlaceIn(first, k)])) \in Nat
           /\ CellText(o, cells, cols[PlaceIn(first, k)])
                = AskedCell(o, names, cells, WantedColumns(o, names)[k])
<1> DEFINE want == WantedColumns(o, names)
           col == cols[PlaceIn(first, k)]
<1>1. IsSequence(want)
  BY WantedIsList DEF Asks
<1>2. col.ix = want[k]
  BY ColumnsOfAsked
<1> HIDE DEF col
<1>3. CASE o.distinct # "merge"
  <2>1. /\ Len(Tries(o, col)) = 1
        /\ FirstText(o, cells, Tries(o, col), 1) = TextAt(o, cells, col.ix)
    BY <1>3, OneTry
  <2>2. AskedCell(o, names, cells, want[k]) = TextAt(o, cells, want[k])
    BY <1>1, <1>3, AskedCellIs
  <2>3. Len(Tries(o, col)) \in Nat
    BY <2>1
  <2>4. CellText(o, cells, col) = AskedCell(o, names, cells, want[k])
    BY <1>2, <2>1, <2>2 DEF CellText
  <2> QED BY <2>3, <2>4 DEF col
<1>4. CASE o.distinct = "merge"
  <2>1. Merging(o)
    BY <1>4, Zenon DEF Asks, SelCovered, Merging
  <2>2. ColumnsAre(o, names, cols, Len(want))
    BY ColumnsOfAsked
  <2>3. Len(want) \in Nat /\ first \subseteq Nat /\ \A j \in first : j \in 1..Len(want)
    BY <1>1, AskedAreNumbers
  <2>4. k \in UpToPlace(first, Len(want))
    BY <2>3 DEF UpToPlace
  <2>5. Listed(col.merge, Later(names, want, k), Len(want), want)
    BY <2>1, <2>2, <2>4, Zenon DEF ColumnsAre, col
  <2>6. /\ Len(Tries(o, col)) \in Nat
        /\ FirstText(o, cells, Tries(o, col), Len(Tries(o, col)))
             = AskedCell(o, names, cells, want[k])
    BY <1>1, <1>2, <2>1, <2>5, MergedTries
  <2> QED BY <2>6 DEF CellText, col
<1> QED BY <1>3, <1>4

\* A row of the output is the row asked for.
LEMMA RowOfAsked ==
    ASSUME NEW o, NEW names, Asks(o, names), NEW row, NEW cells, NEW w,
           w = OutputDataRow(o, <<>>, row, cells, OutputColumns(o, names))
    PROVE  w.over = <<>> /\ RowIsAsked(o, names, cells, w.cells)
<1> DEFINE cols == OutputColumns(o, names)
           first == AskedColumns(o, names)
           want == WantedColumns(o, names)
           texts == [p \in 1..Len(cols) |-> CellText(o, cells, cols[p])]
<1>1. /\ IsSequence(cols) /\ Len(cols) = Cardinality(first) /\ Len(cols) \in Nat
      /\ DOMAIN cols = 1..Len(cols)
      /\ \A k \in first : PlaceIn(first, k) \in DOMAIN cols
      /\ \A p \in DOMAIN cols : \E k \in first : PlaceIn(first, k) = p
  BY ColumnsOfAsked
<1>2. \A k \in first : /\ Len(Tries(o, cols[PlaceIn(first, k)])) \in Nat
                       /\ CellText(o, cells, cols[PlaceIn(first, k)])
                            = AskedCell(o, names, cells, want[k])
  BY CellOfColumn
<1>3. ~AnyClean(o) => Cardinality(first) <= SelFastColumns
  BY Zenon DEF Asks, SelCovered
<1> HIDE DEF cols, first, want
<1>4. \A p \in DOMAIN cols : Len(Tries(o, cols[p])) \in Nat
  BY <1>1, <1>2
<1>5. OutputDataRow(o, <<>>, row, cells, cols) = WrittenAt(o, cells, cols, Len(cols))
  BY <1>1, <1>3, <1>4, RowIsCells
<1>6. w.over = <<>> /\ w.cells = texts
  <2>1. w = WrittenAt(o, cells, cols, Len(cols))
    BY <1>5 DEF cols
  <2> QED BY <2>1 DEF WrittenAt
<1>7. Len(texts) = Len(cols)
  <2>1. texts = [p \in 1..Len(cols) |-> texts[p]]
    OBVIOUS
  <2> HIDE DEF texts
  <2> QED BY <1>1, <2>1, ListIsSequence
<1>8. \A k \in first : texts[PlaceIn(first, k)] = AskedCell(o, names, cells, want[k])
  BY <1>1, <1>2
<1> HIDE DEF texts
<1>9. /\ Len(w.cells) = Cardinality(first)
      /\ \A k \in first : w.cells[PlaceIn(first, k)] = AskedCell(o, names, cells, want[k])
  BY <1>1, <1>6, <1>7, <1>8
<1> QED BY <1>6, <1>9, Zenon DEF RowIsAsked, first, want

\* The header as it is asked for.
HeaderIsAsked(o, names, texts) ==
    LET cols == AskedColumns(o, names)
        want == WantedColumns(o, names)
    IN  /\ Len(texts) = Cardinality(cols)
        /\ \A k \in cols : texts[PlaceIn(cols, k)] =
             IF want[k] \in DOMAIN names THEN o.prepend \o names[want[k]] ELSE o.prepend

\* It is written so.
LEMMA HeaderOfAsked ==
    ASSUME NEW o, NEW names, Asks(o, names), ~o.noHeader, NEW h,
           h = HeaderRow(o, names, OutputColumns(o, names))
    PROVE  IsSequence(h) /\ Len(h) = 1 /\ HeaderIsAsked(o, names, h[1].cells)
<1> DEFINE cols == OutputColumns(o, names)
           first == AskedColumns(o, names)
           want == WantedColumns(o, names)
           name(i) == IF i \in DOMAIN names THEN o.prepend \o names[i] ELSE o.prepend
           texts == [p \in DOMAIN cols |-> name(cols[p].ix)]
           e == [no |-> 0, cells |-> texts]
<1>1. h = <<e>>
  BY Zenon DEF HeaderRow
<1>2. IsSequence(h) /\ Len(h) = 1 /\ h[1] = e
  <2> HIDE DEF e
  <2>1. <<e>> \in Seq({e}) /\ Len(<<e>>) = 1 /\ <<e>>[1] = e
    OBVIOUS
  <2>2. IsSequence(<<e>>)
    BY <2>1, SequenceOver
  <2> QED BY <1>1, <2>1, <2>2, Zenon
<1>3. /\ Len(cols) = Cardinality(first) /\ Len(cols) \in Nat /\ DOMAIN cols = 1..Len(cols)
      /\ \A k \in first : PlaceIn(first, k) \in DOMAIN cols /\ cols[PlaceIn(first, k)].ix = want[k]
  BY ColumnsOfAsked
<1>4. h[1].cells = texts
  BY <1>2
<1> HIDE DEF cols, first, want, name
<1>5. Len(texts) = Len(cols)
  <2>1. texts = [p \in 1..Len(cols) |-> texts[p]]
    BY <1>3
  <2> HIDE DEF texts
  <2> QED BY <1>3, <2>1, ListIsSequence
<1>6. \A k \in first : texts[PlaceIn(first, k)] = name(want[k])
  BY <1>3
<1> HIDE DEF texts, e
<1>7. Len(h[1].cells) = Cardinality(first)
      /\ \A k \in first : h[1].cells[PlaceIn(first, k)] = name(want[k])
  BY <1>3, <1>4, <1>5, <1>6
<1> QED BY <1>2, <1>7, Zenon DEF HeaderIsAsked, first, want, name

\* A search finds what is in a cell.
LEMMA SearchIsAsked ==
    ASSUME NEW o, o.search \cap SpaceChars = {}, NEW cells,
           \A c \in DOMAIN cells : IsList(cells[c].t)
    PROVE  SearchHit(o, cells) <=>
             (o.search # {} => \E c \in DOMAIN cells : Range(Cleaned(o, cells[c])) \cap o.search # {})
<1>1. ASSUME NEW i \in DOMAIN cells
      PROVE  Searched(o, cells, i) \cap o.search # {}
               <=> Range(Cleaned(o, cells[i])) \cap o.search # {}
  <2> DEFINE clean == Cleaned(o, cells[i])
             raw == cells[i].t
             ink == {k \in DOMAIN raw : raw[k] \notin SpaceChars}
             lead == {k \in DOMAIN raw : \A j \in ink : k < j}
             keepsLead == i = 1 /\ ~o.pull /\ ~o.noTrim /\ clean # <<>>
             more == {raw[k] : k \in IF keepsLead THEN lead ELSE {}}
  <2>1. Searched(o, cells, i) = Range(clean) \cup more
    BY Zenon DEF Searched
  <2>2. more \subseteq SpaceChars
    <3>1. \A k \in DOMAIN raw : k \in Nat
      BY DEF IsList
    <3>2. \A k \in lead : raw[k] \in SpaceChars
      <4> SUFFICES ASSUME NEW k \in lead, k \in ink PROVE FALSE
        OBVIOUS
      <4>1. k < k /\ k \in Nat
        BY <3>1
      <4> QED BY <4>1
    <3> HIDE DEF lead, keepsLead, raw
    <3> QED BY <3>2
  <2> HIDE DEF more, clean
  <2> QED BY <2>1, <2>2 DEF clean
<1> QED BY <1>1, Zenon DEF SearchHit

\* What the assumption says of one command line and its input.
SelTyped(o, T) ==
    /\ o.noHeader \in BOOLEAN /\ o.pct \in BOOLEAN
    /\ o.skip \in Nat /\ o.every \in Nat /\ o.head \in Int /\ ColumnArguments(o)
    /\ IsList(T) /\ \A n \in DOMAIN T :
         /\ IsList(T[n]) /\ Len(T[n]) <= SelMaxColumns
         /\ \A c \in DOMAIN T[n] : IsList(T[n][c].t)

\* The names of the header.
NamesOf(o, T) == [i \in DOMAIN T[1] |-> Cleaned(o, T[1][i])]
\* The lines above the data.
Above(o) == IF o.noHeader THEN 0 ELSE 1

\* A line of the output stands for row r.
LineIs(o, T, line, r) ==
    /\ line.no = IF o.lineNumber THEN r - 1 ELSE 0
    /\ RowIsAsked(o, NamesOf(o, T), T[r], line.cells)

\* The output after n rows of the input.
LinesAre(o, T, lines, n) ==
    LET rows == AskedRows(o, T)
    IN  /\ IsSequence(lines) /\ Len(lines) = Above(o) + Cardinality(UpToPlace(rows, n))
        /\ \A r \in UpToPlace(rows, n) : LineIs(o, T, lines[Above(o) + PlaceIn(rows, r)], r)
        /\ ~o.noHeader /\ o.renames = <<>> => HeaderIsAsked(o, NamesOf(o, T), lines[1].cells)

\* The rows asked for are numbers of rows.
LEMMA RowsAreNumbers ==
    ASSUME NEW o, NEW T, SelTyped(o, T)
    PROVE  /\ AskedRows(o, T) \subseteq Nat /\ Above(o) \in {0, 1} /\ (Above(o) = 0 <=> o.noHeader)
           /\ Len(T) \in Nat /\ DOMAIN T = 1..Len(T)
           /\ \A r \in AskedRows(o, T) : r \in 2..Len(T)
<1>1. Len(T) \in Nat /\ DOMAIN T = 1..Len(T) /\ o.noHeader \in BOOLEAN
  BY DEF SelTyped, IsList
<1>2. \A r \in AskedRows(o, T) : r \in 2..Len(T)
  BY DEF AskedRows
<1>3. \A r \in AskedRows(o, T) : r \in Nat
  BY <1>1, <1>2
<1> QED BY <1>1, <1>2, <1>3 DEF Above

\* Below the header there is nothing yet.
LEMMA LinesBegin ==
    ASSUME NEW o, NEW T, SelTyped(o, T), NEW h, IsSequence(h), Len(h) = Above(o),
           ~o.noHeader /\ o.renames = <<>> => HeaderIsAsked(o, NamesOf(o, T), h[1].cells)
    PROVE  LinesAre(o, T, h, 1)
<1> DEFINE rows == AskedRows(o, T)
<1>1. rows \subseteq Nat /\ \A r \in rows : r \in 2..Len(T)
  BY RowsAreNumbers
<1>2. UpToPlace(rows, 1) = {}
  BY <1>1 DEF UpToPlace
<1>3. Cardinality(UpToPlace(rows, 1)) = 0
  BY <1>2, FS_EmptySet
<1>4. Above(o) + Cardinality(UpToPlace(rows, 1)) = Above(o)
  BY <1>3, RowsAreNumbers
<1> HIDE DEF rows
<1>5. \A r \in UpToPlace(rows, 1) : FALSE
  BY <1>2
<1> QED BY <1>4, <1>5, Zenon DEF LinesAre, rows

\* A row that is not asked for adds nothing.
LEMMA LinesStay ==
    ASSUME NEW o, NEW T, SelTyped(o, T), NEW lines, NEW n \in Nat, LinesAre(o, T, lines, n),
           n + 1 \notin AskedRows(o, T)
    PROVE  LinesAre(o, T, lines, n + 1)
<1>1. UpToPlace(AskedRows(o, T), n + 1) = UpToPlace(AskedRows(o, T), n)
  BY RowsAreNumbers, PlacesCount
<1> QED BY <1>1, Zenon DEF LinesAre

\* One that is adds its line.
LEMMA LinesGrow ==
    ASSUME NEW o, NEW T, SelTyped(o, T), NEW lines, NEW n \in Nat, LinesAre(o, T, lines, n),
           n + 1 \in AskedRows(o, T), NEW line, LineIs(o, T, line, n + 1)
    PROVE  LinesAre(o, T, Append(lines, line), n + 1)
<1> DEFINE rows == AskedRows(o, T)
           S == UpToPlace(rows, n)
           t == Append(lines, line)
           above == Above(o)
           C == Cardinality(S)
<1>1. rows \subseteq Nat /\ above \in {0, 1} /\ (above = 0 <=> o.noHeader) /\ o.noHeader \in BOOLEAN
  BY RowsAreNumbers DEF SelTyped
<1>2. /\ UpToPlace(rows, n + 1) = S \cup {n + 1}
      /\ Cardinality(UpToPlace(rows, n + 1)) = C + 1 /\ PlaceIn(rows, n + 1) = C + 1
      /\ \A r \in S : PlaceIn(rows, r) \in 1..C
      /\ C \in Nat
  BY <1>1, PlacesCount
<1>3. /\ IsSequence(lines) /\ Len(lines) = above + C
      /\ \A r \in S : LineIs(o, T, lines[above + PlaceIn(rows, r)], r)
      /\ ~o.noHeader /\ o.renames = <<>> => HeaderIsAsked(o, NamesOf(o, T), lines[1].cells)
  BY Zenon DEF LinesAre
<1>4. /\ IsSequence(t) /\ Len(t) = Len(lines) + 1 /\ t[Len(lines) + 1] = line
      /\ \A k \in DOMAIN lines : t[k] = lines[k]
      /\ DOMAIN lines = 1..Len(lines)
  BY <1>3, AppendIsSequence
<1> HIDE DEF t, S, C, above, rows
<1>5. Len(t) = above + Cardinality(UpToPlace(rows, n + 1))
  BY <1>1, <1>2, <1>3, <1>4
<1>6. ASSUME NEW r \in UpToPlace(rows, n + 1)
      PROVE  LineIs(o, T, t[above + PlaceIn(rows, r)], r)
  <2>1. CASE r \in S
    <3>1. above + PlaceIn(rows, r) \in DOMAIN lines
      BY <1>1, <1>2, <1>3, <1>4, <2>1
    <3>2. t[above + PlaceIn(rows, r)] = lines[above + PlaceIn(rows, r)]
      BY <1>4, <3>1
    <3> QED BY <1>3, <2>1, <3>2
  <2>2. CASE r = n + 1
    <3>1. above + PlaceIn(rows, r) = Len(lines) + 1
      BY <1>1, <1>2, <1>3, <2>2
    <3> QED BY <1>4, <2>2, <3>1
  <2> QED BY <1>2, <2>1, <2>2
<1>7. ASSUME ~o.noHeader, o.renames = <<>> PROVE HeaderIsAsked(o, NamesOf(o, T), t[1].cells)
  <2>1. 1 \in DOMAIN lines
    BY <1>1, <1>2, <1>3, <1>4, <1>7
  <2>2. t[1] = lines[1]
    BY <1>4, <2>1
  <2> QED BY <1>3, <1>7, <2>2
<1> QED BY <1>4, <1>5, <1>6, <1>7, Zenon DEF LinesAre, t, above, rows

\* One row of the input and its line.
LEMMA LineOfRow ==
    ASSUME NEW o, NEW T, SelTyped(o, T), Asks(o, NamesOf(o, T)), NEW r, NEW row, NEW w,
           w = OutputDataRow(o, <<>>, row, T[r], OutputColumns(o, NamesOf(o, T))), NEW line,
           line = [no |-> IF o.lineNumber THEN r - 1 ELSE 0, cells |-> w.cells]
    PROVE  w.over = <<>> /\ LineIs(o, T, line, r)
<1>1. w.over = <<>> /\ RowIsAsked(o, NamesOf(o, T), T[r], w.cells)
  BY RowOfAsked
<1>2. line.cells = w.cells /\ line.no = IF o.lineNumber THEN r - 1 ELSE 0
  OBVIOUS
<1> QED BY <1>1, <1>2 DEF LineIs

\* What is left to skip after so many rows.
SkipLeft(o, count) == IF o.skip > count THEN o.skip - count ELSE 0

\* A row is shown if it is asked for.
LEMMA ShownIsAsked ==
    ASSUME NEW o, NEW T, SelTyped(o, T), Asks(o, NamesOf(o, T)), NEW r, r \in 2..Len(T),
           NEW got, DOMAIN got = DOMAIN T[r], \A i \in DOMAIN T[r] : got[i] = T[r][i],
           o.head >= 0 => r - 1 <= o.head
    PROVE  ~Skipped(o, SkipLeft(o, r - 2), r - 1, FALSE) /\ SearchHit(o, got)
             <=> r \in AskedRows(o, T)
<1>0. /\ o.skip \in Nat /\ o.every \in Nat /\ o.head \in Int /\ o.pct \in BOOLEAN
      /\ Len(T) \in Nat /\ DOMAIN T = 1..Len(T)
  BY DEF SelTyped, IsList
<1>1. ~o.pct /\ o.search \cap SpaceChars = {}
  BY Zenon DEF Asks, SelCovered
<1>2. SearchHit(o, got) <=>
        (o.search # {} => \E c \in DOMAIN T[r] : Range(Cleaned(o, T[r][c])) \cap o.search # {})
  <2>1. r \in DOMAIN T
    BY <1>0
  <2>2. \A c \in DOMAIN got : IsList(got[c].t)
    BY <2>1 DEF SelTyped
  <2>3. SearchHit(o, got) <=>
          (o.search # {} => \E c \in DOMAIN got : Range(Cleaned(o, got[c])) \cap o.search # {})
    BY <1>1, <2>2, SearchIsAsked
  <2> QED BY <2>3, Zenon
<1>3. ~Skipped(o, SkipLeft(o, r - 2), r - 1, FALSE) <=>
        r - 1 > o.skip /\ (o.every > 0 => (r - 1) % o.every = 1)
  <2>1. SkipLeft(o, r - 2) > 0 <=> ~(r - 1 > o.skip)
    BY <1>0 DEF SkipLeft
  <2>2. Skipped(o, SkipLeft(o, r - 2), r - 1, FALSE) <=>
          SkipLeft(o, r - 2) > 0 \/ (o.every > 0 /\ ~((r - 1) % o.every = 1))
    BY <1>0, <1>1, Zenon DEF Skipped
  <2> QED BY <2>1, <2>2, Zenon
<1>4. r \in AskedRows(o, T) <=>
        /\ r - 1 > o.skip
        /\ o.every > 0 => (r - 1) % o.every = 1
        /\ o.search # {} => \E c \in DOMAIN T[r] : Range(Cleaned(o, T[r][c])) \cap o.search # {}
        /\ o.head > 0 => r - 1 <= o.head
  BY Zenon DEF AskedRows
<1>5. o.head > 0 => r - 1 <= o.head
  BY <1>0
<1> QED BY <1>2, <1>3, <1>4, <1>5, Zenon

\* The header has been read: the rows up to the next one are done.
RowsSoFar(s, lines) ==
    LET names == NamesOf(s.opts, s.table)
    IN  /\ s.pc \in {"data", "close", "done"}
        /\ s.over = <<>> /\ s.next \in 2..(Len(s.table) + 1) /\ s.count = s.next - 2
        /\ s.skip = SkipLeft(s.opts, s.count) /\ s.cols = OutputColumns(s.opts, names)
        /\ s.cancelled <=> s.opts.head >= 0 /\ s.count >= s.opts.head
        /\ LinesAre(s.opts, s.table, lines, s.next - 1)
        /\ s.pc \in {"close", "done"} => s.cancelled \/ s.next > Len(s.table)

\* The command has its types; a header that has been passed leaves the rows
\* done so far in the output.
SelRowsInv ==
    /\ SelShape(st) /\ SelTyped(st.opts, st.table)
    /\ st.headerFinished => Len(st.table) > 0
    /\ st.pc = "header" =>
         /\ out = <<>> /\ st.over = st.orig /\ st.count = 0 /\ st.skip = st.opts.skip
         /\ ~st.headerFinished
    /\ st.headerFinished /\ st.orig = <<>> /\ Asks(st.opts, NamesOf(st.opts, st.table)) =>
         RowsSoFar(st, out)

\* At the start.
LEMMA SelRowsStart == ASSUME SelectInit PROVE SelRowsInv
<1>1. PICK r \in SelRuns :
        LET bad == BadArguments(r.opts)
            opens == r.opts.file /\ r.opts.pull
        IN  /\ st = [pc |-> IF bad THEN "close" ELSE "header", opts |-> r.opts,
                     table |-> r.table, next |-> 1, over |-> r.over, orig |-> r.over,
                     names |-> <<>>, cols |-> <<>>, count |-> 0, skip |-> r.opts.skip,
                     cancelled |-> FALSE, headerFailed |-> FALSE, headerFinished |-> FALSE,
                     stat |-> IF bad THEN "error" ELSE "ok"]
            /\ disk = IF opens THEN "new" ELSE "old"
  BY DEF SelectInit
<1>2. SelShape(st) /\ out = <<>>
  BY <1>1 DEF SelShape, SelectInit
<1>3. /\ st.opts = r.opts /\ st.table = r.table /\ st.over = r.over /\ st.orig = r.over
      /\ st.count = 0 /\ st.skip = r.opts.skip /\ ~st.headerFinished
  BY <1>1
<1>4. SelTyped(r.opts, r.table)
  BY SelAssumption DEF SelTyped
<1> QED BY <1>2, <1>3, <1>4 DEF SelRowsInv

\* The line of the header.
LEMMA HeaderIsOne ==
    ASSUME NEW o, NEW names, NEW cols, o.noHeader \in BOOLEAN, NEW h, h = HeaderRow(o, names, cols)
    PROVE  IsSequence(h) /\ Len(h) = Above(o) /\ <<>> \o h = h
<1>1. CASE o.noHeader
  <2>1. h = <<>>
    BY <1>1, Zenon DEF HeaderRow
  <2>2. <<>> \o <<>> = <<>> /\ Len(<<>>) = 0
    OBVIOUS
  <2> QED BY <1>1, <2>1, <2>2, EmptyIsSequence DEF Above
<1>2. CASE ~o.noHeader
  <2>1. \E e : h = <<e>>
    BY <1>2, Zenon DEF HeaderRow
  <2>2. PICK e : h = <<e>>
    BY <2>1
  <2>3. <<e>> \in Seq({e}) /\ Len(<<e>>) = 1
    OBVIOUS
  <2>4. IsSequence(h) /\ Len(h) = 1 /\ h \in Seq({e})
    BY <2>2, <2>3, SequenceOver
  <2>5. <<>> \o h = h
    BY <2>4, ConcatEmptySeq
  <2> QED BY <1>2, <2>4, <2>5 DEF Above
<1> QED BY <1>1, <1>2

\* The names as they are read without overwrites.
NamesRead(o, T) ==
    LET f == Fetch(<<>>, 0, T[1], [i \in DOMAIN T[1] |-> i])
    IN  /\ f.over = <<>>
        /\ [i \in 1..Min({Len(T[1]), SelMaxColumns}) |-> Cleaned(o, f.got[i])] = NamesOf(o, T)

\* The names in the header row.
LEMMA HeaderNames ==
    ASSUME NEW o, NEW T, SelTyped(o, T), Len(T) > 0
    PROVE  NamesRead(o, T) /\ IsList(NamesOf(o, T))
<1> DEFINE f == Fetch(<<>>, 0, T[1], [i \in DOMAIN T[1] |-> i])
<1>1. IsList(T[1]) /\ Len(T[1]) <= SelMaxColumns /\ SelMaxColumns \in Nat
  BY SelAssumption DEF SelTyped, IsList
<1>2. Len(T[1]) \in Nat /\ DOMAIN T[1] = 1..Len(T[1])
  BY <1>1 DEF IsList
<1>3. f.over = <<>> /\ f.got = [i \in DOMAIN T[1] |-> T[1][i]]
  BY <1>1, FetchRow
<1>4. Min({Len(T[1]), SelMaxColumns}) = Len(T[1])
  <2>1. {Len(T[1]), SelMaxColumns} \subseteq Nat
    BY <1>1, <1>2
  <2>2. PICK m : m = Min({Len(T[1]), SelMaxColumns})
    OBVIOUS
  <2>3. m \in {Len(T[1]), SelMaxColumns} /\ \A y \in {Len(T[1]), SelMaxColumns} : m <= y
    BY <2>1, <2>2, MinIsLeast
  <2> QED BY <1>1, <1>2, <2>2, <2>3
<1>5. [i \in 1..Min({Len(T[1]), SelMaxColumns}) |-> Cleaned(o, f.got[i])] = NamesOf(o, T)
  <2>1. \A i \in 1..Len(T[1]) : f.got[i] = T[1][i]
    BY <1>2, <1>3
  <2>2. NamesOf(o, T) = [i \in 1..Len(T[1]) |-> Cleaned(o, T[1][i])]
    BY <1>2 DEF NamesOf
  <2> QED BY <1>4, <2>1, <2>2
<1>6. IsList(NamesOf(o, T))
  <2> DEFINE names == NamesOf(o, T)
  <2>1. names = [i \in 1..Len(T[1]) |-> names[i]]
    BY <1>2 DEF NamesOf
  <2> HIDE DEF names
  <2>2. Len(names) = Len(T[1]) /\ DOMAIN names = 1..Len(T[1])
    BY <1>2, <2>1, ListIsSequence
  <2> QED BY <1>2, <2>2 DEF IsList, names
<1> HIDE DEF f
<1>7. NamesRead(o, T)
  BY <1>3, <1>5, Zenon DEF NamesRead, f
<1> QED BY <1>6, <1>7

\* Without renames a column keeps its name.
LEMMA NothingRenamed ==
    ASSUME NEW o, o.renames = <<>>, NEW T
    PROVE  Renamed(o, NamesOf(o, T)) = NamesOf(o, T)
<1> DEFINE names == NamesOf(o, T)
<1>1. names = [i \in DOMAIN names |-> names[i]]
  BY DEF NamesOf
<1> HIDE DEF names
<1>2. \A i : {k \in DOMAIN <<>> : i \in RenameTargets(names, <<>>[k])} = {}
  OBVIOUS
<1>3. Renamed(o, names) = [i \in DOMAIN names |-> names[i]]
  BY <1>2, Zenon DEF Renamed
<1> QED BY <1>1, <1>3 DEF names

\* The header row.
LEMMA SelRowsHeader == ASSUME SelRowsInv, SelectHeaderRow PROVE SelRowsInv'
<1> DEFINE o == st.opts
           row == st.table[1]
           f == Fetch(st.over, 0, row, [i \in DOMAIN row |-> i])
           names == [i \in 1..Min({Len(row), SelMaxColumns}) |-> Cleaned(o, f.got[i])]
           fails == \/ 0 \in Range(WantedColumns(o, names))
                    \/ ~o.pull /\ (RenamesFail(o, names) \/ (o.file /\ o.badOutput))
           final == IF o.pull THEN names ELSE Renamed(o, names)
           cols == OutputColumns(o, names)
<1>1. /\ st.pc = "header" /\ Len(st.table) > 0
      /\ st' = [st EXCEPT !.pc = "data", !.next = 2, !.over = f.over,
                          !.names = final, !.cols = IF fails THEN <<>> ELSE cols,
                          !.cancelled = fails, !.headerFailed = fails /\ ~o.pull,
                          !.headerFinished = ~fails]
      /\ out' = IF fails THEN out ELSE out \o HeaderRow(o, final, cols)
  BY DEF SelectHeaderRow
<1>2. /\ SelShape(st) /\ SelTyped(st.opts, st.table)
      /\ out = <<>> /\ st.over = st.orig /\ st.count = 0 /\ st.skip = st.opts.skip
  BY <1>1 DEF SelRowsInv
<1>3. fails \in BOOLEAN
  OBVIOUS
<1> HIDE DEF f, names, fails, final, cols
<1>4. /\ SelShape(st') /\ st'.pc = "data" /\ st'.opts = st.opts /\ st'.table = st.table
      /\ st'.next = 2 /\ st'.over = f.over /\ st'.orig = st.orig /\ st'.count = 0
      /\ st'.skip = st.opts.skip /\ st'.cols = (IF fails THEN <<>> ELSE cols)
      /\ st'.cancelled = fails /\ st'.headerFinished = ~fails
  BY <1>1, <1>2 DEF SelShape
<1>5. ASSUME ~fails, st.orig = <<>>, Asks(st.opts, NamesOf(st.opts, st.table))
      PROVE  RowsSoFar(st', out')
  <2>1. f.over = <<>> /\ names = NamesOf(o, st.table)
    <3>1. f = Fetch(<<>>, 0, st.table[1], [i \in DOMAIN st.table[1] |-> i])
      BY <1>2, <1>5 DEF f
    <3>2. NamesRead(st.opts, st.table)
      BY <1>1, <1>2, HeaderNames
    <3>3. /\ f.over = <<>>
          /\ [i \in 1..Min({Len(st.table[1]), SelMaxColumns}) |-> Cleaned(st.opts, f.got[i])]
               = NamesOf(st.opts, st.table)
      BY <3>1, <3>2, Zenon DEF NamesRead
    <3> QED BY <3>3, Zenon DEF names
  <2>2. PICK h : h = HeaderRow(o, final, cols)
    OBVIOUS
  <2>3. o.noHeader \in BOOLEAN /\ o.skip \in Nat /\ o.head \in Int /\ Len(st.table) \in Nat
    BY <1>2 DEF SelTyped, IsList
  <2>4. IsSequence(h) /\ Len(h) = Above(o) /\ <<>> \o h = h
    BY <2>2, <2>3, HeaderIsOne
  <2>5. out' = h
    BY <1>1, <1>2, <1>5, <2>2, <2>4
  <2>6. ASSUME ~o.noHeader, o.renames = <<>>
        PROVE  HeaderIsAsked(o, NamesOf(o, st.table), h[1].cells)
    <3>1. final = names
      BY <2>1, <2>6, NothingRenamed DEF final
    <3>2. h = HeaderRow(o, NamesOf(o, st.table), OutputColumns(o, NamesOf(o, st.table)))
      BY <2>1, <2>2, <3>1 DEF cols
    <3> QED BY <1>5, <2>6, <3>2, HeaderOfAsked
  <2>7. LinesAre(o, st.table, h, 1)
    BY <1>2, <2>4, <2>6, LinesBegin
  <2>8. o.head >= 0 => o.head > 0
    BY <1>5, Zenon DEF Asks, SelCovered
  <2>9. /\ st'.pc \in {"data", "close", "done"} /\ st'.over = <<>>
        /\ st'.next \in 2..(Len(st'.table) + 1) /\ st'.count = st'.next - 2
        /\ st'.cols = OutputColumns(st'.opts, NamesOf(st'.opts, st'.table))
        /\ ~(st'.pc \in {"close", "done"})
    BY <1>1, <1>4, <1>5, <2>1, <2>3 DEF cols
  <2>10. st'.skip = SkipLeft(st'.opts, st'.count)
    BY <1>4, <2>3 DEF SkipLeft
  <2>11. st'.cancelled <=> st'.opts.head >= 0 /\ st'.count >= st'.opts.head
    BY <1>4, <1>5, <2>3, <2>8
  <2>12. LinesAre(st'.opts, st'.table, out', st'.next - 1)
    BY <1>4, <2>5, <2>7
  <2> QED BY <2>9, <2>10, <2>11, <2>12, Zenon DEF RowsSoFar
<1>6. st'.pc # "header" /\ Len(st'.table) > 0
  BY <1>1, <1>4
<1> QED BY <1>2, <1>4, <1>5, <1>6, Zenon DEF SelRowsInv

\* The row as it is searched, without overwrites.
LEMMA SearchedRow ==
    ASSUME NEW o, NEW cells, IsList(cells), NEW row, NEW got,
           got = IF o.search = {} THEN [over |-> <<>>, got |-> cells]
                 ELSE Fetch(<<>>, row, cells, [i \in DOMAIN cells |-> i])
    PROVE  /\ got.over = <<>> /\ DOMAIN got.got = DOMAIN cells
           /\ \A i \in DOMAIN cells : got.got[i] = cells[i]
<1>1. CASE o.search = {}
  BY <1>1
<1>2. CASE o.search # {}
  <2>1. PICK f : f = Fetch(<<>>, row, cells, [i \in DOMAIN cells |-> i])
    OBVIOUS
  <2>2. f.over = <<>> /\ f.got = [i \in DOMAIN cells |-> cells[i]]
    BY <2>1, FetchRow
  <2>3. got = f
    BY <1>2, <2>1
  <2> QED BY <2>2, <2>3
<1> QED BY <1>1, <1>2

\* A data row.
LEMMA SelRowsData == ASSUME SelRowsInv, SelectDataRow PROVE SelRowsInv'
<1> DEFINE o == st.opts
           T == st.table
           r == st.next
           row == T[r]
           count == st.count + 1
           whole == [i \in DOMAIN row |-> i]
           searched == IF o.search = {} THEN [over |-> st.over, got |-> row]
                       ELSE Fetch(st.over, r - 1, row, whole)
           shown(drawn) == ~Skipped(o, st.skip, count, drawn) /\ SearchHit(o, searched.got)
           w == OutputDataRow(o, searched.over, r - 1, row, st.cols)
           line == [no |-> IF o.lineNumber THEN count ELSE 0, cells |-> w.cells]
<1>1. PICK drawn \in (IF o.pct THEN BOOLEAN ELSE {FALSE}) :
        /\ st' = [st EXCEPT !.next = @ + 1, !.count = count,
                            !.skip = IF @ > 0 THEN @ - 1 ELSE 0,
                            !.over = IF shown(drawn) THEN w.over
                                     ELSE IF Skipped(o, st.skip, count, drawn) THEN @
                                     ELSE searched.over,
                            !.cancelled = shown(drawn) /\ o.head >= 0 /\ count + 1 >= o.head + 1]
        /\ out' = IF shown(drawn) THEN Append(out, line) ELSE out
  BY Zenon DEF SelectDataRow
<1>2. /\ st.pc = "data" /\ r <= Len(T) /\ ~st.cancelled
      /\ SelShape(st) /\ SelTyped(o, T)
  BY DEF SelectDataRow, SelRowsInv
<1> HIDE DEF searched, w
<1>3. /\ SelShape(st') /\ st'.pc = "data" /\ st'.opts = o /\ st'.table = T /\ st'.orig = st.orig
      /\ st'.headerFinished = st.headerFinished /\ st'.next = r + 1 /\ st'.count = count
      /\ st'.skip = (IF st.skip > 0 THEN st.skip - 1 ELSE 0) /\ st'.cols = st.cols
      /\ st'.over = (IF shown(drawn) THEN w.over
                     ELSE IF Skipped(o, st.skip, count, drawn) THEN st.over ELSE searched.over)
      /\ st'.cancelled = (shown(drawn) /\ o.head >= 0 /\ count + 1 >= o.head + 1)
  <2> HIDE DEF shown
  <2> QED BY <1>1, <1>2 DEF SelShape
<1>4. ASSUME st.headerFinished, st.orig = <<>>, Asks(o, NamesOf(o, T))
      PROVE  RowsSoFar(st', out')
  <2>1. RowsSoFar(st, out)
    BY <1>4 DEF SelRowsInv
  <2>2. /\ st.over = <<>> /\ r \in 2..(Len(T) + 1) /\ st.count = r - 2
        /\ st.skip = SkipLeft(o, r - 2) /\ st.cols = OutputColumns(o, NamesOf(o, T))
        /\ (st.cancelled <=> o.head >= 0 /\ st.count >= o.head)
        /\ LinesAre(o, T, out, r - 1)
    <3>1. st.count = r - 2 /\ st.skip = SkipLeft(o, st.count)
      BY <2>1, Zenon DEF RowsSoFar
    <3> QED BY <2>1, <3>1, Zenon DEF RowsSoFar
  <2>3. /\ Len(T) \in Nat /\ DOMAIN T = 1..Len(T) /\ o.skip \in Nat /\ o.head \in Int
        /\ o.pct \in BOOLEAN
    BY <1>2 DEF SelTyped, IsList
  <2>4. /\ r \in 2..Len(T) /\ count = r - 1 /\ r - 1 \in Nat /\ (r - 1) + 1 = r /\ r \in DOMAIN T
    BY <1>2, <2>2, <2>3
  <2>5. IsList(row)
    BY <1>2, <2>4 DEF SelTyped
  <2>6. /\ searched.over = <<>> /\ DOMAIN searched.got = DOMAIN T[r]
        /\ \A i \in DOMAIN T[r] : searched.got[i] = T[r][i]
    <3>1. PICK q : q = r - 1
      OBVIOUS
    <3>2. PICK cells : cells = T[r]
      OBVIOUS
    <3>3. searched = IF o.search = {} THEN [over |-> <<>>, got |-> cells]
                     ELSE Fetch(<<>>, q, cells, [i \in DOMAIN cells |-> i])
      BY <2>2, <3>1, <3>2, Zenon DEF searched
    <3>4. IsList(cells)
      BY <2>5, <3>2
    <3>5. /\ searched.over = <<>> /\ DOMAIN searched.got = DOMAIN cells
          /\ \A i \in DOMAIN cells : searched.got[i] = cells[i]
      BY <3>3, <3>4, SearchedRow
    <3> QED BY <3>2, <3>5
  <2>7. ~drawn /\ ~o.pct
    <3>1. ~o.pct
      BY <1>4, Zenon DEF Asks, SelCovered
    <3> QED BY <1>1, <3>1
  <2>8. o.head >= 0 => r - 1 <= o.head
    BY <1>2, <2>2, <2>3, <2>4
  <2>9. shown(drawn) <=> r \in AskedRows(o, T)
    <3>1. ~Skipped(o, SkipLeft(o, r - 2), r - 1, FALSE) /\ SearchHit(o, searched.got)
             <=> r \in AskedRows(o, T)
      <4> HIDE DEF o, T, r
      <4> QED BY <1>2, <1>4, <2>4, <2>6, <2>8, ShownIsAsked
    <3>2. drawn = FALSE
      BY <1>1, <2>7
    <3>3. st.skip = SkipLeft(o, r - 2) /\ count = r - 1
      BY <2>2, <2>4
    <3> HIDE DEF count
    <3> QED BY <3>1, <3>2, <3>3
  <2>10. w.over = <<>> /\ LineIs(o, T, line, r)
    <3>1. PICK q : q = r - 1
      OBVIOUS
    <3>2. w = OutputDataRow(o, <<>>, q, T[r], OutputColumns(o, NamesOf(o, T)))
      BY <2>2, <2>6, <3>1 DEF w
    <3>3. line = [no |-> IF o.lineNumber THEN r - 1 ELSE 0, cells |-> w.cells]
      BY <2>4
    <3> HIDE DEF line, o, T, r
    <3> QED BY <1>2, <1>4, <3>2, <3>3, LineOfRow
  <2> HIDE DEF shown, line
  <2>11. st'.over = <<>>
    BY <1>3, <2>2, <2>6, <2>10
  <2>12. LinesAre(o, T, out', r)
    <3>1. CASE r \in AskedRows(o, T)
      <4>1. out' = Append(out, line)
        BY <1>1, <2>9, <3>1
      <4>2. PICK n : n = r - 1
        OBVIOUS
      <4>3. n \in Nat /\ n + 1 = r /\ LinesAre(o, T, out, n)
        BY <2>2, <2>4, <4>2
      <4>4. LinesAre(o, T, Append(out, line), n + 1)
        <5> HIDE DEF o, T, r
        <5> QED BY <1>2, <2>10, <3>1, <4>3, LinesGrow
      <4> QED BY <4>1, <4>3, <4>4
    <3>2. CASE r \notin AskedRows(o, T)
      <4>1. out' = out
        BY <1>1, <2>9, <3>2
      <4>2. PICK n : n = r - 1
        OBVIOUS
      <4>3. n \in Nat /\ n + 1 = r /\ LinesAre(o, T, out, n)
        BY <2>2, <2>4, <4>2
      <4>4. LinesAre(o, T, out, n + 1)
        <5> HIDE DEF o, T, r
        <5> QED BY <1>2, <3>2, <4>3, LinesStay
      <4> QED BY <4>1, <4>3, <4>4
    <3> QED BY <3>1, <3>2
  <2>13. st'.skip = SkipLeft(st'.opts, st'.count)
    <3>1. st'.skip = SkipLeft(o, r - 1)
      BY <1>3, <2>2, <2>3, <2>4 DEF SkipLeft
    <3> QED BY <1>3, <2>4, <3>1
  <2>14. st'.cancelled <=> st'.opts.head >= 0 /\ st'.count >= st'.opts.head
    <3>1. ASSUME o.head >= 0 PROVE shown(drawn)
      <4>1. o.head > 0 /\ o.skip = 0 /\ o.every = 0 /\ o.search = {}
        BY <1>4, <3>1, Zenon DEF Asks, SelCovered
      <4>2. r \in AskedRows(o, T)
        BY <2>3, <2>4, <2>8, <4>1 DEF AskedRows
      <4> QED BY <2>9, <4>2
    <3>2. count + 1 >= o.head + 1 <=> count >= o.head
      BY <2>3, <2>4
    <3>3. st'.opts = o /\ st'.count = count
          /\ st'.cancelled = (shown(drawn) /\ o.head >= 0 /\ count + 1 >= o.head + 1)
      BY <1>3, Zenon
    <3> HIDE DEF count, o
    <3> QED BY <3>1, <3>2, <3>3, Zenon
  <2>15. /\ st'.pc \in {"data", "close", "done"} /\ ~(st'.pc \in {"close", "done"})
         /\ st'.next \in 2..(Len(st'.table) + 1) /\ st'.count = st'.next - 2
         /\ st'.cols = OutputColumns(st'.opts, NamesOf(st'.opts, st'.table))
    BY <1>3, <2>2, <2>3, <2>4
  <2>16. LinesAre(st'.opts, st'.table, out', st'.next - 1)
    <3>1. st'.next - 1 = r
      BY <1>3, <2>4
    <3> QED BY <1>3, <2>12, <3>1
  <2> QED BY <2>11, <2>13, <2>14, <2>15, <2>16, Zenon DEF RowsSoFar
<1>5. st'.pc # "header" /\ (st'.headerFinished => Len(st'.table) > 0)
  BY <1>3 DEF SelRowsInv
<1> HIDE DEF count
<1> QED BY <1>2, <1>3, <1>4, <1>5, Zenon DEF SelRowsInv

\* The end of the input, or an interrupt.
LEMMA SelRowsStop == ASSUME SelRowsInv, SelectInterrupt \/ SelectEnd PROVE SelRowsInv'
<1>1. /\ SelShape(st') /\ st'.pc = "close" /\ st'.opts = st.opts /\ st'.table = st.table
      /\ st'.orig = st.orig /\ st'.headerFinished = st.headerFinished /\ st'.next = st.next
      /\ st'.count = st.count /\ st'.skip = st.skip /\ st'.cols = st.cols
      /\ st'.over = st.over /\ st'.cancelled = st.cancelled /\ out' = out
  BY DEF SelectInterrupt, SelectEnd, SelRowsInv, SelShape
<1>2. SelTyped(st.opts, st.table)
  BY DEF SelRowsInv
<1>3. ASSUME st.headerFinished, st.orig = <<>>, Asks(st.opts, NamesOf(st.opts, st.table))
      PROVE  RowsSoFar(st', out')
  <2>1. RowsSoFar(st, out)
    BY <1>3 DEF SelRowsInv
  <2>2. ~st.opts.interrupts
    BY <1>3, Zenon DEF Asks, SelCovered
  <2>3. st.pc # "header"
    BY <1>3 DEF SelRowsInv
  <2>4. st.cancelled \/ st.next > Len(st.table)
    BY <2>2, <2>3 DEF SelectInterrupt, SelectEnd
  <2>5. st'.cancelled \/ st'.next > Len(st'.table)
    BY <1>1, <2>4
  <2>6. st'.pc \in {"data", "close", "done"}
    BY <1>1
  <2> QED BY <1>1, <2>1, <2>5, <2>6 DEF RowsSoFar
<1> QED BY <1>1, <1>2, <1>3 DEF SelRowsInv

\* The end of the command.
LEMMA SelRowsClose == ASSUME SelRowsInv, SelectClose PROVE SelRowsInv'
<1>1. /\ SelShape(st') /\ st'.pc = "done" /\ st'.opts = st.opts /\ st'.table = st.table
      /\ st'.orig = st.orig /\ st'.headerFinished = st.headerFinished /\ st'.next = st.next
      /\ st'.count = st.count /\ st'.skip = st.skip /\ st'.cols = st.cols
      /\ st'.over = st.over /\ st'.cancelled = st.cancelled /\ out' = out
      /\ st.pc = "close"
  BY DEF SelectClose, SelRowsInv, SelShape
<1>2. SelTyped(st.opts, st.table)
  BY DEF SelRowsInv
<1>3. ASSUME st.headerFinished, st.orig = <<>>, Asks(st.opts, NamesOf(st.opts, st.table))
      PROVE  RowsSoFar(st', out')
  <2>1. RowsSoFar(st, out)
    BY <1>3 DEF SelRowsInv
  <2>2. st'.cancelled \/ st'.next > Len(st'.table)
    BY <1>1, <2>1 DEF RowsSoFar
  <2>3. st'.pc \in {"data", "close", "done"}
    BY <1>1
  <2> QED BY <1>1, <2>1, <2>2, <2>3 DEF RowsSoFar
<1> QED BY <1>1, <1>2, <1>3 DEF SelRowsInv

\* When all is read, the output is what was asked for.
LEMMA SelRowsAreRight == ASSUME SelRowsInv PROVE SelectedRowsAreThoseAsked
<1> DEFINE o == st.opts
           T == st.table
           names == NamesOf(o, T)
           want == WantedColumns(o, names)
           cols == AskedColumns(o, names)
           rows == AskedRows(o, T)
           header == Above(o)
<1> SUFFICES ASSUME st.pc = "done", st.headerFinished, st.orig = <<>>, SelCovered(o, want, cols)
             PROVE  /\ Len(out) = header + Cardinality(rows)
                    /\ \A r \in rows : LineIs(o, T, out[header + PlaceIn(rows, r)], r)
                    /\ ~o.noHeader /\ o.renames = <<>> => HeaderIsAsked(o, names, out[1].cells)
  BY Zenon DEF SelectedRowsAreThoseAsked, LineIs, RowIsAsked, HeaderIsAsked, NamesOf, Above
<1>1. SelTyped(o, T)
  BY DEF SelRowsInv
<1>2. IsList(names)
  BY <1>1, HeaderNames DEF SelRowsInv
<1>3. /\ Len(out) = header + Cardinality(rows)
      /\ \A r \in rows : LineIs(o, T, out[header + PlaceIn(rows, r)], r)
      /\ ~o.noHeader /\ o.renames = <<>> => HeaderIsAsked(o, names, out[1].cells)
  <2>1. Asks(o, names)
    BY <1>1, <1>2 DEF Asks, SelTyped
  <2>2. RowsSoFar(st, out)
    BY <2>1 DEF SelRowsInv
  <2>3. /\ LinesAre(o, T, out, st.next - 1) /\ st.next \in 2..(Len(T) + 1)
        /\ st.count = st.next - 2
        /\ (st.cancelled <=> o.head >= 0 /\ st.count >= o.head)
        /\ st.cancelled \/ st.next > Len(T)
    BY <2>2 DEF RowsSoFar
  <2>4. /\ Len(T) \in Nat /\ rows \subseteq Nat /\ \A r \in rows : r \in 2..Len(T)
        /\ o.head \in Int
    BY <1>1, RowsAreNumbers DEF SelTyped
  <2>5. o.head >= 0 => o.head > 0
    BY Zenon DEF SelCovered
  <2>6. \A r \in rows : o.head > 0 => r - 1 <= o.head
    BY DEF AskedRows
  <2>7. UpToPlace(rows, st.next - 1) = rows
    <3> HIDE DEF rows, o, T
    <3>1. \A r \in rows : r <= st.next - 1
      BY <2>3, <2>4, <2>5, <2>6
    <3> QED BY <3>1, Zenon DEF UpToPlace
  <2> HIDE DEF rows, o, T, names, header
  <2> QED BY <2>3, <2>7, Zenon DEF LinesAre, rows, names, header
<1> QED BY <1>3

\* select writes the rows, the columns and the cells that the command line
\* asks for, in their order, for every input without saved overwrites.
THEOREM RowsAreThoseAsked == SelSpec => []SelectedRowsAreThoseAsked
<1>1. SelectInit => SelRowsInv
  BY SelRowsStart
<1>2. SelRowsInv /\ [SelectNext \/ Finished]_procVars => SelRowsInv'
  <2> SUFFICES ASSUME SelRowsInv, [SelectNext \/ Finished]_procVars PROVE SelRowsInv'
    OBVIOUS
  <2>1. CASE UNCHANGED procVars
    <3>1. st' = st /\ out' = out
      BY <2>1 DEF procVars
    <3> QED BY <3>1 DEF SelRowsInv
  <2> QED
    BY <2>1, SelRowsHeader, SelRowsData, SelRowsStop, SelRowsClose DEF SelectNext, Finished
<1>3. SelRowsInv => SelectedRowsAreThoseAsked
  BY SelRowsAreRight
<1> QED
  BY <1>1, <1>2, <1>3, PTL DEF SelSpec

-----------------------------------------------------------------------------
(* compare: keys                                                           *)

\* Keys of the same length that are not equal: one is less.
LEMMA KeysCompare ==
    ASSUME NEW n \in Nat, NEW a \in [1..n -> Int], NEW b \in [1..n -> Int]
    PROVE  /\ a = b \/ KeyLess(a, b) \/ KeyLess(b, a)
           /\ ~(KeyLess(a, b) /\ KeyLess(b, a))
           /\ ~KeyLess(a, a)
<1>1. ASSUME a # b PROVE KeyLess(a, b) \/ KeyLess(b, a)
  <2> DEFINE differ == {k \in 1..n : a[k] # b[k]}
  <2>1. differ # {} /\ differ \subseteq Nat
    BY <1>1
  <2>2. PICK k \in differ : \A m \in differ : k <= m
    BY <2>1, LeastNatural
  <2>3. k \in 1..n /\ a[k] # b[k] /\ \A j \in 1..k-1 : a[j] = b[j]
    BY <2>2
  <2>4. a[k] \in Int /\ b[k] \in Int /\ DOMAIN a = 1..n /\ DOMAIN b = 1..n
    BY <2>3
  <2>5. CASE a[k] < b[k]
    BY <2>3, <2>4, <2>5 DEF KeyLess
  <2>6. CASE b[k] < a[k]
    BY <2>3, <2>4, <2>6 DEF KeyLess
  <2> QED BY <2>3, <2>4, <2>5, <2>6
<1>2. ASSUME KeyLess(a, b), KeyLess(b, a) PROVE FALSE
  <2>1. PICK k \in 1..n : a[k] < b[k] /\ \A j \in 1..k-1 : a[j] = b[j]
    BY <1>2 DEF KeyLess
  <2>2. PICK l \in 1..n : b[l] < a[l] /\ \A j \in 1..l-1 : b[j] = a[j]
    BY <1>2 DEF KeyLess
  <2>3. a[k] \in Int /\ b[k] \in Int /\ a[l] \in Int /\ b[l] \in Int
    OBVIOUS
  <2>4. CASE k < l
    BY <2>1, <2>2, <2>3, <2>4
  <2>5. CASE l < k
    BY <2>1, <2>2, <2>3, <2>5
  <2>6. CASE k = l
    BY <2>1, <2>2, <2>3, <2>6
  <2> QED BY <2>4, <2>5, <2>6
<1>3. ~KeyLess(a, a)
  <2> SUFFICES ASSUME KeyLess(a, a) PROVE FALSE
    OBVIOUS
  <2>1. PICK k \in 1..n : a[k] < a[k]
    BY DEF KeyLess
  <2>2. a[k] \in Int
    OBVIOUS
  <2> QED BY <2>1, <2>2
<1> QED
  BY <1>1, <1>2, <1>3

\* The order of keys is transitive.
LEMMA KeysInOrder ==
    ASSUME NEW n \in Nat, NEW a \in [1..n -> Int], NEW b \in [1..n -> Int],
           NEW c \in [1..n -> Int], ~KeyLess(b, a), ~KeyLess(c, b)
    PROVE  ~KeyLess(c, a) /\ (a = c => b = a)
<1>1. (a = b \/ KeyLess(a, b)) /\ (b = c \/ KeyLess(b, c))
  BY KeysCompare
<1>2. ASSUME KeyLess(a, b), KeyLess(b, c) PROVE KeyLess(a, c)
  <2>1. PICK k \in 1..n : a[k] < b[k] /\ \A j \in 1..k-1 : a[j] = b[j]
    BY <1>2 DEF KeyLess
  <2>2. PICK l \in 1..n : b[l] < c[l] /\ \A j \in 1..l-1 : b[j] = c[j]
    BY <1>2 DEF KeyLess
  <2>3. a[k] \in Int /\ b[k] \in Int /\ c[k] \in Int /\ a[l] \in Int /\ b[l] \in Int /\ c[l] \in Int
    OBVIOUS
  <2>4. PICK m \in 1..n : m = IF k <= l THEN k ELSE l
    OBVIOUS
  <2>5. \A j \in 1..m-1 : a[j] = b[j] /\ b[j] = c[j]
    BY <2>1, <2>2, <2>4
  <2>6. CASE k < l
    BY <2>1, <2>2, <2>3, <2>4, <2>5, <2>6 DEF KeyLess
  <2>7. CASE l < k
    BY <2>1, <2>2, <2>3, <2>4, <2>5, <2>7 DEF KeyLess
  <2>8. CASE k = l
    <3>1. a[m] < c[m]
      BY <2>1, <2>2, <2>3, <2>4, <2>8
    <3> QED BY <2>5, <3>1 DEF KeyLess
  <2> QED BY <2>6, <2>7, <2>8
<1>3. a = c \/ KeyLess(a, c) \/ a = b \/ b = c
  BY <1>1, <1>2
<1>4. ~KeyLess(c, a)
  BY <1>1, <1>2, KeysCompare
<1>5. ASSUME a = c PROVE b = a
  BY <1>1, <1>5
<1> QED
  BY <1>4, <1>5

\* Row r of an input is the Count-th of its key.
Count(i, r) == Cardinality({q \in 1..r : FileKey(i, q) = FileKey(i, r)})
Keys == [1..Len(st.opts.keys) -> Int]

\* What the lemmas about the merge take for granted: rows have keys, and the
\* inputs are in their order.
KeysAreSorted ==
    /\ Len(st.opts.keys) \in Nat /\ InKeyOrder
    /\ \A i \in CmpInput : IsList(st.files[i].rows)
    /\ \A i \in CmpInput : \A r \in RowsOf(i) : FileKey(i, r) \in Keys

\* A later row of the same key has a later place.
LEMMA CountGrows ==
    ASSUME NEW i, NEW r \in Nat \ {0}, NEW q \in 1..r-1, FileKey(i, q) = FileKey(i, r)
    PROVE  Count(i, q) \in Nat /\ Count(i, r) \in Nat /\ Count(i, q) < Count(i, r)
<1> DEFINE A == {p \in 1..q : FileKey(i, p) = FileKey(i, q)}
           B == {p \in 1..r : FileKey(i, p) = FileKey(i, r)}
<1>1. IsFiniteSet(1..q) /\ IsFiniteSet(1..r)
  BY FS_Interval
<1>2. A \subseteq 1..q /\ B \subseteq 1..r /\ A \subseteq B /\ r \in B /\ r \notin A
  OBVIOUS
<1> HIDE DEF A, B
<1>3. IsFiniteSet(A) /\ IsFiniteSet(B)
  BY <1>1, <1>2, FS_Subset
<1>4. Cardinality(A) \in Nat /\ Cardinality(B) \in Nat
  BY <1>3, FS_CardinalityType
<1>5. Cardinality(A) <= Cardinality(B) /\ Cardinality(A) # Cardinality(B)
  BY <1>2, <1>3, FS_Subset
<1> QED BY <1>4, <1>5 DEF Count, A, B

\* The place of a row by the row before it.
LEMMA CountSteps ==
    ASSUME KeysAreSorted, NEW i \in CmpInput, NEW r \in RowsOf(i)
    PROVE  /\ Count(i, r) \in Nat \ {0}
           /\ \/ Count(i, r) = 1
              \/ /\ r - 1 \in RowsOf(i) /\ FileKey(i, r-1) = FileKey(i, r)
                 /\ Count(i, r) = Count(i, r-1) + 1
<1>1. /\ RowsOf(i) = 1..Len(st.files[i].rows) /\ Len(st.files[i].rows) \in Nat
      /\ r \in Nat \ {0} /\ \A q \in 1..r : q \in RowsOf(i)
  BY DEF KeysAreSorted, RowsOf, IsList
<1>2. \A q \in RowsOf(i) : FileKey(i, q) \in Keys
  BY DEF KeysAreSorted
<1>3. \A p, q \in RowsOf(i) : p < q => ~KeyLess(FileKey(i, q), FileKey(i, p))
  BY DEF KeysAreSorted, InKeyOrder
<1> DEFINE B == {p \in 1..r : FileKey(i, p) = FileKey(i, r)}
<1>4. Count(i, r) = Cardinality(B)
  BY DEF Count
<1>5. CASE r > 1 /\ FileKey(i, r-1) = FileKey(i, r)
  <2> DEFINE A == {p \in 1..r-1 : FileKey(i, p) = FileKey(i, r-1)}
  <2>1. B = A \cup {r} /\ r \notin A /\ A \subseteq 1..r-1
    BY <1>1, <1>5
  <2>2. Count(i, r-1) = Cardinality(A)
    BY DEF Count
  <2> HIDE DEF A, B
  <2>3. IsFiniteSet(1..r-1)
    BY <1>1, FS_Interval
  <2>4. IsFiniteSet(A)
    BY <2>1, <2>3, FS_Subset
  <2>5. Cardinality(B) = Cardinality(A) + 1 /\ Cardinality(A) \in Nat
    BY <2>1, <2>4, FS_AddElement, FS_CardinalityType
  <2>6. r - 1 \in RowsOf(i)
    BY <1>1, <1>5
  <2> QED BY <1>4, <1>5, <2>2, <2>5, <2>6
<1>6. CASE ~(r > 1 /\ FileKey(i, r-1) = FileKey(i, r))
  <2>1. ASSUME NEW p \in 1..r-1 PROVE FileKey(i, p) # FileKey(i, r)
    <3>0. r > 1 /\ p \in RowsOf(i) /\ r - 1 \in RowsOf(i) /\ FileKey(i, r-1) # FileKey(i, r)
      BY <1>1, <1>6
    <3>1. CASE p = r - 1
      BY <3>0, <3>1
    <3>2. CASE p < r - 1
      <4> DEFINE n == Len(st.opts.keys)
                 x == FileKey(i, p)
                 y == FileKey(i, r-1)
                 z == FileKey(i, r)
      <4>1. ~KeyLess(y, x) /\ ~KeyLess(z, y)
        BY <1>1, <1>3, <3>0, <3>2
      <4>2. n \in Nat /\ x \in [1..n -> Int] /\ y \in [1..n -> Int] /\ z \in [1..n -> Int]
        BY <1>2, <3>0 DEF KeysAreSorted, Keys
      <4> HIDE DEF n, x, y, z
      <4>3. x = z => y = x
        BY <4>1, <4>2, KeysInOrder
      <4> QED BY <3>0, <4>3 DEF x, y, z
    <3> QED BY <1>1, <3>1, <3>2
  <2>2. B = {r}
    BY <1>1, <2>1
  <2>3. Cardinality(B) = 1
    BY <2>2, FS_Singleton
  <2> QED BY <1>4, <2>3
<1> QED
  BY <1>5, <1>6

\* The rows let go, when next are the first that were not, and those to come:
\* one to come has a later place in its key than any of that key that went.
Passed(next) ==
    \A i, j \in CmpInput : \A r \in 1..next[i]-1, q \in next[j]..Len(st.files[j].rows) :
        FileKey(i, r) = FileKey(j, q) => Count(i, r) < Count(j, q)

\* Where the inputs are.
AtRows ==
    /\ IsList(st.files)
    /\ \A i \in CmpInput : st.next[i] \in 1..Len(st.files[i].rows)+1

\* The rows that are loaded.
LEMMA LoadedRows ==
    ASSUME KeysAreSorted, AtRows, NEW i \in LoadedInputs
    PROVE  /\ i \in CmpInput /\ st.next[i] \in RowsOf(i) /\ st.next[i] \in Nat \ {0}
           /\ RowKey(i) = FileKey(i, st.next[i]) /\ RowKey(i) \in Keys
           /\ RowsOf(i) = 1..Len(st.files[i].rows) /\ Len(st.files[i].rows) \in Nat
<1>1. i \in CmpInput /\ st.next[i] <= Len(st.files[i].rows)
  BY DEF LoadedInputs
<1>2. RowsOf(i) = 1..Len(st.files[i].rows) /\ Len(st.files[i].rows) \in Nat
  BY <1>1 DEF KeysAreSorted, RowsOf, IsList
<1>3. st.next[i] \in RowsOf(i) /\ st.next[i] \in Nat \ {0}
  BY <1>1, <1>2 DEF AtRows
<1>4. RowKey(i) = FileKey(i, st.next[i])
  BY DEF RowKey, FileKey
<1> QED BY <1>1, <1>2, <1>3, <1>4 DEF KeysAreSorted

\* Of the rows loaded one is least.
LEMMA GroupIsSome ==
    ASSUME KeysAreSorted, AtRows, LoadedInputs # {}
    PROVE  Group # {} /\ Group \subseteq LoadedInputs
<1> DEFINE some(k) == {i \in LoadedInputs : i <= k}
           Least(k) == some(k) # {} =>
             \E i \in some(k) : \A j \in some(k) : ~KeyLess(RowKey(j), RowKey(i))
           wrong == {k \in Nat : ~Least(k)}
<1>0. CmpInput = 1..Len(st.files) /\ Len(st.files) \in Nat
  BY DEF AtRows, CmpInput, IsList
<1>1. \A i \in LoadedInputs : i \in Nat \ {0} /\ i <= Len(st.files)
  BY <1>0 DEF LoadedInputs
<1>2. \A i \in LoadedInputs : RowKey(i) \in Keys
  BY LoadedRows
<1>3. ASSUME NEW k \in Nat, Least(k) PROVE Least(k + 1)
  <2> SUFFICES ASSUME some(k + 1) # {}
               PROVE  \E i \in some(k + 1) : \A j \in some(k + 1) : ~KeyLess(RowKey(j), RowKey(i))
    OBVIOUS
  <2>1. CASE k + 1 \notin LoadedInputs
    <3>1. some(k + 1) = some(k)
      BY <1>0, <1>1, <2>1
    <3> QED BY <1>3, <3>1
  <2>2. CASE k + 1 \in LoadedInputs /\ some(k) = {}
    <3>1. some(k + 1) = {k + 1}
      BY <1>0, <1>1, <2>2
    <3>2. ~KeyLess(RowKey(k + 1), RowKey(k + 1))
      BY <1>2, <2>2, KeysCompare DEF Keys, KeysAreSorted
    <3> QED BY <3>1, <3>2
  <2>3. CASE k + 1 \in LoadedInputs /\ some(k) # {}
    <3>1. PICK i \in some(k) : \A j \in some(k) : ~KeyLess(RowKey(j), RowKey(i))
      BY <1>3, <2>3
    <3>2. some(k + 1) = some(k) \cup {k + 1}
      BY <1>0, <1>1, <2>3
    <3>3. i \in LoadedInputs
      OBVIOUS
    <3>4. CASE KeyLess(RowKey(k + 1), RowKey(i))
      <4>1. ASSUME NEW j \in some(k + 1) PROVE ~KeyLess(RowKey(j), RowKey(k + 1))
        <5>1. ~KeyLess(RowKey(k + 1), RowKey(k + 1)) /\ ~KeyLess(RowKey(i), RowKey(k + 1))
          BY <1>2, <2>3, <3>3, <3>4, KeysCompare DEF Keys, KeysAreSorted
        <5>2. ASSUME j \in some(k) PROVE ~KeyLess(RowKey(j), RowKey(k + 1))
          <6>1. ~KeyLess(RowKey(j), RowKey(i)) /\ RowKey(j) \in Keys
            BY <1>2, <3>1, <5>2
          <6> HIDE DEF some
          <6>2. RowKey(i) \in Keys /\ RowKey(k + 1) \in Keys
            BY <1>2, <2>3, <3>3
          <6> QED BY <5>1, <6>1, <6>2, KeysInOrder DEF Keys, KeysAreSorted
        <5> QED BY <3>2, <5>1, <5>2
      <4> QED BY <3>2, <4>1
    <3>5. CASE ~KeyLess(RowKey(k + 1), RowKey(i))
      BY <3>1, <3>2, <3>5
    <3> QED BY <3>4, <3>5
  <2> QED BY <2>1, <2>2, <2>3
<1>4. Least(0)
  BY <1>0, <1>1
<1> HIDE DEF Least
<1>5. wrong = {}
  <2> SUFFICES ASSUME wrong # {} PROVE FALSE
    OBVIOUS
  <2>0. wrong \subseteq Nat
    OBVIOUS
  <2>1. PICK k \in wrong : \A m \in wrong : k <= m
    BY <2>0, LeastNatural
  <2>2. k # 0 /\ k - 1 \in Nat
    BY <1>4
  <2>3. Least(k - 1)
    BY <2>1, <2>2
  <2> QED BY <1>3, <2>2, <2>3
<1>6. Least(Len(st.files))
  BY <1>0, <1>5
<1>7. some(Len(st.files)) = LoadedInputs
  BY <1>0, <1>1
<1>8. \E i \in LoadedInputs : \A j \in LoadedInputs : ~KeyLess(RowKey(j), RowKey(i))
  BY <1>6, <1>7 DEF Least
<1> QED
  BY <1>8 DEF Group

\* The rows of a group are the same row of their inputs.
LEMMA GroupIsOneRow ==
    ASSUME KeysAreSorted, AtRows, Passed(st.next), NEW i \in Group, NEW j \in Group
    PROVE  /\ FileKey(i, st.next[i]) = FileKey(j, st.next[j])
           /\ Count(i, st.next[i]) = Count(j, st.next[j])
           /\ Count(i, st.next[i]) \in Nat \ {0}
<1>1. i \in LoadedInputs /\ j \in LoadedInputs
  BY DEF Group
<1>2. ~KeyLess(RowKey(i), RowKey(j)) /\ ~KeyLess(RowKey(j), RowKey(i))
  BY <1>1 DEF Group
<1>3. /\ i \in CmpInput /\ st.next[i] \in RowsOf(i) /\ st.next[i] \in Nat \ {0}
      /\ RowKey(i) = FileKey(i, st.next[i]) /\ RowKey(i) \in Keys
      /\ RowsOf(i) = 1..Len(st.files[i].rows) /\ Len(st.files[i].rows) \in Nat
  BY <1>1, LoadedRows
<1>4. /\ j \in CmpInput /\ st.next[j] \in RowsOf(j) /\ st.next[j] \in Nat \ {0}
      /\ RowKey(j) = FileKey(j, st.next[j]) /\ RowKey(j) \in Keys
      /\ RowsOf(j) = 1..Len(st.files[j].rows) /\ Len(st.files[j].rows) \in Nat
  BY <1>1, LoadedRows
<1>5. RowKey(i) = RowKey(j)
  BY <1>2, <1>3, <1>4, KeysCompare DEF Keys, KeysAreSorted
<1>6. ASSUME NEW k \in CmpInput, NEW l \in CmpInput,
             st.next[k] \in RowsOf(k), st.next[l] \in RowsOf(l),
             st.next[k] \in Nat \ {0}, st.next[l] \in Nat \ {0},
             RowsOf(k) = 1..Len(st.files[k].rows), Len(st.files[k].rows) \in Nat,
             FileKey(k, st.next[k]) = FileKey(l, st.next[l])
      PROVE  Count(l, st.next[l]) <= Count(k, st.next[k])
  <2>1. Count(k, st.next[k]) \in Nat \ {0}
    BY <1>6, CountSteps
  <2>2. CASE Count(l, st.next[l]) = 1
    BY <2>1, <2>2
  <2>3. CASE /\ st.next[l] - 1 \in RowsOf(l) /\ FileKey(l, st.next[l] - 1) = FileKey(l, st.next[l])
             /\ Count(l, st.next[l]) = Count(l, st.next[l] - 1) + 1
    <3>1. RowsOf(l) = 1..Len(st.files[l].rows) /\ Len(st.files[l].rows) \in Nat
      BY DEF KeysAreSorted, RowsOf, IsList
    <3>2. /\ st.next[l] - 1 \in 1..st.next[l]-1
          /\ st.next[k] \in st.next[k]..Len(st.files[k].rows)
      BY <1>6, <2>3, <3>1
    <3>3. Count(l, st.next[l] - 1) < Count(k, st.next[k])
      BY <1>6, <2>3, <3>2 DEF Passed
    <3>4. Count(l, st.next[l] - 1) \in Nat \ {0}
      BY <2>3, CountSteps
    <3> QED BY <2>1, <2>3, <3>3, <3>4
  <2> QED BY <1>6, <2>2, <2>3, CountSteps
<1>7. /\ Count(j, st.next[j]) <= Count(i, st.next[i])
      /\ Count(i, st.next[i]) <= Count(j, st.next[j])
  BY <1>3, <1>4, <1>5, <1>6
<1>8. Count(i, st.next[i]) \in Nat \ {0} /\ Count(j, st.next[j]) \in Nat \ {0}
  BY <1>3, <1>4, CountSteps
<1> QED
  BY <1>3, <1>4, <1>5, <1>7, <1>8

\* Whoever has the group's key still to come is in the group.
LEMMA GroupHasTheKey ==
    ASSUME KeysAreSorted, AtRows, NEW i \in Group, NEW j \in CmpInput,
           NEW q \in st.next[j]..Len(st.files[j].rows), FileKey(j, q) = FileKey(i, st.next[i])
    PROVE  j \in Group
<1>1. RowsOf(j) = 1..Len(st.files[j].rows) /\ Len(st.files[j].rows) \in Nat
  BY DEF KeysAreSorted, RowsOf, IsList
<1>2. j \in LoadedInputs /\ q \in RowsOf(j)
  BY <1>1 DEF AtRows, LoadedInputs
<1>3. i \in LoadedInputs /\ \A l \in LoadedInputs : ~KeyLess(RowKey(l), RowKey(i))
  BY DEF Group
<1>4. /\ RowKey(i) = FileKey(i, st.next[i]) /\ RowKey(i) \in Keys
      /\ RowKey(j) = FileKey(j, st.next[j]) /\ RowKey(j) \in Keys
      /\ st.next[j] \in RowsOf(j) /\ st.next[j] \in Nat \ {0}
  BY <1>2, <1>3, LoadedRows
<1>5. ~KeyLess(FileKey(j, q), RowKey(j))
  <2>1. CASE q = st.next[j]
    BY <1>4, <2>1, KeysCompare DEF Keys, KeysAreSorted
  <2>2. CASE q # st.next[j]
    <3>1. st.next[j] < q
      BY <1>1, <1>4, <2>2
    <3> QED BY <1>2, <1>4, <3>1 DEF KeysAreSorted, InKeyOrder
  <2> QED BY <2>1, <2>2
<1>6. ~KeyLess(RowKey(i), RowKey(j)) /\ ~KeyLess(RowKey(j), RowKey(i))
  BY <1>2, <1>3, <1>4, <1>5
<1>7. RowKey(i) = RowKey(j)
  BY <1>4, <1>6, KeysCompare DEF Keys, KeysAreSorted
<1> QED
  BY <1>2, <1>3, <1>7 DEF Group

\* The inputs that have the group's row are those of the group.
LEMMA GroupMatches ==
    ASSUME KeysAreSorted, AtRows, Passed(st.next), NEW i \in Group
    PROVE  Matches(Identity(i, st.next[i])) = Group
<1>0. \A k, r : Identity(k, r) = <<FileKey(k, r), Count(k, r)>>
  BY DEF Identity, Count
<1>1. /\ i \in CmpInput /\ st.next[i] \in RowsOf(i) /\ st.next[i] \in Nat \ {0}
      /\ RowsOf(i) = 1..Len(st.files[i].rows) /\ Len(st.files[i].rows) \in Nat
  BY LoadedRows DEF Group
<1>2. ASSUME NEW j \in CmpInput, NEW r \in RowsOf(j), Identity(j, r) = Identity(i, st.next[i])
      PROVE  j \in Group
  <2>1. FileKey(j, r) = FileKey(i, st.next[i]) /\ Count(j, r) = Count(i, st.next[i])
    BY <1>0, <1>2
  <2>2. RowsOf(j) = 1..Len(st.files[j].rows) /\ Len(st.files[j].rows) \in Nat
        /\ st.next[j] \in Nat
    BY DEF KeysAreSorted, RowsOf, IsList, AtRows
  <2>3. CASE r < st.next[j]
    <3>1. r \in 1..st.next[j]-1 /\ st.next[i] \in st.next[i]..Len(st.files[i].rows)
      BY <1>1, <2>2, <2>3
    <3>2. Count(j, r) < Count(i, st.next[i])
      BY <1>1, <2>1, <3>1 DEF Passed
    <3>3. Count(i, st.next[i]) \in Nat
      BY <1>1, CountSteps
    <3> QED BY <2>1, <3>2, <3>3
  <2>4. CASE r >= st.next[j]
    <3>1. r \in st.next[j]..Len(st.files[j].rows)
      BY <2>2, <2>4
    <3> QED BY <2>1, <3>1, GroupHasTheKey
  <2> QED BY <2>2, <2>3, <2>4
<1>3. ASSUME NEW j \in Group
      PROVE  /\ j \in CmpInput /\ st.next[j] \in RowsOf(j)
             /\ Identity(j, st.next[j]) = Identity(i, st.next[i])
  <2>1. j \in CmpInput /\ st.next[j] \in RowsOf(j)
    BY LoadedRows DEF Group
  <2> QED BY <1>0, <2>1, GroupIsOneRow
<1> HIDE DEF Group
<1> QED
  BY <1>2, <1>3 DEF Matches

\* The rows let go when the group's are.
Onward == [k \in CmpInput |-> IF k \in Group THEN st.next[k] + 1 ELSE st.next[k]]

\* No row to come goes with one let go, after the group either.
LEMMA PassedOnward ==
    ASSUME KeysAreSorted, AtRows, Passed(st.next)
    PROVE  Passed(Onward)
<1> SUFFICES ASSUME NEW i \in CmpInput, NEW j \in CmpInput,
                    NEW r \in 1..Onward[i]-1, NEW q \in Onward[j]..Len(st.files[j].rows),
                    FileKey(i, r) = FileKey(j, q)
             PROVE  Count(i, r) < Count(j, q)
  BY DEF Passed
<1>1. /\ st.next[i] \in Nat \ {0} /\ st.next[j] \in Nat \ {0}
      /\ Len(st.files[j].rows) \in Nat
  BY DEF AtRows, KeysAreSorted, IsList
<1>2. /\ Onward[i] = IF i \in Group THEN st.next[i] + 1 ELSE st.next[i]
      /\ Onward[j] = IF j \in Group THEN st.next[j] + 1 ELSE st.next[j]
  BY DEF Onward
<1> HIDE DEF Onward
<1>3. q \in st.next[j]..Len(st.files[j].rows)
  BY <1>1, <1>2
<1>4. CASE r < st.next[i]
  <2>1. r \in 1..st.next[i]-1
    BY <1>1, <1>2, <1>4
  <2> QED BY <1>3, <2>1 DEF Passed
<1>5. CASE ~(r < st.next[i])
  <2>1. i \in Group /\ r = st.next[i]
    BY <1>1, <1>2, <1>5
  <2>2. j \in Group
    BY <1>3, <2>1, GroupHasTheKey
  <2>3. st.next[j] \in 1..q-1 /\ q \in Nat \ {0}
    BY <1>1, <1>2, <2>2
  <2>4. /\ FileKey(i, st.next[i]) = FileKey(j, st.next[j])
        /\ Count(i, st.next[i]) = Count(j, st.next[j])
    BY <2>1, <2>2, GroupIsOneRow
  <2>5. Count(j, st.next[j]) < Count(j, q)
    BY <2>1, <2>3, <2>4, CountGrows
  <2> QED BY <2>1, <2>4, <2>5
<1> QED
  BY <1>1, <1>4, <1>5

\* What a function makes of a finite set is finite.
LEMMA ImageIsFinite ==
    ASSUME NEW S, IsFiniteSet(S), NEW f
    PROVE  IsFiniteSet({f[x] : x \in S})
<1> DEFINE T == {f[x] : x \in S}
           g == [x \in S |-> f[x]]
<1>1. g \in Surjection(S, T)
  BY DEF Surjection
<1> HIDE DEF g, T
<1>2. IsFiniteSet(T)
  BY <1>1, FS_Surjection
<1> QED BY <1>2 DEF T

\* The identities of the rows let go.
Met(next) == UNION {{Identity(i, r) : r \in 1..next[i]-1} : i \in CmpInput}

\* The group's row is a new one.
LEMMA MetOnward ==
    ASSUME KeysAreSorted, AtRows, Passed(st.next), NEW i \in Group
    PROVE  /\ Met(Onward) = Met(st.next) \cup {Identity(i, st.next[i])}
           /\ Identity(i, st.next[i]) \notin Met(st.next)
           /\ IsFiniteSet(Met(st.next))
<1>0. \A k, r : Identity(k, r) = <<FileKey(k, r), Count(k, r)>>
  BY DEF Identity, Count
<1>1. /\ i \in CmpInput /\ st.next[i] \in RowsOf(i) /\ st.next[i] \in Nat \ {0}
      /\ RowsOf(i) = 1..Len(st.files[i].rows) /\ Len(st.files[i].rows) \in Nat
  BY LoadedRows DEF Group
<1>2. \A j \in CmpInput : st.next[j] \in Nat \ {0} /\ st.next[j] - 1 \in Int
  BY DEF AtRows
<1>3. ASSUME NEW j \in CmpInput, NEW r \in 1..st.next[j]-1,
             Identity(j, r) = Identity(i, st.next[i])
      PROVE  FALSE
  <2>1. FileKey(j, r) = FileKey(i, st.next[i]) /\ Count(j, r) = Count(i, st.next[i])
    BY <1>0, <1>3
  <2>2. st.next[i] \in st.next[i]..Len(st.files[i].rows)
    BY <1>1
  <2>3. Count(j, r) < Count(i, st.next[i])
    BY <1>1, <2>1, <2>2 DEF Passed
  <2>4. Count(i, st.next[i]) \in Nat
    BY <1>1, CountSteps
  <2> QED BY <2>1, <2>3, <2>4
<1>4. Identity(i, st.next[i]) \notin Met(st.next)
  BY <1>3 DEF Met
<1>5. IsFiniteSet(Met(st.next))
  <2> DEFINE of(j) == {Identity(j, r) : r \in 1..st.next[j]-1}
             all == {of(j) : j \in CmpInput}
  <2>1. ASSUME NEW j \in CmpInput PROVE IsFiniteSet(of(j))
    <3>1. IsFiniteSet(1..st.next[j]-1)
      BY <1>2, FS_Interval
    <3> DEFINE f == [r \in 1..st.next[j]-1 |-> Identity(j, r)]
    <3>2. IsFiniteSet({f[r] : r \in 1..st.next[j]-1})
      BY <3>1, ImageIsFinite
    <3>3. of(j) = {f[r] : r \in 1..st.next[j]-1}
      OBVIOUS
    <3> QED BY <3>2, <3>3
  <2>2. IsFiniteSet(CmpInput)
    <3>1. CmpInput = 1..Len(st.files) /\ Len(st.files) \in Nat
      BY DEF AtRows, CmpInput, IsList
    <3> QED BY <3>1, FS_Interval
  <2> HIDE DEF of
  <2>3. IsFiniteSet(all)
    <3> DEFINE f == [j \in CmpInput |-> of(j)]
    <3>1. IsFiniteSet({f[j] : j \in CmpInput})
      BY <2>2, ImageIsFinite
    <3>2. all = {f[j] : j \in CmpInput}
      OBVIOUS
    <3> QED BY <3>1, <3>2
  <2>4. \A t \in all : IsFiniteSet(t)
    BY <2>1
  <2>5. Met(st.next) = UNION all
    BY DEF Met, of
  <2> QED BY <2>3, <2>4, <2>5, FS_UNION
<1>6. ASSUME NEW j \in CmpInput
      PROVE  /\ Onward[j] = IF j \in Group THEN st.next[j] + 1 ELSE st.next[j]
             /\ j \in Group => Identity(j, st.next[j]) = Identity(i, st.next[i])
  BY <1>0, GroupIsOneRow DEF Onward
<1>7. ASSUME NEW x \in Met(Onward) PROVE x \in Met(st.next) \cup {Identity(i, st.next[i])}
  <2>1. PICK j \in CmpInput : \E r \in 1..Onward[j]-1 : x = Identity(j, r)
    BY DEF Met
  <2>2. PICK r \in 1..Onward[j]-1 : x = Identity(j, r)
    BY <2>1
  <2>3. CASE r \in 1..st.next[j]-1
    BY <2>2, <2>3 DEF Met
  <2>4. CASE r \notin 1..st.next[j]-1
    <3>1. j \in Group /\ r = st.next[j]
      BY <1>2, <1>6, <2>4
    <3> QED BY <1>6, <2>2, <3>1
  <2> QED BY <2>3, <2>4
<1>8. ASSUME NEW x \in Met(st.next) PROVE x \in Met(Onward)
  <2>1. PICK j \in CmpInput : \E r \in 1..st.next[j]-1 : x = Identity(j, r)
    BY DEF Met
  <2>2. PICK r \in 1..st.next[j]-1 : x = Identity(j, r)
    BY <2>1
  <2>3. r \in 1..Onward[j]-1
    BY <1>2, <1>6
  <2> QED BY <2>2, <2>3 DEF Met
<1>9. Identity(i, st.next[i]) \in Met(Onward)
  <2>1. st.next[i] \in 1..Onward[i]-1
    BY <1>1, <1>6
  <2> QED BY <1>1, <2>1 DEF Met
<1> QED
  BY <1>4, <1>5, <1>7, <1>8, <1>9

\* The lines of a group up to an output column, by those up to the one before.
MissingLine(g) == Tuple(g, "missing", 0, [i \in CmpInput \ g |-> "Missing"])
DiffLine(g, o) == Tuple(g, "diff", o, [i \in g |-> CmpCell(i, o)])
LinesStep(g, h, o) ==
    IF o = 0 THEN IF g = CmpInput THEN <<>> ELSE <<MissingLine(g)>>
    ELSE IF ~IsKeyColumn(o) /\ Differs(g, o) THEN Append(h[o-1], DiffLine(g, o)) ELSE h[o-1]

\* The lines up to every column are defined.
LEMMA LinesDefined ==
    ASSUME NEW g, NEW size \in Nat
    PROVE  \E f : f = [o \in 0..size |-> LinesStep(g, f, o)]
<1> DEFINE Upto(n) == \E f : f = [o \in 0..n |-> LinesStep(g, f, o)]
           none == {n \in Nat : ~Upto(n)}
<1>1. Upto(0)
  <2> DEFINE f == [o \in 0..0 |-> IF g = CmpInput THEN <<>> ELSE <<MissingLine(g)>>]
  <2>1. \A o \in 0..0 : LinesStep(g, f, o) = IF g = CmpInput THEN <<>> ELSE <<MissingLine(g)>>
    BY DEF LinesStep
  <2>2. f = [o \in 0..0 |-> LinesStep(g, f, o)]
    BY <2>1, Zenon
  <2> QED BY <2>2
<1>2. ASSUME NEW n \in Nat, Upto(n) PROVE Upto(n + 1)
  <2>1. PICK f : f = [o \in 0..n |-> LinesStep(g, f, o)]
    BY <1>2
  <2> DEFINE h == [o \in 0..n+1 |-> IF o = n + 1 THEN LinesStep(g, f, o) ELSE f[o]]
  <2>2. \A o \in 0..n : h[o] = f[o]
    OBVIOUS
  <2>3. \A o \in 0..n : f[o] = LinesStep(g, f, o)
    BY <2>1
  <2>4. h = [o \in 0..n+1 |-> LinesStep(g, f, o)]
    BY <2>3
  <2> HIDE DEF h
  <2>5. ASSUME NEW o \in 0..n+1 PROVE LinesStep(g, h, o) = LinesStep(g, f, o)
    <3>1. o # 0 => h[o-1] = f[o-1]
      BY <2>2
    <3> QED BY <3>1, Zenon DEF LinesStep
  <2>6. h = [o \in 0..n+1 |-> LinesStep(g, h, o)]
    BY <2>4, <2>5, Zenon
  <2> QED BY <2>6
<1> HIDE DEF Upto
<1>3. none = {}
  <2> SUFFICES ASSUME none # {} PROVE FALSE
    OBVIOUS
  <2>0. none \subseteq Nat
    OBVIOUS
  <2>1. PICK n \in none : \A m \in none : n <= m
    BY <2>0, LeastNatural
  <2>2. n # 0 /\ n - 1 \in Nat
    BY <1>1
  <2>3. Upto(n - 1)
    BY <2>1, <2>2
  <2> QED BY <1>2, <2>2, <2>3
<1> QED BY <1>3 DEF Upto

\* What every line of a group shows.
IsLineOf(g, line) ==
    /\ line.rows = [i \in g |-> st.next[i]] /\ line.added = AddedCell
    /\ line.kind \in {"missing", "diff"}
    /\ line.kind = "missing" => DOMAIN line.vals = CmpInput \ g
Shows(g, o) == ~IsKeyColumn(o) /\ Differs(g, o)
LinesUpTo(g, s, o) ==
    /\ IsSequence(s)
    /\ \A k \in DOMAIN s : IsLineOf(g, s[k])
    /\ {k \in DOMAIN s : s[k].kind = "missing"} = IF g = CmpInput THEN {} ELSE {1}
    /\ Cardinality({k \in DOMAIN s : s[k].kind = "diff"}) = Cardinality({p \in 1..o : Shows(g, p)})

\* One line more.
LEMMA OneMoreLine ==
    ASSUME NEW g, NEW s, NEW o \in Nat \ {0}, LinesUpTo(g, s, o - 1), Shows(g, o)
    PROVE  LinesUpTo(g, Append(s, DiffLine(g, o)), o)
<1> DEFINE d == DiffLine(g, o)
           t == Append(s, d)
<1>1. IsLineOf(g, d) /\ d.kind = "diff"
  BY DEF DiffLine, Tuple, IsLineOf
<1>2. /\ IsSequence(t) /\ Len(t) = Len(s) + 1 /\ t[Len(s) + 1] = d
      /\ \A k \in DOMAIN s : t[k] = s[k]
      /\ DOMAIN s = 1..Len(s) /\ DOMAIN t = 1..(Len(s) + 1) /\ Len(s) \in Nat
  BY AppendIsSequence DEF LinesUpTo
<1> HIDE DEF d, t
<1>3. DOMAIN t = DOMAIN s \cup {Len(s) + 1} /\ Len(s) + 1 \notin DOMAIN s
  BY <1>2
<1>4. \A k \in DOMAIN t : IsLineOf(g, t[k])
  BY <1>1, <1>2, <1>3 DEF LinesUpTo
<1>5. {k \in DOMAIN t : t[k].kind = "missing"} = {k \in DOMAIN s : s[k].kind = "missing"}
  BY <1>1, <1>2, <1>3
<1> DEFINE A == {k \in DOMAIN s : s[k].kind = "diff"}
           B == {k \in DOMAIN t : t[k].kind = "diff"}
           P == {p \in 1..o-1 : Shows(g, p)}
           Q == {p \in 1..o : Shows(g, p)}
<1>6. B = A \cup {Len(s) + 1} /\ Len(s) + 1 \notin A /\ A \subseteq 1..Len(s)
  BY <1>1, <1>2, <1>3
<1>7. Q = P \cup {o} /\ o \notin P /\ P \subseteq 1..o-1
  OBVIOUS
<1>8. Cardinality(A) = Cardinality(P)
  BY DEF LinesUpTo
<1> HIDE DEF A, B, P, Q
<1>9. IsFiniteSet(1..Len(s)) /\ IsFiniteSet(1..o-1)
  BY <1>2, FS_Interval
<1>10. IsFiniteSet(A) /\ IsFiniteSet(P)
  BY <1>6, <1>7, <1>9, FS_Subset
<1>11. Cardinality(B) = Cardinality(A) + 1 /\ Cardinality(Q) = Cardinality(P) + 1
  BY <1>6, <1>7, <1>10, FS_AddElement
<1>12. Cardinality(B) = Cardinality(Q)
  BY <1>8, <1>11
<1> QED
  BY <1>2, <1>4, <1>5, <1>12 DEF LinesUpTo, B, Q, d, t

\* No line more.
LEMMA NoMoreLine ==
    ASSUME NEW g, NEW s, NEW o \in Nat \ {0}, LinesUpTo(g, s, o - 1), ~Shows(g, o)
    PROVE  LinesUpTo(g, s, o)
<1>1. {p \in 1..o : Shows(g, p)} = {p \in 1..o-1 : Shows(g, p)}
  OBVIOUS
<1> QED BY <1>1 DEF LinesUpTo

\* The line that says who misses the row comes first, if any.
LEMMA FirstLine ==
    ASSUME NEW g
    PROVE  LinesUpTo(g, IF g = CmpInput THEN <<>> ELSE <<MissingLine(g)>>, 0)
<1>1. 1..0 = {}
  OBVIOUS
<1>2. CASE g = CmpInput
  BY <1>1, <1>2, EmptyIsSequence DEF LinesUpTo
<1>3. CASE g # CmpInput
  <2> DEFINE d == MissingLine(g)
  <2>1. IsLineOf(g, d) /\ d.kind = "missing"
    BY DEF MissingLine, Tuple, IsLineOf
  <2> HIDE DEF d
  <2>2. /\ IsSequence(Append(<<>>, d)) /\ Append(<<>>, d) = <<d>>
        /\ DOMAIN <<d>> = {1} /\ <<d>>[1] = d
    <3>1. IsSequence(Append(<<>>, d))
      BY EmptyIsSequence, AppendIsSequence
    <3>2. Append(<<>>, d) = <<d>> /\ DOMAIN <<d>> = {1} /\ <<d>>[1] = d
      OBVIOUS
    <3> QED BY <3>1, <3>2
  <2>3. {k \in DOMAIN <<d>> : <<d>>[k].kind = "missing"} = {1}
        /\ {k \in DOMAIN <<d>> : <<d>>[k].kind = "diff"} = {}
    BY <2>1, <2>2
  <2>4. {p \in 1..0 : Shows(g, p)} = {}
    BY <1>1
  <2>5. LinesUpTo(g, <<d>>, 0)
    BY <1>3, <2>1, <2>2, <2>3, <2>4 DEF LinesUpTo
  <2> QED BY <1>3, <2>5 DEF d
<1> QED BY <1>2, <1>3

\* The lines of a group.
LEMMA LinesOfGroup ==
    ASSUME NEW g, IsList(st.colnames)
    PROVE  LinesUpTo(g, PrintRow(g), Len(st.colnames))
<1>1. PICK f : /\ f = [o \in 0..Len(st.colnames) |-> LinesStep(g, f, o)]
               /\ PrintRow(g) = f[Len(st.colnames)]
  <2>1. PrintRow(g) = (CHOOSE f : f = [o \in 0..Len(st.colnames) |->
                                         LinesStep(g, f, o)])[Len(st.colnames)]
    BY Zenon DEF PrintRow, LinesStep, MissingLine, DiffLine
  <2>2. Len(st.colnames) \in Nat
    BY DEF IsList
  <2> QED BY <2>1, <2>2, LinesDefined
<1>0. Len(st.colnames) \in Nat
  BY DEF IsList
<1> DEFINE wrong == {o \in 0..Len(st.colnames) : ~LinesUpTo(g, f[o], o)}
<1>2. wrong = {}
  <2> SUFFICES ASSUME wrong # {} PROVE FALSE
    OBVIOUS
  <2>0. wrong \subseteq Nat
    BY <1>0
  <2>1. PICK o \in wrong : \A m \in wrong : o <= m
    BY <2>0, LeastNatural
  <2>2. f[o] = LinesStep(g, f, o) /\ o \in 0..Len(st.colnames)
    BY <1>1
  <2>3. CASE o = 0
    BY <2>1, <2>2, <2>3, FirstLine DEF LinesStep
  <2>4. CASE o # 0
    <3>1. LinesUpTo(g, f[o-1], o - 1) /\ o \in Nat \ {0}
      BY <1>0, <2>1, <2>2, <2>4
    <3>2. f[o] = IF Shows(g, o) THEN Append(f[o-1], DiffLine(g, o)) ELSE f[o-1]
      BY <2>2, <2>4 DEF LinesStep, Shows
    <3>3. LinesUpTo(g, f[o], o)
      BY <3>1, <3>2, OneMoreLine, NoMoreLine
    <3> QED BY <2>1, <3>3
  <2> QED BY <2>3, <2>4
<1>3. LinesUpTo(g, f[Len(st.colnames)], Len(st.colnames))
  BY <1>0, <1>2
<1> QED BY <1>1, <1>3

\* A line is about one identity, and about all the inputs that have it.
OfOneRow(line) ==
    /\ \E i \in DOMAIN line.rows :
         LET id == Identity(i, line.rows[i])
         IN  /\ \A j \in DOMAIN line.rows : Identity(j, line.rows[j]) = id
             /\ DOMAIN line.rows = Matches(id)
    /\ AddedIsOfTheRow(line)
    /\ line.kind = "missing" => DOMAIN line.vals = CmpInput \ DOMAIN line.rows

\* The additional column is of the group's row.
LEMMA AddedOfTheGroup ==
    ASSUME AtRows, NEW g, g \subseteq LoadedInputs, NEW line, IsLineOf(g, line),
           \A i \in CmpInput : IsList(st.files[i].header)
    PROVE  AddedIsOfTheRow(line)
<1> SUFFICES ASSUME AddedCell.from \in g
             PROVE  LET f == st.files[AddedCell.from]
                    IN  \E c \in DOMAIN f.header :
                          /\ f.header[c] = st.opts.add
                          /\ AddedCell.val = CmpRow(f, st.next[AddedCell.from], c)
  BY DEF AddedIsOfTheRow, IsLineOf
<1> DEFINE source == {i \in CmpInput : st.opts.add \in Range(st.files[i].header)}
           i == Min(source)
           which == {c \in DOMAIN st.files[i].header : st.files[i].header[c] = st.opts.add}
<1>1. \A j \in CmpInput : j \in Nat \ {0}
  BY DEF AtRows, CmpInput, IsList
<1>2. AddedCell.from # 0 /\ AddedCell.from \in LoadedInputs
  BY <1>1 DEF LoadedInputs
<1>3. AddedCell = IF st.opts.add = "" \/ source = {} THEN [from |-> 0, val |-> 0]
                  ELSE IF i \notin LoadedInputs THEN [from |-> i, val |-> 0]
                  ELSE [from |-> i, val |-> CmpRow(st.files[i], st.next[i], Min(which))]
  BY DEF AddedCell
<1>4. source # {} /\ source \subseteq Nat /\ source \subseteq CmpInput
  BY <1>1, <1>2, <1>3
<1>5. i \in source
  BY <1>4, MinIsLeast
<1>6. i \in CmpInput /\ st.opts.add \in Range(st.files[i].header)
  BY <1>5
<1> HIDE DEF source, i, which
<1>7. AddedCell = [from |-> i, val |-> CmpRow(st.files[i], st.next[i], Min(which))]
  BY <1>2, <1>3
<1>8. DOMAIN st.files[i].header \subseteq Nat
  BY <1>6 DEF IsList
<1>9. which # {} /\ which \subseteq Nat
  BY <1>6, <1>8 DEF Range, which
<1>10. Min(which) \in which
  BY <1>9, MinIsLeast
<1> QED BY <1>7, <1>10 DEF which

\* Every line of the group.
LEMMA LineOfTheGroup ==
    ASSUME KeysAreSorted, AtRows, Passed(st.next), LoadedInputs # {}, NEW line,
           IsLineOf(Group, line), \A i \in CmpInput : IsList(st.files[i].header)
    PROVE  OfOneRow(line)
<1>1. PICK i \in Group : TRUE
  BY GroupIsSome
<1>2. Group \subseteq LoadedInputs
  BY GroupIsSome
<1>3. \A k, r : Identity(k, r) = <<FileKey(k, r), Count(k, r)>>
  BY DEF Identity, Count
<1>4. \A j \in Group : Identity(j, st.next[j]) = Identity(i, st.next[i])
  BY <1>1, <1>3, GroupIsOneRow
<1>5. Matches(Identity(i, st.next[i])) = Group
  BY <1>1, GroupMatches
<1>6. AddedIsOfTheRow(line)
  BY <1>2, AddedOfTheGroup
<1>7. DOMAIN line.rows = Group /\ \A j \in Group : line.rows[j] = st.next[j]
  BY DEF IsLineOf
<1>8. line.kind = "missing" => DOMAIN line.vals = CmpInput \ Group
  BY DEF IsLineOf
<1> HIDE DEF Group
<1> QED BY <1>1, <1>4, <1>5, <1>6, <1>7, <1>8 DEF OfOneRow

\* What KeyColumns adds for a key, and that it gives one column for each key.
KeyStep(keys, header, h, k) ==
    IF k = 0 THEN <<>>
    ELSE LET free == {c \in DOMAIN header : header[c] = keys[k] /\ c \notin Range(h[k-1])}
         IN  Append(h[k-1], IF free = {} THEN 0 ELSE Min(free))

\* Every key gets one column, or none (0).
LEMMA KeyColumnsAreOfTheKeys ==
    ASSUME NEW keys, IsList(keys), NEW header
    PROVE  IsSequence(KeyColumns(keys, header)) /\ Len(KeyColumns(keys, header)) = Len(keys)
<1> DEFINE n == Len(keys)
           W == {m \in Nat : \E f : f = [k \in 0..m |-> KeyStep(keys, header, f, k)]}
<1>0. n \in Nat
  BY DEF IsList
<1>1. 0 \in W
  <2> DEFINE f == [k \in 0..0 |-> <<>>]
  <2>1. \A k \in 0..0 : KeyStep(keys, header, f, k) = <<>>
    BY DEF KeyStep
  <2>2. f = [k \in 0..0 |-> KeyStep(keys, header, f, k)]
    BY <2>1, Zenon
  <2> QED BY <2>2
<1>2. ASSUME NEW m \in 1..n, m - 1 \in W PROVE m \in W
  <2>1. PICK f : f = [k \in 0..m-1 |-> KeyStep(keys, header, f, k)]
    BY <1>2
  <2> DEFINE h == [k \in 0..m |-> IF k = m THEN KeyStep(keys, header, f, k) ELSE f[k]]
  <2>2. \A k \in 0..m-1 : h[k] = f[k]
    OBVIOUS
  <2>3. \A k \in 0..m-1 : f[k] = KeyStep(keys, header, f, k)
    BY <2>1
  <2>4. h = [k \in 0..m |-> KeyStep(keys, header, f, k)]
    BY <2>3
  <2> HIDE DEF h
  <2>5. ASSUME NEW k \in 0..m PROVE KeyStep(keys, header, h, k) = KeyStep(keys, header, f, k)
    <3>1. k # 0 => h[k-1] = f[k-1]
      BY <2>2
    <3> QED BY <3>1, Zenon DEF KeyStep
  <2>6. h = [k \in 0..m |-> KeyStep(keys, header, h, k)]
    BY <2>4, <2>5, Zenon
  <2> QED BY <2>6
<1>3. n \in W
  <2> HIDE DEF W
  <2>1. 0..n \subseteq W
    BY <1>0, <1>1, <1>2, UpTo
  <2> QED BY <1>0, <2>1
<1>4. PICK f : f = [k \in 0..n |-> KeyStep(keys, header, f, k)] /\ KeyColumns(keys, header) = f[n]
  <2>1. KeyColumns(keys, header) = (CHOOSE f : f = [k \in 0..n |-> KeyStep(keys, header, f, k)])[n]
    BY Zenon DEF KeyColumns, KeyStep
  <2> QED BY <1>3, <2>1
<1> DEFINE V == {m \in 0..n : IsSequence(f[m]) /\ Len(f[m]) = m}
<1>5. 0 \in V
  <2>1. f[0] = <<>>
    BY <1>0, <1>4 DEF KeyStep
  <2> QED BY <1>0, <2>1, EmptyIsSequence
<1>6. ASSUME NEW m \in 1..n, m - 1 \in V PROVE m \in V
  <2>0. m \in 0..n /\ m # 0 /\ m - 1 \in 0..n /\ (m - 1) + 1 = m
    BY <1>0
  <2>1. f[m] = KeyStep(keys, header, f, m)
    BY <1>4, <2>0
  <2>2. PICK c : f[m] = Append(f[m-1], c)
    BY <2>0, <2>1, Zenon DEF KeyStep
  <2>3. IsSequence(f[m-1]) /\ Len(f[m-1]) = m - 1
    BY <1>6
  <2>4. IsSequence(f[m]) /\ Len(f[m]) = m
    BY <2>0, <2>2, <2>3, AppendIsSequence
  <2> QED BY <2>0, <2>4
<1>7. n \in V
  <2> HIDE DEF V
  <2>1. 0..n \subseteq V
    BY <1>0, <1>5, <1>6, UpTo
  <2> QED BY <1>0, <2>1
<1> QED BY <1>4, <1>7

\* No name twice.
Distinct(s) == \A j, k \in DOMAIN s : s[j] = s[k] => j = k

\* A name that is not there yet can be added.
LEMMA NewNameIsDistinct ==
    ASSUME NEW s, IsSequence(s), Distinct(s), NEW e, e \notin Range(s)
    PROVE  IsSequence(Append(s, e)) /\ Distinct(Append(s, e))
<1>1. /\ IsSequence(Append(s, e)) /\ Append(s, e)[Len(s) + 1] = e
      /\ \A k \in DOMAIN s : Append(s, e)[k] = s[k]
      /\ DOMAIN s = 1..Len(s) /\ DOMAIN Append(s, e) = 1..(Len(s) + 1) /\ Len(s) \in Nat
  BY AppendIsSequence
<1> DEFINE t == Append(s, e)
<1> HIDE DEF t
<1>2. DOMAIN t = DOMAIN s \cup {Len(s) + 1}
  BY <1>1 DEF t
<1>3. \A k \in DOMAIN s : t[k] # e
  BY <1>1 DEF t, Range
<1>4. Distinct(t)
  BY <1>1, <1>2, <1>3 DEF t, Distinct
<1> QED BY <1>1, <1>4 DEF t

\* The names of the headers up to one column of one input.
NamesStep(h, before, f, c) ==
    IF c = 0 THEN before
    ELSE IF Instance(h, c) \in Range(f[c-1]) THEN f[c-1]
    ELSE Append(f[c-1], Instance(h, c))
NamesUpTo(h, before) ==
    LET upTo[c \in 0..Len(h)] ==
          IF c = 0 THEN before
          ELSE IF Instance(h, c) \in Range(upTo[c-1]) THEN upTo[c-1]
          ELSE Append(upTo[c-1], Instance(h, c))
    IN  upTo[Len(h)]

\* What the columns of one more input add to distinct names is distinct.
LEMMA NamesAreDistinct ==
    ASSUME NEW h, IsList(h), NEW before, IsSequence(before), Distinct(before)
    PROVE  IsSequence(NamesUpTo(h, before)) /\ Distinct(NamesUpTo(h, before))
<1> DEFINE n == Len(h)
           W == {m \in Nat : \E f : f = [c \in 0..m |-> NamesStep(h, before, f, c)]}
<1>0. n \in Nat
  BY DEF IsList
<1>1. 0 \in W
  <2> DEFINE f == [c \in 0..0 |-> before]
  <2>1. \A c \in 0..0 : NamesStep(h, before, f, c) = before
    BY DEF NamesStep
  <2>2. f = [c \in 0..0 |-> NamesStep(h, before, f, c)]
    BY <2>1, Zenon
  <2> QED BY <2>2
<1>2. ASSUME NEW m \in 1..n, m - 1 \in W PROVE m \in W
  <2>1. PICK f : f = [c \in 0..m-1 |-> NamesStep(h, before, f, c)]
    BY <1>2
  <2> DEFINE g == [c \in 0..m |-> IF c = m THEN NamesStep(h, before, f, c) ELSE f[c]]
  <2>2. \A c \in 0..m-1 : g[c] = f[c]
    OBVIOUS
  <2>3. \A c \in 0..m-1 : f[c] = NamesStep(h, before, f, c)
    BY <2>1
  <2>4. g = [c \in 0..m |-> NamesStep(h, before, f, c)]
    BY <2>3
  <2> HIDE DEF g
  <2>5. ASSUME NEW c \in 0..m PROVE NamesStep(h, before, g, c) = NamesStep(h, before, f, c)
    <3>1. c # 0 => g[c-1] = f[c-1]
      BY <2>2
    <3> QED BY <3>1, Zenon DEF NamesStep
  <2>6. g = [c \in 0..m |-> NamesStep(h, before, g, c)]
    BY <2>4, <2>5, Zenon
  <2> QED BY <2>6
<1>3. n \in W
  <2> HIDE DEF W
  <2>1. 0..n \subseteq W
    BY <1>0, <1>1, <1>2, UpTo
  <2> QED BY <1>0, <2>1
<1>4. PICK f : f = [c \in 0..n |-> NamesStep(h, before, f, c)] /\ NamesUpTo(h, before) = f[n]
  <2>1. NamesUpTo(h, before) = (CHOOSE f : f = [c \in 0..n |-> NamesStep(h, before, f, c)])[n]
    BY Zenon DEF NamesUpTo, NamesStep
  <2> QED BY <1>3, <2>1
<1> DEFINE V == {m \in 0..n : IsSequence(f[m]) /\ Distinct(f[m])}
<1>5. 0 \in V
  <2>1. f[0] = before
    BY <1>0, <1>4 DEF NamesStep
  <2> QED BY <1>0, <2>1
<1>6. ASSUME NEW m \in 1..n, m - 1 \in V PROVE m \in V
  <2>0. m \in 0..n /\ m # 0
    BY <1>0
  <2>1. f[m] = NamesStep(h, before, f, m)
    BY <1>4, <2>0
  <2>2. \/ f[m] = f[m-1]
        \/ f[m] = Append(f[m-1], Instance(h, m)) /\ Instance(h, m) \notin Range(f[m-1])
    BY <2>0, <2>1, Zenon DEF NamesStep
  <2>3. IsSequence(f[m-1]) /\ Distinct(f[m-1])
    BY <1>6
  <2>4. CASE f[m] = f[m-1]
    BY <2>0, <2>3, <2>4
  <2>5. CASE f[m] = Append(f[m-1], Instance(h, m)) /\ Instance(h, m) \notin Range(f[m-1])
    <3>1. IsSequence(f[m]) /\ Distinct(f[m])
      BY <2>3, <2>5, NewNameIsDistinct
    <3> QED BY <2>0, <3>1
  <2> QED BY <2>2, <2>4, <2>5
<1>7. n \in V
  <2> HIDE DEF V
  <2>1. 0..n \subseteq V
    BY <1>0, <1>5, <1>6, UpTo
  <2> QED BY <1>0, <2>1
<1> QED BY <1>4, <1>7

\* The output columns up to those of one input.
UnionStep(files, f, i) == IF i = 0 THEN <<>> ELSE NamesUpTo(files[i].header, f[i-1])

\* The output columns are distinct (zsv_compare_unique_colname_add_if_not_found).
LEMMA UnionIsDistinct ==
    ASSUME NEW files, IsList(files), \A i \in DOMAIN files : IsList(files[i].header)
    PROVE  IsSequence(UnionColumns(files)) /\ Distinct(UnionColumns(files))
<1> DEFINE n == Len(files)
           W == {m \in Nat : \E f : f = [i \in 0..m |-> UnionStep(files, f, i)]}
<1>0. n \in Nat /\ \A i \in 1..n : IsList(files[i].header)
  BY DEF IsList
<1>1. 0 \in W
  <2> DEFINE f == [i \in 0..0 |-> <<>>]
  <2>1. \A i \in 0..0 : UnionStep(files, f, i) = <<>>
    BY DEF UnionStep
  <2>2. f = [i \in 0..0 |-> UnionStep(files, f, i)]
    BY <2>1, Zenon
  <2> QED BY <2>2
<1>2. ASSUME NEW m \in 1..n, m - 1 \in W PROVE m \in W
  <2>1. PICK f : f = [i \in 0..m-1 |-> UnionStep(files, f, i)]
    BY <1>2
  <2> DEFINE g == [i \in 0..m |-> IF i = m THEN UnionStep(files, f, i) ELSE f[i]]
  <2>2. \A i \in 0..m-1 : g[i] = f[i]
    OBVIOUS
  <2>3. \A i \in 0..m-1 : f[i] = UnionStep(files, f, i)
    BY <2>1
  <2>4. g = [i \in 0..m |-> UnionStep(files, f, i)]
    BY <2>3
  <2> HIDE DEF g
  <2>5. ASSUME NEW i \in 0..m PROVE UnionStep(files, g, i) = UnionStep(files, f, i)
    <3>1. i # 0 => g[i-1] = f[i-1]
      BY <2>2
    <3> QED BY <3>1, Zenon DEF UnionStep
  <2>6. g = [i \in 0..m |-> UnionStep(files, g, i)]
    BY <2>4, <2>5, Zenon
  <2> QED BY <2>6
<1>3. n \in W
  <2> HIDE DEF W
  <2>1. 0..n \subseteq W
    BY <1>0, <1>1, <1>2, UpTo
  <2> QED BY <1>0, <2>1
<1>4. PICK f : f = [i \in 0..n |-> UnionStep(files, f, i)] /\ UnionColumns(files) = f[n]
  <2>1. UnionColumns(files) = (CHOOSE f : f = [i \in 0..n |-> UnionStep(files, f, i)])[n]
    BY Zenon DEF UnionColumns, UnionStep, NamesUpTo
  <2> QED BY <1>3, <2>1
<1> DEFINE V == {m \in 0..n : IsSequence(f[m]) /\ Distinct(f[m])}
<1>5. 0 \in V
  <2>1. f[0] = <<>>
    BY <1>0, <1>4 DEF UnionStep
  <2>2. Distinct(<<>>)
    BY DEF Distinct
  <2> QED BY <1>0, <2>1, <2>2, EmptyIsSequence
<1>6. ASSUME NEW m \in 1..n, m - 1 \in V PROVE m \in V
  <2>0. m \in 0..n /\ m # 0
    BY <1>0
  <2>1. f[m] = NamesUpTo(files[m].header, f[m-1])
    BY <1>4, <2>0 DEF UnionStep
  <2>2. IsSequence(f[m-1]) /\ Distinct(f[m-1])
    BY <1>6
  <2>3. IsSequence(f[m]) /\ Distinct(f[m])
    BY <1>0, <2>1, <2>2, NamesAreDistinct
  <2> QED BY <2>0, <2>3
<1>7. n \in V
  <2> HIDE DEF V
  <2>1. 0..n \subseteq V
    BY <1>0, <1>5, <1>6, UpTo
  <2> QED BY <1>0, <2>1
<1> QED BY <1>4, <1>7

\* An input of cells.
CellFile(f) ==
    /\ IsList(f.header) /\ IsList(f.rows)
    /\ \A r \in DOMAIN f.rows :
         IsList(f.rows[r]) /\ \A c \in DOMAIN f.rows[r] : f.rows[r][c] \in Nat

\* The key that sqlite sorts a row by, which row comes before which, and the place of a row.
SqlKey(keys, f, r) ==
    LET cols == KeyColumns(keys, f.header)
    IN  [k \in DOMAIN cols |-> IF cols[k] \in DOMAIN f.rows[r] THEN f.rows[r][cols[k]] ELSE 0]
SqlBefore(keys, f, q, r) ==
    \/ KeyLess(SqlKey(keys, f, q), SqlKey(keys, f, r))
    \/ q < r /\ ~KeyLess(SqlKey(keys, f, r), SqlKey(keys, f, q))
SqlPlace(keys, f, r) == Cardinality({q \in DOMAIN f.rows : SqlBefore(keys, f, q, r)}) + 1

\* Of two rows one comes before the other, and what comes before is ordered.
LEMMA SqlOrdersRows ==
    ASSUME NEW keys, IsList(keys), NEW f, CellFile(f),
           NEW p \in DOMAIN f.rows, NEW q \in DOMAIN f.rows, NEW r \in DOMAIN f.rows
    PROVE  /\ ~SqlBefore(keys, f, r, r)
           /\ q = r \/ SqlBefore(keys, f, q, r) \/ SqlBefore(keys, f, r, q)
           /\ SqlBefore(keys, f, p, q) /\ SqlBefore(keys, f, q, r) => SqlBefore(keys, f, p, r)
<1> DEFINE key(x) == SqlKey(keys, f, x)
           K == [1..Len(keys) -> Int]
<1>1. Len(keys) \in Nat /\ p \in Nat /\ q \in Nat /\ r \in Nat
  BY DEF CellFile, IsList
<1>2. ASSUME NEW x \in DOMAIN f.rows PROVE key(x) \in K
  <2>1. DOMAIN KeyColumns(keys, f.header) = 1..Len(keys)
    <3>1. /\ IsSequence(KeyColumns(keys, f.header))
          /\ Len(KeyColumns(keys, f.header)) = Len(keys)
      BY KeyColumnsAreOfTheKeys
    <3> QED BY <3>1, AppendIsSequence
  <2>2. \A c \in DOMAIN f.rows[x] : f.rows[x][c] \in Int
    BY DEF CellFile
  <2> QED BY <2>1, <2>2 DEF SqlKey
<1> HIDE DEF key
<1>3. /\ SqlBefore(keys, f, p, q) <=> KeyLess(key(p), key(q)) \/ (p < q /\ ~KeyLess(key(q), key(p)))
      /\ SqlBefore(keys, f, q, r) <=> KeyLess(key(q), key(r)) \/ (q < r /\ ~KeyLess(key(r), key(q)))
      /\ SqlBefore(keys, f, r, q) <=> KeyLess(key(r), key(q)) \/ (r < q /\ ~KeyLess(key(q), key(r)))
      /\ SqlBefore(keys, f, p, r) <=> KeyLess(key(p), key(r)) \/ (p < r /\ ~KeyLess(key(r), key(p)))
      /\ SqlBefore(keys, f, r, r) <=> KeyLess(key(r), key(r)) \/ (r < r /\ ~KeyLess(key(r), key(r)))
  BY Zenon DEF SqlBefore, key
<1>4. key(p) \in K /\ key(q) \in K /\ key(r) \in K
  BY <1>2
<1>5. /\ ~KeyLess(key(r), key(r))
      /\ ~(KeyLess(key(p), key(q)) /\ KeyLess(key(q), key(p)))
      /\ ~(KeyLess(key(q), key(r)) /\ KeyLess(key(r), key(q)))
      /\ ~(KeyLess(key(p), key(r)) /\ KeyLess(key(r), key(p)))
      /\ key(p) = key(r) \/ KeyLess(key(p), key(r)) \/ KeyLess(key(r), key(p))
  BY <1>1, <1>4, KeysCompare
<1>6. ~KeyLess(key(q), key(p)) /\ ~KeyLess(key(r), key(q)) =>
        ~KeyLess(key(r), key(p)) /\ (key(p) = key(r) => key(q) = key(p))
  BY <1>1, <1>4, KeysInOrder
<1>7. ASSUME SqlBefore(keys, f, p, q), SqlBefore(keys, f, q, r)
      PROVE  SqlBefore(keys, f, p, r)
  <2>1. ~KeyLess(key(q), key(p)) /\ ~KeyLess(key(r), key(q))
    BY <1>3, <1>5, <1>7
  <2>2. CASE KeyLess(key(p), key(r))
    BY <1>3, <2>2
  <2>3. CASE key(p) = key(r)
    <3>1. key(q) = key(p)
      BY <1>6, <2>1, <2>3
    <3>2. p < q /\ q < r
      BY <1>3, <1>5, <1>7, <2>3, <3>1
    <3> QED BY <1>1, <1>3, <1>5, <2>3, <3>2
  <2> QED BY <1>5, <1>6, <2>1, <2>2, <2>3
<1> QED
  BY <1>1, <1>3, <1>5, <1>7

\* The places of the rows are the places there are.
LEMMA SqlPlaces ==
    ASSUME NEW keys, IsList(keys), NEW f, CellFile(f), NEW k \in DOMAIN f.rows
    PROVE  \E r \in DOMAIN f.rows : SqlPlace(keys, f, r) = k
<1> DEFINE D == DOMAIN f.rows
           ahead(r) == {q \in D : SqlBefore(keys, f, q, r)}
           place == [r \in D |-> SqlPlace(keys, f, r)]
<1>1. D = 1..Len(f.rows) /\ Len(f.rows) \in Nat
  BY DEF CellFile, IsList
<1>2. IsFiniteSet(D) /\ Cardinality(D) = Len(f.rows)
  BY <1>1, FS_Interval
<1>3. \A r \in D : ahead(r) \subseteq D /\ r \notin ahead(r)
  BY SqlOrdersRows
<1>4. ASSUME NEW r \in D
      PROVE  IsFiniteSet(ahead(r)) /\ Cardinality(ahead(r)) \in 0..Len(f.rows)-1
  <2>1. ahead(r) \subseteq D /\ r \in D /\ r \notin ahead(r)
    BY <1>3
  <2> HIDE DEF ahead
  <2>2. IsFiniteSet(ahead(r)) /\ Cardinality(ahead(r)) <= Cardinality(D)
        /\ Cardinality(ahead(r)) # Cardinality(D)
    BY <1>2, <2>1, FS_Subset
  <2>3. Cardinality(ahead(r)) \in Nat
    BY <2>2, FS_CardinalityType
  <2> QED BY <1>1, <1>2, <2>2, <2>3
<1>5. ASSUME NEW q \in D, NEW r \in D, SqlBefore(keys, f, q, r)
      PROVE  Cardinality(ahead(q)) # Cardinality(ahead(r))
  <2>1. ahead(q) \subseteq ahead(r) /\ q \in ahead(r) /\ q \notin ahead(q)
    <3>1. \A p \in D : SqlBefore(keys, f, p, q) => SqlBefore(keys, f, p, r)
      BY <1>5, SqlOrdersRows
    <3>2. ~SqlBefore(keys, f, q, q)
      BY SqlOrdersRows
    <3> QED BY <1>5, <3>1, <3>2
  <2> HIDE DEF ahead
  <2> QED BY <1>4, <2>1, FS_Subset
<1>6. \A r \in D : place[r] = Cardinality(ahead(r)) + 1
  BY DEF SqlPlace
<1> HIDE DEF ahead
<1>7. place \in Injection(D, D)
  <2>1. place \in [D -> D]
    <3>1. ASSUME NEW r \in D PROVE place[r] \in D
      <4>1. /\ place[r] = Cardinality(ahead(r)) + 1
            /\ Cardinality(ahead(r)) \in 0..Len(f.rows)-1
        BY <1>4, <1>6
      <4> HIDE DEF place
      <4> QED BY <1>1, <4>1
    <3> QED BY <3>1
  <2>2. ASSUME NEW q \in D, NEW r \in D, place[q] = place[r] PROVE q = r
    <3>1. Cardinality(ahead(q)) = Cardinality(ahead(r))
      <4>1. Cardinality(ahead(q)) \in Int /\ Cardinality(ahead(r)) \in Int
        BY <1>4
      <4>2. Cardinality(ahead(q)) + 1 = Cardinality(ahead(r)) + 1
        BY <1>6, <2>2
      <4> QED BY <4>1, <4>2
    <3>2. ~SqlBefore(keys, f, q, r) /\ ~SqlBefore(keys, f, r, q)
      BY <1>5, <3>1
    <3> QED BY <3>2, SqlOrdersRows
  <2> HIDE DEF D, place
  <2> QED BY <2>1, <2>2 DEF Injection, IsInjective
<1> HIDE DEF D, place
<1>8. place \in Surjection(D, D)
  BY <1>2, <1>7, FS_Injection
<1>9. \E r \in D : place[r] = k
  BY <1>8 DEF Surjection, D
<1> QED BY <1>9 DEF place, D

\* The sorted input is one of cells.
LEMMA SortedIsCellFile ==
    ASSUME NEW keys, IsList(keys), NEW f, CellFile(f),
           NEW g, g = [header |-> f.header, rows |-> SqlOrder(keys, f)]
    PROVE  CellFile(g)
<1>1. g.header = f.header
  OBVIOUS
<1>2. g.rows = [k \in DOMAIN f.rows |->
                  f.rows[CHOOSE r \in DOMAIN f.rows : SqlPlace(keys, f, r) = k]]
  BY Zenon DEF SqlOrder, SqlPlace, SqlBefore, SqlKey
<1>3. ASSUME NEW k \in DOMAIN f.rows
      PROVE  \E r \in DOMAIN f.rows : g.rows[k] = f.rows[r]
  <2>1. \E r \in DOMAIN f.rows : SqlPlace(keys, f, r) = k
    BY SqlPlaces
  <2> DEFINE r == CHOOSE r \in DOMAIN f.rows : SqlPlace(keys, f, r) = k
  <2>2. r \in DOMAIN f.rows
    BY <2>1
  <2>3. g.rows[k] = f.rows[r]
    BY <1>2
  <2> QED BY <2>2, <2>3
<1>4. DOMAIN g.rows = 1..Len(f.rows) /\ Len(f.rows) \in Nat
  BY <1>2 DEF CellFile, IsList
<1>5. IsList(g.rows)
  <2>1. IsSequence(g.rows)
    <3> DEFINE T == {g.rows[k] : k \in DOMAIN g.rows}
    <3>1. g.rows \in [1..Len(f.rows) -> T]
      BY <1>2, <1>4
    <3> HIDE DEF T
    <3>2. g.rows \in Seq(T)
      BY <1>4, <3>1, SeqDef
    <3> QED BY <3>2, SequenceOver
  <2> QED BY <2>1, AppendIsSequence DEF IsList
<1>6. DOMAIN g.rows = DOMAIN f.rows
  BY <1>2
<1>7. \A k \in DOMAIN g.rows : IsList(g.rows[k]) /\ \A c \in DOMAIN g.rows[k] : g.rows[k][c] \in Nat
  BY <1>3, <1>6 DEF CellFile
<1> QED BY <1>1, <1>5, <1>7 DEF CellFile

-----------------------------------------------------------------------------
(* compare: the merge                                                      *)

\* The record of the command, and the inputs.
CmpShape(s) ==
    s = [pc |-> s.pc, files |-> s.files, opts |-> s.opts, status |-> s.status,
         colnames |-> s.colnames, out2in |-> s.out2in, keyCols |-> s.keyCols,
         next |-> s.next, rowCount |-> s.rowCount, diffs |-> s.diffs, redline |-> s.redline]
CmpFrame ==
    /\ CmpShape(st) /\ st.opts \in CmpOptions /\ IsSequence(out)
    /\ st.pc \in {"open", "columns", "rows", "done"}
    /\ IsList(st.files) /\ \A i \in CmpInput : CellFile(st.files[i])
    /\ st.pc # "done" => st.status = "ok"
    /\ st.pc \in {"open", "columns"} =>
         out = <<>> /\ st.rowCount = 0 /\ st.next = [i \in CmpInput |-> 1]

\* Each input has been read up to a row of it, and its keys are known.
CmpPlaces ==
    /\ IsSequence(st.colnames)
    /\ \A i \in CmpInput : DOMAIN st.keyCols[i] = 1..Len(st.opts.keys)
    /\ \A i \in CmpInput : st.next[i] \in 1..Len(st.files[i].rows)+1
    /\ st.pc = "done" => LoadedInputs = {}

\* What the merge has done: no row to come goes with one let go, every identity
\* let go has been a group, and the lines are about one each.
Merged ==
    /\ Passed(st.next)
    /\ st.rowCount = Cardinality(Met(st.next))
    /\ \A k \in DOMAIN out : OfOneRow(out[k])
    /\ ~st.opts.redline /\ ~st.opts.requireAll =>
         Cardinality({k \in DOMAIN out : out[k].kind = "missing"})
           = Cardinality({id \in Met(st.next) : Matches(id) # CmpInput})

InRows == st.status = "ok" /\ st.pc \in {"rows", "done"}
MergeInv == CmpFrame /\ (InRows => CmpPlaces /\ (InKeyOrder => Merged))

\* The invariant holds at the start.
LEMMA CmpInitInv == CompareInit => MergeInv
<1> SUFFICES ASSUME CompareInit PROVE MergeInv
  OBVIOUS
<1>1. PICK f \in CmpInputs, o \in CmpOptions :
        st = [pc |-> "open", files |-> f, opts |-> o, status |-> "ok",
              colnames |-> <<>>, out2in |-> <<>>, keyCols |-> <<>>,
              next |-> [i \in DOMAIN f |-> 1], rowCount |-> 0, diffs |-> 0,
              redline |-> [inAll |-> 0, missing |-> [i \in DOMAIN f |-> 0],
                           perInput |-> [i \in DOMAIN f |-> 0], withDiff |-> 0,
                           compared |-> 0, matched |-> 0, tolerated |-> 0, differing |-> 0]]
  BY DEF CompareInit
<1>2. CmpShape(st)
  BY <1>1 DEF CmpShape
<1>3. /\ st.pc = "open" /\ st.files = f /\ st.opts = o /\ st.status = "ok"
      /\ st.next = [i \in DOMAIN f |-> 1] /\ st.rowCount = 0 /\ out = <<>>
  BY <1>1 DEF CompareInit
<1>4. IsList(f) /\ \A i \in DOMAIN f : CellFile(f[i])
  BY CmpAssumption DEF CellFile
<1>5. IsSequence(out)
  BY <1>3, EmptyIsSequence
<1> QED
  BY <1>2, <1>3, <1>4, <1>5 DEF MergeInv, CmpFrame, InRows, CmpInput

\* Opening the inputs, sorted or not.
LEMMA CmpOpenInv ==
    ASSUME MergeInv, CompareOpen
    PROVE  MergeInv'
<1> DEFINE bad == \/ st.opts.sort /\ st.opts.keys = <<>>
                  \/ st.opts.redline /\ st.opts.add # ""
                  \/ \E i \in CmpInput : st.files[i].header = <<>>
           same == bad \/ ~st.opts.sort
           sorted(f) == [header |-> f.header, rows |-> SqlOrder(st.opts.keys, f)]
           files == IF same THEN st.files ELSE [i \in CmpInput |-> sorted(st.files[i])]
<1>1. /\ st' = [st EXCEPT !.pc = IF bad THEN "done" ELSE "columns",
                          !.status = IF bad THEN "error" ELSE @, !.files = files]
      /\ out' = out /\ st.pc = "open"
  BY DEF CompareOpen
<1> HIDE DEF bad
<1>2. IsList(st.opts.keys)
  BY CmpAssumption DEF MergeInv, CmpFrame
<1>3. IsList(st.files) /\ \A i \in CmpInput : CellFile(st.files[i])
  BY DEF MergeInv, CmpFrame
<1>4. /\ IsList(files) /\ DOMAIN files = DOMAIN st.files
      /\ \A i \in DOMAIN files : CellFile(files[i])
  <2>1. CASE same
    BY <1>3, <2>1 DEF CmpInput
  <2>2. CASE ~same
    <3>1. files = [i \in CmpInput |-> sorted(st.files[i])]
      BY <2>2
    <3>2. \A i \in CmpInput : CellFile(sorted(st.files[i]))
      BY <1>2, <1>3, SortedIsCellFile
    <3> HIDE DEF sorted, files
    <3>3. DOMAIN files = CmpInput /\ \A i \in CmpInput : files[i] = sorted(st.files[i])
      BY <3>1
    <3>4. DOMAIN files = 1..Len(st.files) /\ Len(st.files) \in Nat
      BY <1>3, <3>3 DEF CmpInput, IsList
    <3>5. IsList(files)
      <4> DEFINE T == {files[i] : i \in DOMAIN files}
      <4>1. files \in [1..Len(st.files) -> T]
        BY <3>1, <3>4
      <4> HIDE DEF T
      <4>2. files \in Seq(T)
        BY <3>4, <4>1, SeqDef
      <4>3. IsSequence(files)
        BY <4>2, SequenceOver
      <4> QED BY <4>3, AppendIsSequence DEF IsList
    <3> QED BY <3>2, <3>3, <3>5 DEF CmpInput
  <2> QED BY <2>1, <2>2
<1> HIDE DEF files
<1>5. /\ st'.files = files /\ st'.opts = st.opts /\ st'.rowCount = st.rowCount
      /\ st'.next = st.next /\ st'.pc = (IF bad THEN "done" ELSE "columns")
      /\ st'.status = (IF bad THEN "error" ELSE st.status)
      /\ CmpShape(st)'
  BY <1>1 DEF MergeInv, CmpFrame, CmpShape
<1>6. CmpFrame'
  <2>1. CmpInput' = CmpInput /\ CmpInput = DOMAIN files
    BY <1>4, <1>5 DEF CmpInput
  <2>2. /\ st.status = "ok" /\ out = <<>> /\ st.rowCount = 0
        /\ st.next = [i \in CmpInput |-> 1] /\ st.opts \in CmpOptions /\ IsSequence(out)
    BY <1>1 DEF MergeInv, CmpFrame
  <2>3. CASE bad
    <3>1. st'.pc = "done"
      BY <1>5, <2>3
    <3> QED BY <1>1, <1>4, <1>5, <2>1, <2>2, <3>1 DEF CmpFrame
  <2>4. CASE ~bad
    <3>1. st'.pc = "columns" /\ st'.status = st.status
      BY <1>5, <2>4
    <3> QED BY <1>1, <1>4, <1>5, <2>1, <2>2, <3>1 DEF CmpFrame
  <2> QED BY <2>3, <2>4
<1>7. ~InRows'
  BY <1>5 DEF InRows
<1> QED
  BY <1>6, <1>7 DEF MergeInv

\* The columns are known: nothing has been merged yet.
LEMMA CmpColumnsInv ==
    ASSUME MergeInv, CompareColumns
    PROVE  MergeInv'
<1> DEFINE cols == [i \in CmpInput |-> KeyColumns(st.opts.keys, st.files[i].header)]
           names == UnionColumns(st.files)
           at(i, o) == {c \in DOMAIN st.files[i].header :
                          Instance(st.files[i].header, c) = names[o]}
           bad == Len(st.files) < 2 \/ \E i \in CmpInput : 0 \in Range(cols[i])
           map == [i \in CmpInput |-> [o \in DOMAIN names |->
                     IF at(i, o) = {} THEN 0 ELSE Min(at(i, o))]]
<1>1. /\ st' = [st EXCEPT !.pc = IF bad THEN "done" ELSE "rows",
                          !.status = IF bad THEN "error" ELSE @, !.keyCols = cols,
                          !.colnames = names, !.out2in = map]
      /\ out' = out /\ st.pc = "columns"
  BY DEF CompareColumns
<1> HIDE DEF bad, map
<1>2. IsList(st.opts.keys)
  BY CmpAssumption DEF MergeInv, CmpFrame
<1>3. IsList(st.files) /\ \A i \in CmpInput : CellFile(st.files[i])
  BY DEF MergeInv, CmpFrame
<1>4. IsSequence(names)
  BY <1>3, UnionIsDistinct DEF CellFile, CmpInput
<1>5. \A i \in CmpInput : DOMAIN cols[i] = 1..Len(st.opts.keys)
  <2> SUFFICES ASSUME NEW i \in CmpInput PROVE DOMAIN cols[i] = 1..Len(st.opts.keys)
    OBVIOUS
  <2> DEFINE c == KeyColumns(st.opts.keys, st.files[i].header)
  <2>1. IsSequence(c) /\ Len(c) = Len(st.opts.keys)
    BY <1>2, KeyColumnsAreOfTheKeys
  <2>2. cols[i] = c
    OBVIOUS
  <2> HIDE DEF c, cols
  <2>3. DOMAIN c = 1..Len(c)
    BY <2>1, AppendIsSequence
  <2> QED BY <2>1, <2>2, <2>3
<1> HIDE DEF cols, names
<1>6. /\ st'.files = st.files /\ st'.opts = st.opts /\ st'.rowCount = st.rowCount
      /\ st'.next = st.next /\ st'.pc = (IF bad THEN "done" ELSE "rows")
      /\ st'.status = (IF bad THEN "error" ELSE st.status)
      /\ st'.keyCols = cols /\ st'.colnames = names /\ CmpShape(st)'
  BY <1>1 DEF MergeInv, CmpFrame, CmpShape
<1>7. CmpInput' = CmpInput
  BY <1>6 DEF CmpInput
<1>8. CmpFrame'
  BY <1>1, <1>6, <1>7 DEF MergeInv, CmpFrame
<1>9. ASSUME InRows' PROVE CmpPlaces' /\ Merged'
  <2>1. ~bad /\ st'.pc = "rows"
    BY <1>6, <1>9 DEF InRows
  <2>2. st'.next = [i \in CmpInput |-> 1] /\ st'.rowCount = 0 /\ out' = <<>>
    BY <1>1, <1>6 DEF MergeInv, CmpFrame
  <2>3. \A i \in CmpInput : st'.next[i] = 1
    BY <2>2
  <2>4. \A i \in CmpInput : 1 \in 1..Len(st'.files[i].rows)+1
    BY <1>3, <1>6 DEF CellFile, IsList
  <2>5. CmpPlaces'
    BY <1>4, <1>5, <1>6, <1>7, <2>1, <2>3, <2>4 DEF CmpPlaces
  <2>6. \A i \in CmpInput : 1..st'.next[i]-1 = {}
    BY <2>3
  <2>7. Passed(st.next)'
    BY <1>7, <2>6 DEF Passed
  <2>8. Met(st.next)' = {}
    BY <1>7, <2>6 DEF Met
  <2>9. Cardinality({}) = 0
    BY FS_EmptySet
  <2>10. DOMAIN out' = {}
    BY <2>2
  <2>11. {k \in DOMAIN out' : out'[k].kind = "missing"} = {}
         /\ {id \in {} : Matches(id)' # CmpInput'} = {}
    BY <2>10
  <2>12. Merged'
    BY <2>2, <2>7, <2>8, <2>9, <2>10, <2>11 DEF Merged
  <2> QED BY <2>5, <2>12
<1> QED
  BY <1>8, <1>9 DEF MergeInv

\* The premises of the lemmas about the group.
LEMMA RowsHaveKeys ==
    ASSUME MergeInv, InRows
    PROVE  /\ AtRows /\ IsList(st.colnames)
           /\ \A i \in CmpInput : IsList(st.files[i].header)
           /\ InKeyOrder => KeysAreSorted
<1>1. IsList(st.opts.keys)
  BY CmpAssumption DEF MergeInv, CmpFrame
<1>2. IsList(st.files) /\ \A i \in CmpInput : CellFile(st.files[i])
  BY DEF MergeInv, CmpFrame
<1>3. CmpPlaces
  BY DEF MergeInv
<1>4. ASSUME NEW i \in CmpInput, NEW r \in RowsOf(i) PROVE FileKey(i, r) \in Keys
  <2>1. \A c \in DOMAIN st.files[i].rows[r] : st.files[i].rows[r][c] \in Nat
    BY <1>2 DEF CellFile, RowsOf
  <2>2. \A c : CmpRow(st.files[i], r, c) \in Int
    BY <2>1 DEF CmpRow
  <2>3. \A c : FoldCase(CmpRow(st.files[i], r, c)) \in Int
    BY <2>2 DEF FoldCase
  <2>4. DOMAIN st.keyCols[i] = 1..Len(st.opts.keys)
    BY <1>3 DEF CmpPlaces
  <2> QED BY <2>3, <2>4 DEF FileKey, Keys
<1>5. AtRows
  BY <1>2, <1>3 DEF AtRows, CmpPlaces
<1>6. IsList(st.colnames)
  <2>1. IsSequence(st.colnames)
    BY <1>3 DEF CmpPlaces
  <2> QED BY <2>1, AppendIsSequence DEF IsList
<1>7. \A i \in CmpInput : IsList(st.files[i].header) /\ IsList(st.files[i].rows)
  BY <1>2 DEF CellFile
<1>8. InKeyOrder => KeysAreSorted
  BY <1>1, <1>4, <1>7 DEF KeysAreSorted, IsList
<1> QED BY <1>5, <1>6, <1>7, <1>8

\* What does not change when a group is let go.
Unmoved ==
    /\ st'.files = st.files /\ st'.opts = st.opts
    /\ st'.colnames = st.colnames /\ st'.keyCols = st.keyCols

\* What a comparison means depends on nothing that the loop changes.
LEMMA KeysStay ==
    ASSUME Unmoved
    PROVE  /\ CmpInput' = CmpInput /\ (InKeyOrder' <=> InKeyOrder)
           /\ \A id : Matches(id)' = Matches(id)
           /\ \A i, r : Identity(i, r)' = Identity(i, r)
           /\ \A i, r : FileKey(i, r)' = FileKey(i, r) /\ Count(i, r)' = Count(i, r)
           /\ \A line : OfOneRow(line)' <=> OfOneRow(line)
<1>1. CmpInput' = CmpInput /\ \A i : RowsOf(i)' = RowsOf(i)
  BY DEF Unmoved, CmpInput, RowsOf
<1>2. \A i, r : FileKey(i, r)' = FileKey(i, r)
  BY DEF Unmoved, FileKey
<1>3. \A i, r : Count(i, r)' = Count(i, r)
  BY <1>2 DEF Count
<1>4. \A i, r : Identity(i, r)' = Identity(i, r)
  BY <1>2 DEF Identity
<1>5. \A id : Matches(id)' = Matches(id)
  BY <1>1, <1>4 DEF Matches
<1>6. InKeyOrder' <=> InKeyOrder
  BY <1>1, <1>2 DEF InKeyOrder
<1>7. \A line : AddedIsOfTheRow(line)' <=> AddedIsOfTheRow(line)
  BY DEF Unmoved, AddedIsOfTheRow
<1>8. \A line : OfOneRow(line)' <=> OfOneRow(line)
  BY <1>1, <1>4, <1>5, <1>7 DEF OfOneRow
<1> QED BY <1>1, <1>2, <1>3, <1>4, <1>5, <1>6, <1>8

\* The lines that say who misses a row, when a group's lines are added.
LEMMA MissingLinesGrow ==
    ASSUME NEW a, IsSequence(a), NEW g, NEW b, NEW n, LinesUpTo(g, b, n)
    PROVE  Cardinality({k \in DOMAIN (a \o b) : (a \o b)[k].kind = "missing"})
             = Cardinality({k \in DOMAIN a : a[k].kind = "missing"}) + IF g = CmpInput THEN 0 ELSE 1
<1> DEFINE A == {k \in DOMAIN a : a[k].kind = "missing"}
           B == {k \in DOMAIN b : b[k].kind = "missing"}
           C == {k \in DOMAIN (a \o b) : (a \o b)[k].kind = "missing"}
<1>1. IsSequence(b) /\ B = IF g = CmpInput THEN {} ELSE {1}
  BY DEF LinesUpTo
<1>2. /\ Len(a) \in Nat /\ Len(b) \in Nat
      /\ DOMAIN a = 1..Len(a) /\ DOMAIN b = 1..Len(b)
      /\ DOMAIN (a \o b) = 1..(Len(a) + Len(b))
      /\ \A k \in 1..Len(a) : (a \o b)[k] = a[k]
      /\ \A k \in 1..Len(b) : (a \o b)[Len(a) + k] = b[k]
  BY <1>1, ConcatElements
<1>3. \A k \in 1..Len(b) : k \in B <=> Len(a) + k \in C
  BY <1>2
<1>4. \A k \in 1..Len(a) : k \in A <=> k \in C
  BY <1>2
<1>5. A \subseteq 1..Len(a) /\ C \subseteq 1..(Len(a) + Len(b)) /\ B \subseteq 1..Len(b)
  BY <1>2
<1> HIDE DEF A, B, C
<1>6. IsFiniteSet(A) /\ Cardinality(A) \in Nat
  <2>1. IsFiniteSet(1..Len(a))
    BY <1>2, FS_Interval
  <2>2. IsFiniteSet(A)
    BY <1>5, <2>1, FS_Subset
  <2> QED BY <2>2, FS_CardinalityType
<1>7. CASE g = CmpInput
  <2>1. B = {}
    BY <1>1, <1>7
  <2>2. ASSUME NEW k \in C PROVE k \in A
    <3>1. CASE k \in 1..Len(a)
      BY <1>4, <3>1
    <3>2. CASE k \notin 1..Len(a)
      <4>1. k - Len(a) \in 1..Len(b) /\ Len(a) + (k - Len(a)) = k
        BY <1>2, <1>5, <3>2
      <4> QED BY <1>3, <2>1, <4>1
    <3> QED BY <3>1, <3>2
  <2>3. C = A
    BY <1>4, <1>5, <2>2
  <2>4. Cardinality(C) = Cardinality(A) + 0
    BY <1>6, <2>3
  <2> QED BY <1>7, <2>4 DEF A, C
<1>8. CASE g # CmpInput
  <2>1. B = {1} /\ 1 \in 1..Len(b)
    BY <1>1, <1>5, <1>8
  <2>2. ASSUME NEW k \in C PROVE k \in A \cup {Len(a) + 1}
    <3>1. CASE k \in 1..Len(a)
      BY <1>4, <3>1
    <3>2. CASE k \notin 1..Len(a)
      <4>1. k - Len(a) \in 1..Len(b) /\ Len(a) + (k - Len(a)) = k
        BY <1>2, <1>5, <3>2
      <4>2. k - Len(a) = 1
        BY <1>3, <2>1, <4>1
      <4> QED BY <1>2, <4>1, <4>2
    <3> QED BY <3>1, <3>2
  <2>3. Len(a) + 1 \in C /\ Len(a) + 1 \notin A
    BY <1>2, <1>3, <1>5, <2>1
  <2>4. C = A \cup {Len(a) + 1}
    BY <1>4, <1>5, <2>2, <2>3
  <2>5. Cardinality(C) = Cardinality(A) + 1
    BY <1>6, <2>3, <2>4, FS_AddElement
  <2> QED BY <1>8, <2>5 DEF A, C
<1> QED BY <1>7, <1>8

\* The identities that some input lacks, when the group's is let go.
LEMMA MissingRowsGrow ==
    ASSUME KeysAreSorted, AtRows, Passed(st.next), LoadedInputs # {}
    PROVE  /\ Cardinality(Met(Onward)) = Cardinality(Met(st.next)) + 1
           /\ Cardinality({id \in Met(Onward) : Matches(id) # CmpInput})
                = Cardinality({id \in Met(st.next) : Matches(id) # CmpInput})
                    + IF Group = CmpInput THEN 0 ELSE 1
<1>1. PICK i \in Group : TRUE
  BY GroupIsSome
<1> DEFINE id == Identity(i, st.next[i])
           new == Met(Onward)
           old == Met(st.next)
           N == {x \in new : Matches(x) # CmpInput}
           O == {x \in old : Matches(x) # CmpInput}
<1>2. new = old \cup {id} /\ id \notin old /\ IsFiniteSet(old)
  BY <1>1, MetOnward
<1>3. Matches(id) = Group
  BY <1>1, GroupMatches
<1> HIDE DEF id, new, old, Group
<1>4. Cardinality(new) = Cardinality(old) + 1
  BY <1>2, FS_AddElement
<1>5. IsFiniteSet(O) /\ Cardinality(O) \in Nat
  <2>1. IsFiniteSet(O)
    BY <1>2, FS_Subset
  <2> QED BY <2>1, FS_CardinalityType
<1>6. CASE Group = CmpInput
  <2>1. N = O
    BY <1>2, <1>3, <1>6
  <2>2. Cardinality(N) = Cardinality(O) + 0
    BY <1>5, <2>1
  <2> QED BY <1>4, <1>6, <2>2 DEF new, old
<1>7. CASE Group # CmpInput
  <2>1. N = O \cup {id} /\ id \notin O
    BY <1>2, <1>3, <1>7
  <2>2. Cardinality(N) = Cardinality(O) + 1
    BY <1>5, <2>1, FS_AddElement
  <2> QED BY <1>4, <1>7, <2>2 DEF new, old
<1> QED BY <1>6, <1>7

\* One group is let go.
LEMMA CmpGroupInv ==
    ASSUME MergeInv, CompareNextGroup
    PROVE  MergeInv'
<1> DEFINE shown == ~st.opts.requireAll \/ Group = CmpInput
           lines == IF shown /\ ~st.opts.redline THEN PrintRow(Group) ELSE <<>>
           diffs == st.diffs + Cardinality({k \in DOMAIN lines : lines[k].kind = "diff"})
           redline == IF shown /\ st.opts.redline THEN CollectRow(st.redline, Group) ELSE st.redline
<1>1. /\ st.pc = "rows" /\ LoadedInputs # {} /\ out' = out \o lines
      /\ st' = [st EXCEPT !.rowCount = st.rowCount + 1, !.next = Onward,
                          !.diffs = diffs, !.redline = redline]
  BY DEF CompareNextGroup, Onward
<1> HIDE DEF diffs, redline
<1>2. /\ st'.pc = "rows" /\ st'.status = st.status /\ st'.next = Onward
      /\ st'.rowCount = st.rowCount + 1 /\ CmpShape(st)' /\ Unmoved
  BY <1>1 DEF MergeInv, CmpFrame, CmpShape, Unmoved
<1>3. /\ CmpInput' = CmpInput /\ (InKeyOrder' <=> InKeyOrder)
      /\ \A id : Matches(id)' = Matches(id)
      /\ \A i, r : Identity(i, r)' = Identity(i, r)
      /\ \A i, r : FileKey(i, r)' = FileKey(i, r) /\ Count(i, r)' = Count(i, r)
      /\ \A line : OfOneRow(line)' <=> OfOneRow(line)
  BY <1>2, KeysStay
<1>4. /\ AtRows /\ IsList(st.colnames) /\ InRows /\ CmpPlaces /\ IsSequence(out)
      /\ \A i \in CmpInput : IsList(st.files[i].header)
      /\ InKeyOrder => KeysAreSorted /\ Merged
  <2>1. InRows
    BY <1>1 DEF InRows, MergeInv, CmpFrame
  <2>2. CmpPlaces /\ (InKeyOrder => Merged) /\ IsSequence(out)
    BY <2>1 DEF MergeInv, CmpFrame
  <2> QED BY <2>1, <2>2, RowsHaveKeys
<1>5. LinesUpTo(Group, PrintRow(Group), Len(st.colnames))
  BY <1>4, LinesOfGroup
<1>6. IsSequence(lines) /\ \A k \in DOMAIN lines : IsLineOf(Group, lines[k])
  <2>1. CASE shown /\ ~st.opts.redline
    <3>1. lines = PrintRow(Group)
      BY <2>1
    <3> HIDE DEF lines
    <3> QED BY <1>5, <3>1 DEF LinesUpTo
  <2>2. CASE ~(shown /\ ~st.opts.redline)
    <3>1. lines = <<>>
      BY <2>2
    <3> HIDE DEF lines
    <3> QED BY <3>1, EmptyIsSequence
  <2> QED BY <2>1, <2>2
<1>7. CmpFrame'
  <2>1. IsSequence(out')
    BY <1>1, <1>4, <1>6, ConcatElements
  <2>2. st'.opts \in CmpOptions /\ IsList(st'.files) /\ st'.status = "ok"
    BY <1>1, <1>2 DEF MergeInv, CmpFrame, Unmoved
  <2>3. \A i \in CmpInput' : CellFile(st'.files[i])
    BY <1>2, <1>3 DEF MergeInv, CmpFrame, Unmoved
  <2> QED BY <1>2, <2>1, <2>2, <2>3 DEF CmpFrame
<1>8. CmpPlaces'
  <2>1. ASSUME NEW i \in CmpInput PROVE Onward[i] \in 1..Len(st.files[i].rows)+1
    <3>1. st.next[i] \in 1..Len(st.files[i].rows)+1
      BY <1>4 DEF CmpPlaces
    <3>2. i \in Group => st.next[i] <= Len(st.files[i].rows)
      BY DEF Group, LoadedInputs
    <3>3. Onward[i] = IF i \in Group THEN st.next[i] + 1 ELSE st.next[i]
      BY DEF Onward
    <3>4. Len(st.files[i].rows) \in Nat
      BY DEF MergeInv, CmpFrame, CellFile, IsList
    <3> HIDE DEF Onward, Group
    <3> QED BY <3>1, <3>2, <3>3, <3>4
  <2> QED BY <1>2, <1>3, <1>4, <2>1 DEF CmpPlaces, Unmoved
<1>9. ASSUME InKeyOrder' PROVE Merged'
  <2>1. KeysAreSorted /\ Merged /\ Passed(st.next)
    BY <1>3, <1>4, <1>9 DEF Merged
  <2>2. Passed(st.next)'
    <3>1. Passed(Onward)
      BY <1>4, <2>1, PassedOnward
    <3> QED BY <1>2, <1>3, <3>1 DEF Passed, Unmoved
  <2>3. Met(st.next)' = Met(Onward)
    BY <1>2, <1>3 DEF Met
  <2>4. st'.rowCount = Cardinality(Met(st.next)')
    <3>1. Cardinality(Met(Onward)) = Cardinality(Met(st.next)) + 1
      BY <1>1, <1>4, <2>1, MissingRowsGrow
    <3> QED BY <1>2, <2>1, <2>3, <3>1 DEF Merged
  <2>5. (\A k \in DOMAIN out : OfOneRow(out[k]))'
    <3>1. /\ DOMAIN out = 1..Len(out) /\ DOMAIN lines = 1..Len(lines)
          /\ Len(out) \in Nat /\ Len(lines) \in Nat
          /\ DOMAIN out' = 1..(Len(out) + Len(lines))
          /\ \A k \in 1..Len(out) : out'[k] = out[k]
          /\ \A k \in 1..Len(lines) : out'[Len(out) + k] = lines[k]
      BY <1>1, <1>4, <1>6, ConcatElements
    <3> HIDE DEF lines
    <3>2. ASSUME NEW k \in DOMAIN lines PROVE OfOneRow(lines[k])
      BY <1>1, <1>4, <1>6, <2>1, LineOfTheGroup
    <3>3. ASSUME NEW k \in DOMAIN out' PROVE OfOneRow(out'[k])
      <4>1. CASE k \in 1..Len(out)
        BY <2>1, <3>1, <4>1 DEF Merged
      <4>2. CASE k \notin 1..Len(out)
        <5>1. k - Len(out) \in 1..Len(lines) /\ Len(out) + (k - Len(out)) = k
          BY <3>1, <4>2
        <5> QED BY <3>1, <3>2, <5>1
      <4> QED BY <4>1, <4>2
    <3> QED BY <1>3, <3>3
  <2>6. ASSUME ~st'.opts.redline /\ ~st'.opts.requireAll
        PROVE  Cardinality({k \in DOMAIN out' : out'[k].kind = "missing"})
                 = Cardinality({id \in Met(st.next)' : Matches(id)' # CmpInput'})
    <3>1. ~st.opts.redline /\ ~st.opts.requireAll
      BY <1>2, <2>6 DEF Unmoved
    <3>2. out' = out \o PrintRow(Group)
      BY <1>1, <3>1
    <3>3. Cardinality({k \in DOMAIN out' : out'[k].kind = "missing"})
            = Cardinality({k \in DOMAIN out : out[k].kind = "missing"})
                + IF Group = CmpInput THEN 0 ELSE 1
      BY <1>4, <1>5, <3>2, MissingLinesGrow
    <3>4. Cardinality({id \in Met(Onward) : Matches(id) # CmpInput})
            = Cardinality({id \in Met(st.next) : Matches(id) # CmpInput})
                + IF Group = CmpInput THEN 0 ELSE 1
      BY <1>1, <1>4, <2>1, MissingRowsGrow
    <3>5. {id \in Met(st.next)' : Matches(id)' # CmpInput'}
            = {id \in Met(Onward) : Matches(id) # CmpInput}
      BY <1>3, <2>3
    <3>6. Cardinality({k \in DOMAIN out : out[k].kind = "missing"})
            = Cardinality({id \in Met(st.next) : Matches(id) # CmpInput})
      BY <2>1, <3>1 DEF Merged
    <3> QED BY <3>3, <3>4, <3>5, <3>6
  <2> QED BY <2>2, <2>4, <2>5, <2>6 DEF Merged
<1> QED BY <1>7, <1>8, <1>9 DEF MergeInv

\* No row is left.
LEMMA CmpEndInv ==
    ASSUME MergeInv, CompareEnd
    PROVE  MergeInv'
<1>1. /\ st.pc = "rows" /\ LoadedInputs = {} /\ out' = out
      /\ \E d : st' = [st EXCEPT !.pc = "done", !.diffs = d]
  BY DEF CompareEnd
<1>2. /\ st'.pc = "done" /\ st'.status = st.status /\ st'.next = st.next
      /\ st'.rowCount = st.rowCount /\ CmpShape(st)' /\ Unmoved
  BY <1>1 DEF MergeInv, CmpFrame, CmpShape, Unmoved
<1>3. /\ CmpInput' = CmpInput /\ (InKeyOrder' <=> InKeyOrder)
      /\ \A id : Matches(id)' = Matches(id)
      /\ \A i, r : Identity(i, r)' = Identity(i, r)
      /\ \A i, r : FileKey(i, r)' = FileKey(i, r) /\ Count(i, r)' = Count(i, r)
      /\ \A line : OfOneRow(line)' <=> OfOneRow(line)
  BY <1>2, KeysStay
<1>4. InRows /\ CmpPlaces /\ (InKeyOrder => Merged)
  BY <1>1 DEF InRows, MergeInv, CmpFrame
<1>5. CmpFrame'
  BY <1>1, <1>2, <1>3 DEF MergeInv, CmpFrame, Unmoved
<1>6. LoadedInputs' = {}
  BY <1>1, <1>2, <1>3 DEF LoadedInputs, Unmoved
<1>7. CmpPlaces'
  BY <1>2, <1>3, <1>4, <1>6 DEF CmpPlaces, Unmoved
<1>8. ASSUME InKeyOrder' PROVE Merged'
  <2>1. Merged
    BY <1>3, <1>4, <1>8
  <2>2. Passed(st.next)' /\ Met(st.next)' = Met(st.next)
    BY <1>2, <1>3, <2>1 DEF Merged, Passed, Met, Unmoved
  <2>3. {id \in Met(st.next)' : Matches(id)' # CmpInput'}
          = {id \in Met(st.next) : Matches(id) # CmpInput}
    BY <1>3, <2>2
  <2> QED BY <1>1, <1>2, <1>3, <2>1, <2>2, <2>3 DEF Merged, Unmoved
<1> QED BY <1>5, <1>7, <1>8 DEF MergeInv

\* At the end every row of every input has been let go.
LEMMA AllAreMet ==
    ASSUME MergeInv, CompareDone
    PROVE  Met(st.next) = UNION {{Identity(i, r) : r \in RowsOf(i)} : i \in CmpInput}
<1>1. CmpPlaces /\ LoadedInputs = {}
  BY DEF CompareDone, MergeInv, InRows, CmpPlaces
<1>2. ASSUME NEW i \in CmpInput PROVE RowsOf(i) = 1..st.next[i]-1
  <2>1. IsList(st.files[i].rows)
    BY DEF MergeInv, CmpFrame, CellFile
  <2>2. st.next[i] \in 1..Len(st.files[i].rows)+1 /\ ~(st.next[i] <= Len(st.files[i].rows))
    BY <1>1 DEF CmpPlaces, LoadedInputs
  <2>3. st.next[i] - 1 = Len(st.files[i].rows)
    BY <2>1, <2>2 DEF IsList
  <2> QED BY <2>1, <2>3 DEF RowsOf, IsList
<1> QED BY <1>2 DEF Met

\* What a line says is about one identity.
LEMMA LineSaysOneRow ==
    ASSUME NEW line, OfOneRow(line)
    PROVE  LET of == {Identity(i, line.rows[i]) : i \in DOMAIN line.rows}
           IN  Cardinality(of) = 1 /\ \A id \in of : DOMAIN line.rows = Matches(id)
<1> DEFINE of == {Identity(i, line.rows[i]) : i \in DOMAIN line.rows}
<1>1. PICK i \in DOMAIN line.rows :
        /\ \A j \in DOMAIN line.rows : Identity(j, line.rows[j]) = Identity(i, line.rows[i])
        /\ DOMAIN line.rows = Matches(Identity(i, line.rows[i]))
  BY DEF OfOneRow
<1>2. of = {Identity(i, line.rows[i])}
  BY <1>1
<1>3. Cardinality(of) = 1
  BY <1>2, FS_Singleton
<1> QED BY <1>1, <1>2, <1>3

\* What the invariant says once the comparison is done.
LEMMA MergedIsMatched == MergeInv => RowsAreMatchedByKey
<1> SUFFICES ASSUME MergeInv, CompareDone, InKeyOrder
             PROVE  LET ids == UNION {{Identity(i, r) : r \in RowsOf(i)} : i \in CmpInput}
                        of(l) == {Identity(i, l.rows[i]) : i \in DOMAIN l.rows}
                    IN  /\ \A k \in DOMAIN out : Cardinality(of(out[k])) = 1
                        /\ \A k \in DOMAIN out : \A id \in of(out[k]) :
                             DOMAIN out[k].rows = Matches(id)
                        /\ st.rowCount = Cardinality(ids)
                        /\ \A k \in DOMAIN out : AddedIsOfTheRow(out[k])
                        /\ ~st.opts.redline /\ ~st.opts.requireAll =>
                             /\ Cardinality({k \in DOMAIN out : out[k].kind = "missing"})
                                  = Cardinality({id \in ids : Matches(id) # CmpInput})
                             /\ \A k \in DOMAIN out : out[k].kind = "missing" =>
                                  DOMAIN out[k].vals = CmpInput \ DOMAIN out[k].rows
  BY Zenon DEF RowsAreMatchedByKey
<1> DEFINE ids == UNION {{Identity(i, r) : r \in RowsOf(i)} : i \in CmpInput}
<1>1. Met(st.next) = ids
  BY AllAreMet
<1>2. Merged
  BY DEF CompareDone, MergeInv, InRows
<1>3. \A k \in DOMAIN out : OfOneRow(out[k])
  BY <1>2 DEF Merged
<1>4. ASSUME NEW k \in DOMAIN out
      PROVE  /\ Cardinality({Identity(i, out[k].rows[i]) : i \in DOMAIN out[k].rows}) = 1
             /\ \A id \in {Identity(i, out[k].rows[i]) : i \in DOMAIN out[k].rows} :
                  DOMAIN out[k].rows = Matches(id)
  BY <1>3, LineSaysOneRow
<1>5. \A k \in DOMAIN out : /\ AddedIsOfTheRow(out[k])
                            /\ out[k].kind = "missing" =>
                                 DOMAIN out[k].vals = CmpInput \ DOMAIN out[k].rows
  BY <1>3 DEF OfOneRow
<1> HIDE DEF ids
<1>6. /\ st.rowCount = Cardinality(ids)
      /\ ~st.opts.redline /\ ~st.opts.requireAll =>
           Cardinality({k \in DOMAIN out : out[k].kind = "missing"})
             = Cardinality({id \in ids : Matches(id) # CmpInput})
  BY <1>1, <1>2 DEF Merged
<1> QED BY <1>4, <1>5, <1>6 DEF ids

\* No step of the comparison breaks the invariant.
LEMMA CmpNextInv ==
    ASSUME MergeInv, [CompareNext \/ Finished]_procVars
    PROVE  MergeInv'
<1>1. CASE CompareNext
  BY <1>1, CmpOpenInv, CmpColumnsInv, CmpGroupInv, CmpEndInv DEF CompareNext
<1>2. CASE Finished \/ UNCHANGED procVars
  <2>1. st' = st /\ out' = out
    BY <1>2 DEF Finished, procVars
  <2>2. Unmoved
    BY <2>1 DEF Unmoved
  <2>3. /\ CmpInput' = CmpInput /\ (InKeyOrder' <=> InKeyOrder)
        /\ \A id : Matches(id)' = Matches(id)
        /\ \A i, r : Identity(i, r)' = Identity(i, r)
        /\ \A i, r : FileKey(i, r)' = FileKey(i, r) /\ Count(i, r)' = Count(i, r)
        /\ \A line : OfOneRow(line)' <=> OfOneRow(line)
    BY <2>2, KeysStay
  <2>4. CmpFrame' /\ (InRows' <=> InRows)
    BY <2>1, <2>3 DEF MergeInv, CmpFrame, CmpShape, InRows
  <2>5. CmpPlaces' <=> CmpPlaces
    BY <2>1, <2>3 DEF CmpPlaces, LoadedInputs
  <2>6. InKeyOrder /\ Merged => Merged'
    <3>1. (Passed(st.next) => Passed(st.next)') /\ Met(st.next)' = Met(st.next)
      BY <2>1, <2>3 DEF Passed, Met
    <3>2. {id \in Met(st.next)' : Matches(id)' # CmpInput'}
            = {id \in Met(st.next) : Matches(id) # CmpInput}
      BY <2>3, <3>1
    <3> QED BY <2>1, <2>3, <3>1, <3>2 DEF Merged
  <2> QED BY <2>3, <2>4, <2>5, <2>6 DEF MergeInv
<1> QED BY <1>1, <1>2

\* What compare reports is about rows of the same key, and about all of them,
\* for every set of inputs that is in the order of its keys and all options.
THEOREM RowsMatchByKey == CompareSpec => []RowsAreMatchedByKey
<1>1. CompareSpec => []MergeInv
  BY CmpInitInv, CmpNextInv, PTL DEF CompareSpec
<1> QED
  BY <1>1, MergedIsMatched, PTL

-----------------------------------------------------------------------------
(* compare: the count of the differences                                   *)

\* A row is the only one of its identity in its input.
LEMMA RowIsOne ==
    ASSUME KeysAreSorted, NEW i \in CmpInput, NEW r \in RowsOf(i)
    PROVE  RowOf(i, Identity(i, r)) = r
<1>0. \A k, q : Identity(k, q) = <<FileKey(k, q), Count(k, q)>>
  BY DEF Identity, Count
<1>1. \A q \in RowsOf(i) : q \in Nat \ {0}
  BY DEF KeysAreSorted, RowsOf, IsList
<1>2. ASSUME NEW p \in RowsOf(i), NEW q \in RowsOf(i), Identity(i, p) = Identity(i, q), p < q
      PROVE  FALSE
  <2>1. FileKey(i, p) = FileKey(i, q) /\ Count(i, p) = Count(i, q)
    BY <1>0, <1>2
  <2>2. p \in 1..q-1 /\ q \in Nat \ {0}
    BY <1>1, <1>2
  <2>3. Count(i, p) \in Nat /\ Count(i, q) \in Nat /\ Count(i, p) < Count(i, q)
    BY <2>1, <2>2, CountGrows
  <2> QED BY <2>1, <2>3
<1>3. \A q \in RowsOf(i) : Identity(i, q) = Identity(i, r) => q = r
  BY <1>1, <1>2
<1> DEFINE p == RowOf(i, Identity(i, r))
<1>4. p \in RowsOf(i) /\ Identity(i, p) = Identity(i, r)
  BY DEF RowOf
<1> QED BY <1>3, <1>4

\* The cell that a row of one identity shows in an output column.
CellOf(i, id, o) ==
    IF st.out2in[i][o] = 0 THEN 0 ELSE CmpRow(st.files[i], RowOf(i, id), st.out2in[i][o])

\* That an identity differs in an output column, by its name.
RowDiffers(id, o) ==
    /\ ~IsKeyColumn(o) /\ (~st.opts.requireAll \/ Matches(id) = CmpInput)
    /\ \E i \in Matches(id) \ {Min(Matches(id))} :
         /\ st.out2in[i][o] # 0
         /\ FoldCase(CellOf(i, id, o)) # FoldCase(CellOf(Min(Matches(id)), id, o))
         /\ ~WithinTolerance(CellOf(Min(Matches(id)), id, o), CellOf(i, id, o))

\* A cell that differs is one of an identity and a column of that name.
LEMMA DifferencesByColumn ==
    ASSUME Distinct(st.colnames), NEW ids, NEW id, NEW o \in DOMAIN st.colnames
    PROVE  <<id, st.colnames[o]>> \in RealDifferences(ids) <=> id \in ids /\ RowDiffers(id, o)
<1> DEFINE x == <<id, st.colnames[o]>>
           c == CHOOSE p \in DOMAIN st.colnames : st.colnames[p] = st.colnames[o]
<1>1. c = o
  <2>1. c \in DOMAIN st.colnames /\ st.colnames[c] = st.colnames[o]
    OBVIOUS
  <2> QED BY <2>1 DEF Distinct
<1> HIDE DEF c
<1>2. x \in RealDifferences(ids) <=> x \in ids \X Range(st.colnames) /\ RowDiffers(id, c)
  BY Zenon DEF RealDifferences, RowDiffers, CellOf, c
<1>3. x \in ids \X Range(st.colnames) <=> id \in ids
  BY DEF Range
<1> QED BY <1>1, <1>2, <1>3

\* The group's row differs in the columns that the report shows.
LEMMA GroupDiffers ==
    ASSUME KeysAreSorted, AtRows, Passed(st.next), NEW i \in Group, NEW o
    PROVE  RowDiffers(Identity(i, st.next[i]), o) <=>
             (~st.opts.requireAll \/ Group = CmpInput) /\ Shows(Group, o)
<1> DEFINE id == Identity(i, st.next[i])
           m == Min(Group)
<1>1. Matches(id) = Group
  BY GroupMatches
<1>2. \A k, r : Identity(k, r) = <<FileKey(k, r), Count(k, r)>>
  BY DEF Identity, Count
<1>3. ASSUME NEW j \in Group PROVE CellOf(j, id, o) = CmpCell(j, o)
  <2>1. Identity(j, st.next[j]) = id
    BY <1>2, GroupIsOneRow
  <2>2. j \in CmpInput /\ st.next[j] \in RowsOf(j)
    BY LoadedRows DEF Group
  <2>3. RowOf(j, id) = st.next[j]
    BY <2>1, <2>2, RowIsOne
  <2> QED BY <2>3 DEF CellOf, CmpCell
<1>4. m \in Group
  <2>1. Group \subseteq CmpInput
    BY DEF Group, LoadedInputs
  <2>2. CmpInput \subseteq Nat
    BY DEF AtRows, CmpInput, IsList
  <2> HIDE DEF Group
  <2> QED BY <2>1, <2>2, MinIsLeast
<1> HIDE DEF id, Group, m
<1>5. CellOf(m, id, o) = CmpCell(m, o)
  BY <1>3, <1>4
<1>6. RowDiffers(id, o) <=>
        /\ ~IsKeyColumn(o) /\ (~st.opts.requireAll \/ Group = CmpInput)
        /\ \E j \in Group \ {m} :
             /\ st.out2in[j][o] # 0
             /\ FoldCase(CellOf(j, id, o)) # FoldCase(CellOf(m, id, o))
             /\ ~WithinTolerance(CellOf(m, id, o), CellOf(j, id, o))
  BY <1>1, Zenon DEF RowDiffers, m
<1>7. Shows(Group, o) <=>
        /\ ~IsKeyColumn(o)
        /\ \E j \in Group \ {m} :
             /\ st.out2in[j][o] # 0
             /\ FoldCase(CmpCell(j, o)) # FoldCase(CmpCell(m, o))
             /\ ~WithinTolerance(CmpCell(m, o), CmpCell(j, o))
  BY Zenon DEF Shows, Differs, m
<1>8. \A j \in Group \ {m} : CellOf(j, id, o) = CmpCell(j, o)
  BY <1>3
<1> QED BY <1>5, <1>6, <1>7, <1>8, Zenon DEF id

\* As many names as columns.
LEMMA AsManyNames ==
    ASSUME Distinct(st.colnames), NEW id, NEW S, S \subseteq DOMAIN st.colnames, IsFiniteSet(S)
    PROVE  LET new == {<<id, st.colnames[o]>> : o \in S}
           IN  IsFiniteSet(new) /\ Cardinality(new) = Cardinality(S)
<1> DEFINE new == {<<id, st.colnames[o]>> : o \in S}
           f == [o \in S |-> <<id, st.colnames[o]>>]
<1>1. f \in Surjection(S, new)
  BY DEF Surjection
<1>2. f \in Injection(S, new)
  <2>1. f \in [S -> new]
    OBVIOUS
  <2>2. ASSUME NEW p \in S, NEW o \in S, f[p] = f[o] PROVE p = o
    <3>1. st.colnames[p] = st.colnames[o]
      BY <2>2
    <3> QED BY <3>1 DEF Distinct
  <2> HIDE DEF f, new
  <2> QED BY <2>1, <2>2 DEF Injection, IsInjective
<1> HIDE DEF f, new
<1>3. IsFiniteSet(new) /\ Cardinality(new) = Cardinality(S)
  BY <1>1, <1>2, FS_Surjection
<1> QED BY <1>3 DEF new

\* How many columns of the group's row differ.
GroupCount ==
    IF ~st.opts.requireAll \/ Group = CmpInput
    THEN Cardinality({o \in 1..Len(st.colnames) : Shows(Group, o)}) ELSE 0

\* The differences of the rows let go, when the group's are.
LEMMA DifferencesGrow ==
    ASSUME KeysAreSorted, AtRows, Passed(st.next), LoadedInputs # {},
           IsSequence(st.colnames), Distinct(st.colnames)
    PROVE  /\ Cardinality(RealDifferences(Met(Onward)))
                = Cardinality(RealDifferences(Met(st.next))) + GroupCount
           /\ Cardinality(RealDifferences(Met(st.next))) \in Nat /\ GroupCount \in Nat
<1>1. PICK i \in Group : TRUE
  BY GroupIsSome
<1> DEFINE id == Identity(i, st.next[i])
           D == 1..Len(st.colnames)
           shows == {o \in D : Shows(Group, o)}
           counted == IF ~st.opts.requireAll \/ Group = CmpInput THEN shows ELSE {}
           add == {<<id, st.colnames[o]>> : o \in counted}
           old == RealDifferences(Met(st.next))
           new == RealDifferences(Met(Onward))
<1>2. Met(Onward) = Met(st.next) \cup {id} /\ id \notin Met(st.next) /\ IsFiniteSet(Met(st.next))
  BY <1>1, MetOnward
<1>3. DOMAIN st.colnames = D /\ Len(st.colnames) \in Nat
  BY AppendIsSequence
<1>4. IsFiniteSet(D)
  BY <1>3, FS_Interval
<1>5. counted \subseteq D
  OBVIOUS
<1>6. IsFiniteSet(counted) /\ Cardinality(counted) \in Nat
  <2> HIDE DEF counted
  <2>1. IsFiniteSet(counted)
    BY <1>4, <1>5, FS_Subset
  <2> QED BY <2>1, FS_CardinalityType
<1>7. GroupCount = Cardinality(counted)
  <2>1. CASE ~st.opts.requireAll \/ Group = CmpInput
    BY <2>1, Zenon DEF GroupCount
  <2>2. CASE ~(~st.opts.requireAll \/ Group = CmpInput)
    <3>1. counted = {} /\ Cardinality({}) = 0
      BY <2>2, FS_EmptySet
    <3>2. GroupCount = 0
      BY <2>2 DEF GroupCount
    <3> HIDE DEF counted
    <3> QED BY <3>1, <3>2
  <2> QED BY <2>1, <2>2
<1>8. \A o \in D : RowDiffers(id, o) <=> o \in counted
  <2>1. \A o : RowDiffers(id, o) <=>
                 (~st.opts.requireAll \/ Group = CmpInput) /\ Shows(Group, o)
    BY <1>1, GroupDiffers
  <2> HIDE DEF id
  <2> QED BY <2>1
<1>9. ASSUME NEW ids, NEW x \in RealDifferences(ids)
      PROVE  \E j \in ids, o \in D : x = <<j, st.colnames[o]>>
  <2>1. x \in ids \X Range(st.colnames)
    BY DEF RealDifferences
  <2> QED BY <1>3, <2>1 DEF Range
<1>10. IsFiniteSet(old)
  <2>1. IsFiniteSet(Range(st.colnames))
    <3>1. IsFiniteSet({st.colnames[o] : o \in D})
      BY <1>4, ImageIsFinite
    <3>2. Range(st.colnames) = {st.colnames[o] : o \in D}
      BY <1>3 DEF Range
    <3> QED BY <3>1, <3>2
  <2>2. IsFiniteSet(Met(st.next) \X Range(st.colnames))
    BY <1>2, <2>1, FS_Product
  <2>3. old \subseteq Met(st.next) \X Range(st.colnames)
    BY DEF RealDifferences
  <2> HIDE DEF old
  <2> QED BY <2>2, <2>3, FS_Subset
<1>11. IsFiniteSet(add) /\ Cardinality(add) = Cardinality(counted)
  <2> HIDE DEF counted, id
  <2> QED BY <1>3, <1>5, <1>6, AsManyNames
<1> HIDE DEF id, D, counted
<1>12. ASSUME NEW j, NEW o \in D
       PROVE  /\ <<j, st.colnames[o]>> \in new <=>
                   (j \in Met(st.next) \/ j = id) /\ RowDiffers(j, o)
              /\ <<j, st.colnames[o]>> \in old <=> j \in Met(st.next) /\ RowDiffers(j, o)
  <2>1. j \in Met(Onward) <=> j \in Met(st.next) \/ j = id
    BY <1>2
  <2> QED BY <1>3, <2>1, DifferencesByColumn
<1>13. ASSUME NEW j, NEW o \in D
       PROVE  <<j, st.colnames[o]>> \in add <=> j = id /\ o \in counted
  <2>1. \A p \in counted : st.colnames[p] = st.colnames[o] => p = o
    BY <1>3, <1>5 DEF Distinct
  <2> QED BY <2>1
<1> HIDE DEF new, old, add
<1>14. ASSUME NEW x PROVE x \in new <=> x \in old \/ x \in add
  <2>1. CASE \E j, o : o \in D /\ x = <<j, st.colnames[o]>>
    <3>1. PICK j, o : o \in D /\ x = <<j, st.colnames[o]>>
      BY <2>1
    <3> QED BY <1>2, <1>8, <1>12, <1>13, <3>1
  <2>2. CASE ~\E j, o : o \in D /\ x = <<j, st.colnames[o]>>
    <3>1. x \notin new /\ x \notin old
      BY <1>9, <2>2 DEF new, old
    <3>2. x \notin add
      BY <1>5, <2>2 DEF add
    <3> QED BY <3>1, <3>2
  <2> QED BY <2>1, <2>2
<1>15. old \cap add = {}
  <2> SUFFICES ASSUME NEW x \in old, x \in add PROVE FALSE
    OBVIOUS
  <2>1. PICK j \in Met(st.next), o \in D : x = <<j, st.colnames[o]>>
    BY <1>9 DEF old
  <2>2. j = id
    BY <1>13, <2>1
  <2> QED BY <1>2, <2>1, <2>2
<1>16. new = old \cup add
  BY <1>14
<1>17. Cardinality(new) = Cardinality(old) + Cardinality(add) - Cardinality({})
  BY <1>10, <1>11, <1>15, <1>16, FS_Union
<1>18. Cardinality(old) \in Nat /\ Cardinality({}) = 0
  BY <1>10, FS_CardinalityType, FS_EmptySet
<1> QED BY <1>6, <1>7, <1>11, <1>17, <1>18 DEF old, new

\* The counters of the redline document.
RedShape(r) ==
    r = [inAll |-> r.inAll, missing |-> r.missing, perInput |-> r.perInput,
         withDiff |-> r.withDiff, compared |-> r.compared, matched |-> r.matched,
         tolerated |-> r.tolerated, differing |-> r.differing]
RedSums(r) ==
    /\ RedShape(r) /\ DOMAIN r.perInput = CmpInput
    /\ r.matched \in Nat /\ r.tolerated \in Nat /\ r.differing \in Nat
    /\ r.compared = r.matched + r.tolerated + r.differing
CellDiffers(g, o) == g = CmpInput /\ InAll(o) /\ CellsDiffer(o) /\ ~AllWithin(o)

\* A row collected keeps the sums, and counts its cells that differ.
LEMMA CollectKeepsSums ==
    ASSUME IsSequence(st.colnames), NEW r, RedSums(r), NEW g
    PROVE  /\ RedSums(CollectRow(r, g))
           /\ CollectRow(r, g).differing
                = r.differing + Cardinality({o \in DOMAIN st.colnames : CellDiffers(g, o)})
           /\ \A i \in CmpInput :
                CollectRow(r, g).perInput[i] = r.perInput[i] + (IF i \in g THEN 1 ELSE 0)
<1> DEFINE whole == g = CmpInput
           cols == IF whole THEN {o \in DOMAIN st.colnames : InAll(o)} ELSE {}
           tol == {o \in cols : CellsDiffer(o) /\ AllWithin(o)}
           diff == {o \in cols : CellsDiffer(o) /\ ~AllWithin(o)}
           shown == diff \cup (IF st.opts.tolerated THEN tol ELSE {})
           per == [i \in CmpInput |-> r.perInput[i] + (IF i \in g THEN 1 ELSE 0)]
           miss == [i \in CmpInput |-> r.missing[i] + (IF i \in g THEN 0 ELSE 1)]
           rest == cols \ (tol \cup diff)
           inAll == r.inAll + (IF whole THEN 1 ELSE 0)
           withDiff == r.withDiff + (IF ~whole \/ shown # {} THEN 1 ELSE 0)
           c == CollectRow(r, g)
<1>1. c = [r EXCEPT !.perInput = per, !.inAll = inAll, !.missing = miss,
                    !.compared = r.compared + Cardinality(cols),
                    !.matched = r.matched + Cardinality(rest),
                    !.tolerated = r.tolerated + Cardinality(tol),
                    !.differing = r.differing + Cardinality(diff),
                    !.withDiff = withDiff]
  BY Zenon DEF CollectRow
<1>2. diff = {o \in DOMAIN st.colnames : CellDiffers(g, o)}
  BY DEF CellDiffers
<1>3. cols \subseteq DOMAIN st.colnames /\ tol \subseteq cols /\ diff \subseteq cols
      /\ tol \cap diff = {}
  OBVIOUS
<1>4. per = [i \in CmpInput |-> r.perInput[i] + (IF i \in g THEN 1 ELSE 0)]
  OBVIOUS
<1> HIDE DEF inAll, withDiff, miss, per, c, tol, diff, cols
<1>5. /\ c.perInput = per /\ c.compared = r.compared + Cardinality(cols)
      /\ c.matched = r.matched + Cardinality(rest)
      /\ c.tolerated = r.tolerated + Cardinality(tol)
      /\ c.differing = r.differing + Cardinality(diff) /\ RedShape(c)
  BY <1>1 DEF RedSums, RedShape
<1>6. IsFiniteSet(DOMAIN st.colnames)
  <2>1. DOMAIN st.colnames = 1..Len(st.colnames) /\ Len(st.colnames) \in Nat
    BY AppendIsSequence
  <2> QED BY <2>1, FS_Interval
<1>7. IsFiniteSet(cols) /\ IsFiniteSet(tol) /\ IsFiniteSet(diff) /\ IsFiniteSet(tol \cup diff)
  <2>1. IsFiniteSet(cols)
    BY <1>3, <1>6, FS_Subset
  <2>2. IsFiniteSet(tol) /\ IsFiniteSet(diff)
    BY <1>3, <2>1, FS_Subset
  <2> QED BY <2>1, <2>2, FS_Union
<1>8. /\ Cardinality(cols) \in Nat /\ Cardinality(tol) \in Nat /\ Cardinality(diff) \in Nat
      /\ Cardinality(rest) \in Nat
  <2>1. IsFiniteSet(rest)
    BY <1>7, FS_Difference
  <2> HIDE DEF rest
  <2> QED BY <1>7, <2>1, FS_CardinalityType
<1>9. Cardinality(cols) = Cardinality(rest) + Cardinality(tol) + Cardinality(diff)
  <2>1. Cardinality(tol \cup diff) = Cardinality(tol) + Cardinality(diff) - Cardinality({})
    BY <1>3, <1>7, FS_Union
  <2>2. Cardinality({}) = 0
    BY FS_EmptySet
  <2> DEFINE both == tol \cup diff
  <2>3. cols \cap both = both /\ rest = cols \ both
    BY <1>3
  <2> HIDE DEF both, rest
  <2>4. Cardinality(rest) = Cardinality(cols) - Cardinality(both)
    <3>1. Cardinality(cols \ both) = Cardinality(cols) - Cardinality(cols \cap both)
      BY <1>7, FS_Difference
    <3> QED BY <2>3, <3>1
  <2> QED BY <1>8, <2>1, <2>2, <2>4 DEF both
<1> HIDE DEF rest
<1>10. RedSums(c)
  <2>1. DOMAIN c.perInput = CmpInput
    BY <1>4, <1>5
  <2>2. /\ r.matched \in Nat /\ r.tolerated \in Nat /\ r.differing \in Nat
        /\ r.compared = r.matched + r.tolerated + r.differing
    BY DEF RedSums
  <2>3. /\ c.matched \in Nat /\ c.tolerated \in Nat /\ c.differing \in Nat
        /\ c.compared = c.matched + c.tolerated + c.differing
    BY <1>5, <1>8, <1>9, <2>2
  <2> QED BY <1>5, <2>1, <2>3 DEF RedSums
<1>11. \A i \in CmpInput : c.perInput[i] = r.perInput[i] + (IF i \in g THEN 1 ELSE 0)
  BY <1>4, <1>5
<1> QED BY <1>2, <1>5, <1>10, <1>11 DEF c

\* Two inputs of the same columns: the redline document counts the cells of a
\* group that the report shows.
SameColumns == Len(st.files) = 2 /\ \A o \in DOMAIN st.colnames : InAll(o)

\* The report and the redline document count the same cells then.
LEMMA RedlineCountsTheSame ==
    ASSUME AtRows, SameColumns, NEW g, g \subseteq CmpInput, g # {},
           NEW o \in DOMAIN st.colnames
    PROVE  CellDiffers(g, o) <=> Shows(g, o)
<1>1. CmpInput = {1, 2} /\ InAll(o)
  BY DEF AtRows, CmpInput, IsList, SameColumns
<1>2. st.out2in[1][o] # 0 /\ st.out2in[2][o] # 0
  BY <1>1 DEF InAll
<1> DEFINE m == Min(g)
<1>3. m \in g /\ \A y \in g : m <= y
  <2>1. g \subseteq Nat
    BY <1>1
  <2> QED BY <2>1, MinIsLeast
<1>4. CASE g = {1, 2}
  <2>1. m = 1 /\ g \ {m} = {2}
    BY <1>3, <1>4
  <2> HIDE DEF m
  <2>2. Differs(g, o) <=> /\ FoldCase(CmpCell(2, o)) # FoldCase(CmpCell(1, o))
                          /\ ~WithinTolerance(CmpCell(1, o), CmpCell(2, o))
    BY <1>2, <2>1, Zenon DEF Differs, m
  <2>3. AllWithin(o) <=> WithinTolerance(CmpCell(1, o), CmpCell(2, o))
    <3>1. CmpInput \ {1} = {2}
      BY <1>1
    <3>2. AllWithin(o) <=> st.opts.tol > 0 /\ WithinTolerance(CmpCell(1, o), CmpCell(2, o))
      BY <3>1, Zenon DEF AllWithin
    <3> QED BY <3>2, Zenon DEF WithinTolerance
  <2>4. CellsDiffer(o) <=> ~IsKeyColumn(o) /\ FoldCase(CmpCell(2, o)) # FoldCase(CmpCell(1, o))
    BY <1>1, Zenon DEF CellsDiffer
  <2> QED BY <1>1, <1>4, <2>2, <2>3, <2>4, Zenon DEF CellDiffers, Shows
<1>5. CASE g # {1, 2}
  <2>1. g \ {m} = {}
    BY <1>1, <1>3, <1>5
  <2>2. ~Differs(g, o)
    BY <2>1, Zenon DEF Differs
  <2> QED BY <1>1, <1>5, <2>2 DEF CellDiffers, Shows
<1> QED BY <1>4, <1>5

\* What the counters have come to: the cells that differ in the rows let go,
\* and for each input the rows that were collected.
Real == Cardinality(RealDifferences(Met(st.next)))
DifferencesCounted ==
    /\ ~st.opts.redline => st.diffs = Real
    /\ st.opts.redline /\ SameColumns => st.redline.differing = Real
    /\ st.opts.redline /\ st.pc = "done" => st.diffs = st.redline.differing
Collected ==
    st.opts.redline /\ ~st.opts.requireAll =>
        \A i \in CmpInput : st.redline.perInput[i] = st.next[i] - 1
CountInv ==
    /\ RedSums(st.redline)
    /\ st.pc \in {"open", "columns"} =>
         /\ st.diffs = 0 /\ st.redline.differing = 0
         /\ \A i \in CmpInput : st.redline.perInput[i] = 0
    /\ InRows => Distinct(st.colnames) /\ Collected /\ (InKeyOrder => DifferencesCounted)

\* The counters at the start.
LEMMA CountInitInv == CompareInit => CountInv
<1> SUFFICES ASSUME CompareInit PROVE CountInv
  OBVIOUS
<1>1. PICK f \in CmpInputs, o \in CmpOptions :
        st = [pc |-> "open", files |-> f, opts |-> o, status |-> "ok",
              colnames |-> <<>>, out2in |-> <<>>, keyCols |-> <<>>,
              next |-> [i \in DOMAIN f |-> 1], rowCount |-> 0, diffs |-> 0,
              redline |-> [inAll |-> 0, missing |-> [i \in DOMAIN f |-> 0],
                           perInput |-> [i \in DOMAIN f |-> 0], withDiff |-> 0,
                           compared |-> 0, matched |-> 0, tolerated |-> 0, differing |-> 0]]
  BY DEF CompareInit
<1>2. /\ st.redline = [inAll |-> 0, missing |-> [i \in DOMAIN f |-> 0],
                       perInput |-> [i \in DOMAIN f |-> 0], withDiff |-> 0,
                       compared |-> 0, matched |-> 0, tolerated |-> 0, differing |-> 0]
      /\ st.pc = "open" /\ st.diffs = 0 /\ CmpInput = DOMAIN f
  BY <1>1 DEF CmpInput
<1>3. RedSums(st.redline)
  BY <1>2 DEF RedSums, RedShape
<1> QED BY <1>2, <1>3 DEF CountInv, InRows

\* Before the rows nothing is counted.
LEMMA CountOpenInv ==
    ASSUME MergeInv, CountInv, CompareOpen
    PROVE  CountInv'
<1>1. /\ st.pc = "open" /\ st'.pc \in {"columns", "done"}
      /\ (st'.pc = "done" => st'.status # "ok")
      /\ st'.redline = st.redline /\ st'.diffs = st.diffs
  BY DEF CompareOpen, MergeInv, CmpFrame, CmpShape
<1>2. CmpInput' = CmpInput
  BY DEF CompareOpen, MergeInv, CmpFrame, CmpShape, CmpInput
<1> QED BY <1>1, <1>2 DEF CountInv, RedSums, RedShape, InRows

\* The columns are known, and distinct; nothing has been counted.
LEMMA CountColumnsInv ==
    ASSUME MergeInv, CountInv, CompareColumns
    PROVE  CountInv'
<1>1. /\ st.pc = "columns" /\ st'.pc \in {"rows", "done"}
      /\ (st'.pc = "done" => st'.status # "ok")
      /\ st'.redline = st.redline /\ st'.diffs = st.diffs /\ st'.files = st.files
      /\ st'.opts = st.opts /\ st'.next = st.next /\ st'.colnames = UnionColumns(st.files)
  BY DEF CompareColumns, MergeInv, CmpFrame, CmpShape
<1>2. CmpInput' = CmpInput
  BY <1>1 DEF CmpInput
<1>3. RedSums(st.redline)'
  BY <1>1, <1>2 DEF CountInv, RedSums, RedShape
<1>4. IsSequence(st'.colnames) /\ Distinct(st'.colnames)
  <2>1. IsList(st.files) /\ \A i \in DOMAIN st.files : IsList(st.files[i].header)
    BY DEF MergeInv, CmpFrame, CellFile, CmpInput
  <2> QED BY <1>1, <2>1, UnionIsDistinct
<1>5. /\ \A i \in CmpInput : st'.next[i] = 1 /\ st'.redline.perInput[i] = 0
      /\ st'.diffs = 0 /\ st'.redline.differing = 0
  BY <1>1 DEF MergeInv, CmpFrame, CountInv
<1>6. Real' = 0
  <2>1. \A i \in CmpInput : 1..st'.next[i]-1 = {}
    BY <1>5
  <2>2. Met(st.next)' = {}
    BY <1>2, <2>1 DEF Met
  <2>3. RealDifferences(Met(st.next))' = {}
    BY <2>2 DEF RealDifferences
  <2> QED BY <2>3, FS_EmptySet DEF Real
<1>7. InRows' => Collected' /\ DifferencesCounted'
  <2>1. InRows' => st'.pc = "rows"
    BY <1>1 DEF InRows
  <2> QED BY <1>2, <1>5, <1>6, <2>1 DEF Collected, DifferencesCounted
<1> QED BY <1>1, <1>3, <1>4, <1>7 DEF CountInv

\* The differences of a set of rows, while rows are let go.
LEMMA DifferencesStay ==
    ASSUME Unmoved, st'.out2in = st.out2in
    PROVE  /\ \A ids : RealDifferences(ids)' = RealDifferences(ids)
           /\ SameColumns' <=> SameColumns
<1>1. CmpInput' = CmpInput /\ \A id : Matches(id)' = Matches(id)
      /\ \A i, r : Identity(i, r)' = Identity(i, r)
  BY KeysStay
<1>2. \A i, id : RowOf(i, id)' = RowOf(i, id)
  BY <1>1 DEF RowOf, RowsOf, Unmoved
<1>3. \A o : (IsKeyColumn(o)' <=> IsKeyColumn(o)) /\ (InAll(o)' <=> InAll(o))
  BY <1>1 DEF IsKeyColumn, InAll, Unmoved
<1>4. \A a, b : WithinTolerance(a, b)' <=> WithinTolerance(a, b)
  BY DEF WithinTolerance, Unmoved
<1>5. SameColumns' <=> SameColumns
  BY <1>3 DEF SameColumns, Unmoved
<1>6. ASSUME NEW ids PROVE RealDifferences(ids)' = RealDifferences(ids)
  BY <1>1, <1>2, <1>3, <1>4 DEF RealDifferences, Unmoved
<1> QED BY <1>5, <1>6

\* A group is counted.
LEMMA CountGroupInv ==
    ASSUME MergeInv, CountInv, CompareNextGroup
    PROVE  CountInv'
<1> DEFINE shown == ~st.opts.requireAll \/ Group = CmpInput
           lines == IF shown /\ ~st.opts.redline THEN PrintRow(Group) ELSE <<>>
           n == Cardinality({k \in DOMAIN lines : lines[k].kind = "diff"})
           redline == IF shown /\ st.opts.redline THEN CollectRow(st.redline, Group) ELSE st.redline
           D == DOMAIN st.colnames
<1>1. /\ st.pc = "rows" /\ LoadedInputs # {}
      /\ st' = [st EXCEPT !.rowCount = st.rowCount + 1, !.next = Onward,
                          !.diffs = st.diffs + n, !.redline = redline]
  BY DEF CompareNextGroup, Onward
<1> HIDE DEF n, redline
<1>2. /\ st'.pc = "rows" /\ st'.status = st.status /\ st'.next = Onward
      /\ st'.diffs = st.diffs + n /\ st'.redline = redline
      /\ st'.out2in = st.out2in /\ Unmoved
  BY <1>1 DEF MergeInv, CmpFrame, CmpShape, Unmoved
<1>3. InRows /\ CmpPlaces /\ InRows'
  BY <1>1, <1>2 DEF InRows, MergeInv, CmpFrame
<1>4. /\ AtRows /\ IsList(st.colnames) /\ IsSequence(st.colnames) /\ Distinct(st.colnames)
      /\ (InKeyOrder => KeysAreSorted /\ Passed(st.next) /\ DifferencesCounted)
      /\ RedSums(st.redline) /\ Collected
  BY <1>3, RowsHaveKeys DEF MergeInv, CountInv, CmpPlaces, Merged
<1>5. /\ CmpInput' = CmpInput /\ (InKeyOrder' <=> InKeyOrder) /\ (SameColumns' <=> SameColumns)
      /\ \A ids : RealDifferences(ids)' = RealDifferences(ids)
      /\ \A i, r : Identity(i, r)' = Identity(i, r)
  BY <1>2, KeysStay, DifferencesStay
<1>6. D = 1..Len(st.colnames)
  BY <1>4, AppendIsSequence
<1>7. /\ RedSums(CollectRow(st.redline, Group))
      /\ CollectRow(st.redline, Group).differing
           = st.redline.differing + Cardinality({o \in D : CellDiffers(Group, o)})
      /\ \A i \in CmpInput : CollectRow(st.redline, Group).perInput[i]
           = st.redline.perInput[i] + (IF i \in Group THEN 1 ELSE 0)
  BY <1>4, CollectKeepsSums
<1>8. RedSums(st.redline)'
  <2>1. RedSums(redline)
    BY <1>4, <1>7 DEF redline
  <2> QED BY <1>2, <1>5, <2>1 DEF RedSums, RedShape
<1>9. Collected'
  <2> SUFFICES ASSUME st.opts.redline, ~st.opts.requireAll, NEW i \in CmpInput
               PROVE  redline.perInput[i] = Onward[i] - 1
    BY <1>2, <1>5 DEF Collected, Unmoved
  <2>1. redline = CollectRow(st.redline, Group)
    BY DEF redline
  <2>2. redline.perInput[i] = st.redline.perInput[i] + (IF i \in Group THEN 1 ELSE 0)
    BY <1>7, <2>1
  <2>3. st.redline.perInput[i] = st.next[i] - 1 /\ st.next[i] \in Nat
    BY <1>3, <1>4 DEF Collected, CmpPlaces
  <2>4. Onward[i] = IF i \in Group THEN st.next[i] + 1 ELSE st.next[i]
    BY DEF Onward
  <2> HIDE DEF Onward, Group
  <2> QED BY <2>2, <2>3, <2>4
<1>10. Distinct(st.colnames)'
  BY <1>2, <1>4 DEF Unmoved, Distinct
<1>11. ASSUME InKeyOrder' PROVE DifferencesCounted'
  <2>1. KeysAreSorted /\ Passed(st.next) /\ DifferencesCounted
    BY <1>4, <1>5, <1>11
  <2>2. Cardinality(RealDifferences(Met(Onward))) = Real + GroupCount
        /\ Real \in Nat /\ GroupCount \in Nat
    BY <1>1, <1>4, <2>1, DifferencesGrow DEF Real
  <2>3. Met(st.next)' = Met(Onward)
    BY <1>2, <1>5 DEF Met
  <2>4. Real' = Real + GroupCount
    <3>1. RealDifferences(Met(st.next))' = RealDifferences(Met(Onward))
      BY <1>5, <2>3
    <3> QED BY <2>2, <3>1 DEF Real
  <2>5. ASSUME ~st.opts.redline PROVE n = GroupCount
    <3>1. CASE shown
      <4>1. lines = PrintRow(Group)
        BY <2>5, <3>1
      <4>2. LinesUpTo(Group, lines, Len(st.colnames))
        BY <1>4, <4>1, LinesOfGroup
      <4> HIDE DEF lines
      <4>3. n = Cardinality({p \in 1..Len(st.colnames) : Shows(Group, p)})
        BY <4>2 DEF LinesUpTo, n
      <4> QED BY <3>1, <4>3, Zenon DEF GroupCount
    <3>2. CASE ~shown
      <4>1. lines = <<>>
        BY <3>2
      <4>2. {k \in DOMAIN lines : lines[k].kind = "diff"} = {}
        BY <4>1
      <4> HIDE DEF lines
      <4>3. n = 0
        BY <4>2, FS_EmptySet DEF n
      <4> QED BY <3>2, <4>3 DEF GroupCount
    <3> QED BY <3>1, <3>2
  <2>6. ASSUME st.opts.redline, SameColumns
        PROVE  redline.differing = st.redline.differing + GroupCount
    <3>1. CASE shown
      <4>1. Group # {} /\ Group \subseteq CmpInput
        BY <1>1, <1>4, <2>1, GroupIsSome DEF LoadedInputs
      <4>2. \A o \in D : CellDiffers(Group, o) <=> Shows(Group, o)
        BY <1>4, <2>6, <4>1, RedlineCountsTheSame
      <4>3. {o \in D : CellDiffers(Group, o)} = {o \in 1..Len(st.colnames) : Shows(Group, o)}
        BY <1>6, <4>2
      <4>4. redline = CollectRow(st.redline, Group)
        BY <2>6, <3>1 DEF redline
      <4>5. GroupCount = Cardinality({o \in 1..Len(st.colnames) : Shows(Group, o)})
        BY <3>1, Zenon DEF GroupCount
      <4> QED BY <1>7, <4>3, <4>4, <4>5
    <3>2. CASE ~shown
      <4>1. redline = st.redline /\ GroupCount = 0
        BY <3>2 DEF redline, GroupCount
      <4>2. st.redline.differing \in Nat
        BY <1>4 DEF RedSums
      <4> QED BY <4>1, <4>2
    <3> QED BY <3>1, <3>2
  <2>7. (~st.opts.redline => st.diffs = Real)
        /\ (st.opts.redline /\ SameColumns => st.redline.differing = Real)
    BY <2>1 DEF DifferencesCounted
  <2>8. st'.opts = st.opts
    BY <1>2 DEF Unmoved
  <2> HIDE DEF lines
  <2>9. ~st'.opts.redline => st'.diffs = Real'
    BY <1>2, <2>4, <2>5, <2>7, <2>8
  <2>10. st'.opts.redline /\ SameColumns' => st'.redline.differing = Real'
    BY <1>2, <1>5, <2>4, <2>6, <2>7, <2>8
  <2> QED BY <1>2, <2>9, <2>10 DEF DifferencesCounted
<1> QED BY <1>2, <1>8, <1>9, <1>10, <1>11 DEF CountInv

\* The end puts the count of the redline document in the place of the exit code.
LEMMA CountEndInv ==
    ASSUME MergeInv, CountInv, CompareEnd
    PROVE  CountInv'
<1> DEFINE d == IF st.opts.redline THEN st.redline.differing ELSE st.diffs
<1>1. st.pc = "rows" /\ st' = [st EXCEPT !.pc = "done", !.diffs = d]
  BY DEF CompareEnd
<1> HIDE DEF d
<1>2. /\ st'.pc = "done" /\ st'.status = st.status /\ st'.next = st.next
      /\ st'.diffs = d /\ st'.redline = st.redline /\ st'.out2in = st.out2in /\ Unmoved
  BY <1>1 DEF MergeInv, CmpFrame, CmpShape, Unmoved
<1>3. InRows
  BY <1>1 DEF InRows, MergeInv, CmpFrame
<1>4. /\ CmpInput' = CmpInput /\ (InKeyOrder' <=> InKeyOrder) /\ (SameColumns' <=> SameColumns)
      /\ \A ids : RealDifferences(ids)' = RealDifferences(ids)
      /\ \A i, r : Identity(i, r)' = Identity(i, r)
  BY <1>2, KeysStay, DifferencesStay
<1>5. Met(st.next)' = Met(st.next)
  BY <1>2, <1>4 DEF Met
<1>6. Real' = Real
  BY <1>4, <1>5 DEF Real
<1>7. RedSums(st.redline)' /\ Distinct(st.colnames)' /\ Collected'
  BY <1>2, <1>3, <1>4 DEF CountInv, RedSums, RedShape, Distinct, Collected, Unmoved
<1>8. ASSUME InKeyOrder' PROVE DifferencesCounted'
  <2>1. DifferencesCounted
    BY <1>3, <1>4, <1>8 DEF CountInv
  <2> QED BY <1>2, <1>4, <1>6, <2>1 DEF DifferencesCounted, Unmoved, d
<1> QED BY <1>2, <1>7, <1>8 DEF CountInv

\* No step breaks the counts.
LEMMA CountNextInv ==
    ASSUME MergeInv, CountInv, [CompareNext \/ Finished]_procVars
    PROVE  CountInv'
<1>1. CASE CompareNext
  BY <1>1, CountOpenInv, CountColumnsInv, CountGroupInv, CountEndInv DEF CompareNext
<1>2. CASE Finished \/ UNCHANGED procVars
  <2>1. st' = st
    BY <1>2 DEF Finished, procVars
  <2>2. Unmoved
    BY <2>1 DEF Unmoved
  <2>3. /\ CmpInput' = CmpInput /\ (InKeyOrder' <=> InKeyOrder) /\ (SameColumns' <=> SameColumns)
        /\ \A ids : RealDifferences(ids)' = RealDifferences(ids)
        /\ \A i, r : Identity(i, r)' = Identity(i, r)
    BY <2>1, <2>2, KeysStay, DifferencesStay
  <2>4. Met(st.next)' = Met(st.next)
    BY <2>1, <2>3 DEF Met
  <2>5. Real' = Real
    BY <2>3, <2>4 DEF Real
  <2>6. (InRows' <=> InRows) /\ (Collected' <=> Collected) /\ (DifferencesCounted' <=> DifferencesCounted)
    BY <2>1, <2>3, <2>5 DEF InRows, Collected, DifferencesCounted
  <2> QED BY <2>1, <2>3, <2>6 DEF CountInv, RedSums, RedShape, Distinct
<1> QED BY <1>1, <1>2

\* What the invariants say once the comparison is done.
LEMMA CountedIsReal == MergeInv /\ CountInv => ExitCodeCountsDifferences
<1> SUFFICES ASSUME MergeInv, CountInv, CompareDone, InKeyOrder, st.opts.redline => SameColumns
             PROVE  LET ids == UNION {{Identity(i, r) : r \in RowsOf(i)} : i \in CmpInput}
                        r == st.redline
                    IN  /\ st.diffs = Cardinality(RealDifferences(ids))
                        /\ st.opts.redline =>
                             /\ r.compared = r.matched + r.tolerated + r.differing
                             /\ ~st.opts.requireAll =>
                                  \A i \in CmpInput : r.perInput[i] = Len(st.files[i].rows)
  BY Zenon DEF ExitCodeCountsDifferences, SameColumns
<1> DEFINE ids == UNION {{Identity(i, r) : r \in RowsOf(i)} : i \in CmpInput}
<1>1. Met(st.next) = ids
  BY AllAreMet
<1> HIDE DEF ids
<1>2. InRows /\ st.pc = "done"
  BY DEF CompareDone, InRows
<1>3. DifferencesCounted /\ Collected /\ RedSums(st.redline) /\ CmpPlaces
  BY <1>2 DEF CountInv, MergeInv
<1>4. st.diffs = Cardinality(RealDifferences(ids))
  <2>1. st.diffs = Real
    BY <1>2, <1>3 DEF DifferencesCounted
  <2> QED BY <1>1, <2>1 DEF Real
<1>5. st.redline.compared = st.redline.matched + st.redline.tolerated + st.redline.differing
  BY <1>3 DEF RedSums
<1>6. ASSUME st.opts.redline, ~st.opts.requireAll, NEW i \in CmpInput
      PROVE  st.redline.perInput[i] = Len(st.files[i].rows)
  <2>1. st.redline.perInput[i] = st.next[i] - 1
    BY <1>3, <1>6 DEF Collected
  <2>2. IsList(st.files[i].rows)
    BY DEF MergeInv, CmpFrame, CellFile
  <2>3. st.next[i] \in 1..Len(st.files[i].rows)+1 /\ ~(st.next[i] <= Len(st.files[i].rows))
    BY <1>2, <1>3 DEF CmpPlaces, LoadedInputs
  <2> QED BY <2>1, <2>2, <2>3 DEF IsList
<1> QED BY <1>4, <1>5, <1>6 DEF ids

\* The exit code of compare is the number of cells that differ, in the report
\* and in the redline document alike, for inputs in the order of their keys.
THEOREM ExitCodeCounts == CompareSpec => []ExitCodeCountsDifferences
<1>1. CompareSpec => []MergeInv
  BY CmpInitInv, CmpNextInv, PTL DEF CompareSpec
<1>2. CompareSpec => [](MergeInv /\ CountInv)
  BY <1>1, CountInitInv, CountNextInv, PTL DEF CompareSpec
<1> QED
  BY <1>2, CountedIsReal, PTL

-----------------------------------------------------------------------------
(* stack: columns of the same name are told apart by their number          *)

\* The columns of a header before c that have its name.
Twins(h, c) == {b \in 1..(c - 1) : StackLower(h[b]) = StackLower(h[c])}

\* Their number.
LEMMA TwinsAreCounted ==
    ASSUME NEW h, NEW c \in Nat
    PROVE  IsFiniteSet(Twins(h, c)) /\ Cardinality(Twins(h, c)) \in Nat
<1>1. IsFiniteSet(1..(c - 1))
  BY FS_Interval
<1>2. Twins(h, c) \subseteq 1..(c - 1)
  BY DEF Twins
<1> QED BY <1>1, <1>2, FS_Subset, FS_CardinalityType

\* One column more of the name of column b, when no other stands between.
LEMMA NextTwin ==
    ASSUME NEW h, NEW c \in Nat, NEW b \in Twins(h, c), \A a \in Twins(h, c) : a <= b
    PROVE  Cardinality(Twins(h, c)) = Cardinality(Twins(h, b)) + 1
<1>1. b \in Nat /\ b >= 1 /\ b <= c - 1 /\ StackLower(h[b]) = StackLower(h[c])
  BY DEF Twins
<1>2. Twins(h, c) = Twins(h, b) \cup {b}
  <2>1. ASSUME NEW a \in Twins(h, c) PROVE a \in Twins(h, b) \cup {b}
    <3>1. a \in 1..(c - 1) /\ a <= b /\ StackLower(h[a]) = StackLower(h[c])
      BY <2>1 DEF Twins
    <3>2. a = b \/ a \in 1..(b - 1)
      BY <1>1, <3>1
    <3> QED BY <1>1, <3>1, <3>2 DEF Twins
  <2>2. ASSUME NEW a \in Twins(h, b) PROVE a \in Twins(h, c)
    <3>1. a \in 1..(b - 1) /\ StackLower(h[a]) = StackLower(h[b])
      BY <2>2 DEF Twins
    <3>2. a \in 1..(c - 1)
      BY <1>1, <3>1
    <3> QED BY <1>1, <3>1, <3>2 DEF Twins
  <2> QED BY <2>1, <2>2
<1>3. b \notin Twins(h, b)
  BY <1>1 DEF Twins
<1>4. IsFiniteSet(Twins(h, b))
  BY <1>1, TwinsAreCounted
<1> QED BY <1>2, <1>3, <1>4, FS_AddElement

\* The greatest of the twins, if there is one.
LEMMA LastTwin ==
    ASSUME NEW h, NEW c \in Nat, Twins(h, c) # {}
    PROVE  \E b \in Twins(h, c) : \A a \in Twins(h, c) : a <= b
<1> DEFINE D == {c - b : b \in Twins(h, c)}
<1>1. Twins(h, c) \subseteq 1..(c - 1)
  BY DEF Twins
<1>2. D \subseteq Nat /\ D # {}
  BY <1>1
<1>3. PICK d \in D : \A e \in D : d <= e
  <2> HIDE DEF D
  <2> QED BY <1>2, LeastNatural
<1>4. PICK b \in Twins(h, c) : d = c - b
  BY <1>3
<1>5. \A a \in Twins(h, c) : c - b <= c - a
  BY <1>3, <1>4
<1> QED BY <1>1, <1>4, <1>5

\* Without --unique a column that is not the first of its name has one before
\* it whose occurrence is one less.
LEMMA OccurrenceBefore ==
    ASSUME NEW h, NEW c \in Nat, Cardinality(Twins(h, c)) > 0
    PROVE  \E b \in Twins(h, c) : Cardinality(Twins(h, b)) = Cardinality(Twins(h, c)) - 1
<1>1. Twins(h, c) # {}
  BY FS_EmptySet
<1>2. PICK b \in Twins(h, c) : \A a \in Twins(h, c) : a <= b
  BY <1>1, LastTwin
<1>3. b \in Nat
  BY DEF Twins
<1>4. Cardinality(Twins(h, b)) \in Nat
  BY <1>3, TwinsAreCounted
<1>5. Cardinality(Twins(h, c)) = Cardinality(Twins(h, b)) + 1
  BY <1>2, NextTwin
<1> QED BY <1>4, <1>5

\* The output columns: each has a key of its own, which is its name and how
\* many columns of that name stand before it.
Names(unique, names) ==
    /\ IsSequence(names)
    /\ \A o \in DOMAIN names :
         /\ names[o].key = <<StackLower(names[o].name), names[o].key[2]>>
         /\ names[o].key[2] \in Nat /\ (unique => names[o].key[2] = 0)
         /\ \A j \in Nat : j < names[o].key[2] =>
              \E p \in DOMAIN names : p < o /\ names[p].key = <<StackLower(names[o].name), j>>
    /\ \A o, p \in DOMAIN names : names[o].key = names[p].key => o = p

\* Before a column of some number the ones of the lower numbers.
LEMMA NamesBefore ==
    ASSUME NEW unique, NEW names, Names(unique, names), NEW o \in DOMAIN names,
           NEW j \in Nat, j < names[o].key[2]
    PROVE  \E p \in DOMAIN names : p < o /\ names[p].key = <<StackLower(names[o].name), j>>
BY Zenon DEF Names

\* One more.
LEMMA NameIsAdded ==
    ASSUME NEW unique, NEW names, Names(unique, names), NEW name, NEW j \in Nat, unique => j = 0,
           \A o \in DOMAIN names : names[o].key # <<StackLower(name), j>>,
           j > 0 => \E o \in DOMAIN names : names[o].key = <<StackLower(name), j - 1>>
    PROVE  Names(unique, Append(names, [key |-> <<StackLower(name), j>>, name |-> name]))
<1>1. PICK e : e = [key |-> <<StackLower(name), j>>, name |-> name]
  OBVIOUS
<1>2. e.key = <<StackLower(name), j>> /\ e.name = name /\ e.key[2] = j
  BY <1>1
<1>3. PICK a, n : a = Append(names, e) /\ n = Len(names)
  OBVIOUS
<1>4. /\ IsSequence(a) /\ DOMAIN names = 1..n /\ DOMAIN a = 1..(n + 1) /\ n \in Nat
      /\ a[n + 1] = e /\ \A k \in 1..n : a[k] = names[k]
  BY <1>3, AppendIsSequence DEF Names
<1>5. ASSUME NEW o \in 1..n
      PROVE  /\ a[o].key = <<StackLower(a[o].name), a[o].key[2]>>
             /\ a[o].key[2] \in Nat /\ (unique => a[o].key[2] = 0)
             /\ \A i \in Nat : i < a[o].key[2] =>
                  \E p \in DOMAIN a : p < o /\ a[p].key = <<StackLower(a[o].name), i>>
  <2>1. /\ names[o].key = <<StackLower(names[o].name), names[o].key[2]>>
        /\ names[o].key[2] \in Nat /\ (unique => names[o].key[2] = 0)
    BY <1>4, Zenon DEF Names
  <2>2. a[o] = names[o]
    BY <1>4
  <2>3. ASSUME NEW i \in Nat, i < a[o].key[2]
        PROVE  \E p \in DOMAIN a : p < o /\ a[p].key = <<StackLower(a[o].name), i>>
    <3>1. PICK p \in 1..n : p < o /\ names[p].key = <<StackLower(names[o].name), i>>
      <4>1. o \in DOMAIN names /\ i < names[o].key[2]
        BY <1>4, <2>2, <2>3
      <4>2. \E p \in DOMAIN names : p < o /\ names[p].key = <<StackLower(names[o].name), i>>
        BY <4>1, NamesBefore
      <4> QED BY <1>4, <4>2
    <3>2. p \in DOMAIN a /\ a[p] = names[p]
      BY <1>4, <3>1
    <3> QED BY <2>2, <3>1, <3>2
  <2> QED BY <2>1, <2>2, <2>3
<1>6. /\ a[n + 1].key = <<StackLower(a[n + 1].name), a[n + 1].key[2]>>
      /\ a[n + 1].key[2] \in Nat /\ (unique => a[n + 1].key[2] = 0)
  BY <1>2, <1>4
<1>7. ASSUME NEW i \in Nat, i < a[n + 1].key[2]
      PROVE  \E p \in DOMAIN a : p < n + 1 /\ a[p].key = <<StackLower(a[n + 1].name), i>>
  <2>1. i < j /\ a[n + 1].name = name
    BY <1>2, <1>4, <1>7
  <2>2. PICK o \in 1..n : names[o].key = <<StackLower(name), j - 1>>
    BY <1>4, <2>1
  <2>3. PICK p \in 1..n : names[p].key = <<StackLower(name), i>>
    <3>1. CASE i = j - 1
      BY <2>2, <3>1
    <3>2. CASE i # j - 1
      <4>1. names[o].key[2] = j - 1 /\ i < j - 1
        BY <2>1, <2>2, <3>2
      <4>2. names[o].key = <<StackLower(names[o].name), names[o].key[2]>>
        BY <1>4 DEF Names
      <4>3. StackLower(names[o].name) = StackLower(name)
        BY <2>2, <4>2
      <4>4. \E p \in 1..n : p < o /\ names[p].key = <<StackLower(names[o].name), i>>
        <5>1. \E p \in DOMAIN names : p < o /\ names[p].key = <<StackLower(names[o].name), i>>
          <6>1. o \in DOMAIN names /\ i < names[o].key[2]
            BY <1>4, <4>1
          <6> QED BY <6>1, NamesBefore
        <5> QED BY <1>4, <5>1
      <4> QED BY <4>3, <4>4
    <3> QED BY <3>1, <3>2
  <2>4. p \in DOMAIN a /\ p < n + 1 /\ a[p] = names[p]
    BY <1>4
  <2> QED BY <2>1, <2>3, <2>4
<1>8. ASSUME NEW o \in 1..(n + 1), NEW p \in 1..(n + 1), a[o].key = a[p].key PROVE o = p
  <2>1. CASE o \in 1..n /\ p \in 1..n
    <3>1. names[o].key = names[p].key
      BY <1>4, <1>8, <2>1
    <3> QED BY <1>4, <2>1, <3>1 DEF Names
  <2>2. CASE o = n + 1 /\ p = n + 1
    BY <2>2
  <2>3. CASE (o = n + 1 /\ p \in 1..n) \/ (o \in 1..n /\ p = n + 1)
    <3>1. \A q \in 1..n : a[q].key # a[n + 1].key
      BY <1>2, <1>4
    <3> QED BY <1>8, <2>3, <3>1
  <2> QED BY <1>4, <2>1, <2>2, <2>3
<1>9. \A o \in DOMAIN a : o \in 1..n \/ o = n + 1
  BY <1>4
<1>10. ASSUME NEW o \in DOMAIN a
       PROVE  /\ a[o].key = <<StackLower(a[o].name), a[o].key[2]>>
              /\ a[o].key[2] \in Nat /\ (unique => a[o].key[2] = 0)
              /\ \A i \in Nat : i < a[o].key[2] =>
                   \E p \in DOMAIN a : p < o /\ a[p].key = <<StackLower(a[o].name), i>>
  <2>1. CASE o \in 1..n
    BY <1>5, <2>1
  <2>2. CASE o = n + 1
    BY <1>6, <1>7, <2>2
  <2> QED BY <1>9, <2>1, <2>2
<1>11. Names(unique, a)
  BY <1>4, <1>8, <1>10 DEF Names
<1> QED BY <1>1, <1>3, <1>11

\* So the header that is printed says for each column the key it has.
LEMMA NamesKeepTheirKeys ==
    ASSUME NEW unique, NEW names, Names(unique, names), NEW h,
           \A o \in DOMAIN names : h[o] = names[o].name,
           NEW o \in DOMAIN names
    PROVE  ColumnKey(unique, h, o) = names[o].key
<1>1. PICK n : n = Len(names)
  OBVIOUS
<1>2. n \in Nat /\ DOMAIN names = 1..n
  BY <1>1 DEF Names, IsSequence
<1> DEFINE num(p) == names[p].key[2]
           name(p) == StackLower(names[p].name)
<1>3. \A p \in 1..n : names[p].key = <<name(p), num(p)>> /\ num(p) \in Nat
  BY <1>2 DEF Names
<1>4. \A p \in 1..n : \A j \in Nat : j < num(p) =>
        \E q \in 1..n : q < p /\ names[q].key = <<name(p), j>>
  <2> SUFFICES ASSUME NEW p \in 1..n, NEW j \in Nat, j < num(p)
               PROVE  \E q \in 1..n : q < p /\ names[q].key = <<name(p), j>>
    OBVIOUS
  <2>1. \E q \in DOMAIN names : q < p /\ names[q].key = <<StackLower(names[p].name), j>>
    BY <1>2, NamesBefore
  <2> QED BY <1>2, <2>1
<1>5. \A p, q \in 1..n : names[p].key = names[q].key => p = q
  BY <1>2 DEF Names
<1>6. unique => num(o) = 0
  BY DEF Names
<1>7. \A p \in 1..n : StackLower(h[p]) = name(p)
  BY <1>2
<1> HIDE DEF num, name
<1> DEFINE W == {m \in 0..n : \A p \in 1..m : Cardinality(Twins(h, p)) = num(p)}
<1>8. 0 \in W
  BY <1>2
<1>9. ASSUME NEW p \in 1..n PROVE Cardinality(Twins(h, p)) = num(p) \/ p - 1 \notin W
  <2>1. p \in Nat /\ \A a \in Twins(h, p) : a \in 1..n /\ a < p /\ names[a].key = <<name(p), num(a)>>
    <3>1. \A a \in Twins(h, p) : a \in 1..(p - 1) /\ StackLower(h[a]) = StackLower(h[p])
      BY DEF Twins
    <3>2. \A a \in Twins(h, p) : a \in 1..n /\ a < p
      BY <1>2, <3>1
    <3> QED BY <1>2, <1>3, <1>7, <3>1, <3>2
  <2>2. CASE num(p) = 0
    <3>1. ASSUME NEW a \in Twins(h, p) PROVE FALSE
      <4>1. a \in 1..n /\ a < p /\ names[a].key = <<name(p), num(a)>> /\ num(a) \in Nat
        BY <1>3, <2>1
      <4>2. num(a) # 0
        <5>1. num(a) = 0 => names[a].key = names[p].key
          BY <1>3, <2>2, <4>1
        <5>2. a # p
          BY <2>1, <4>1
        <5> QED BY <1>5, <4>1, <5>1, <5>2
      <4>3. name(a) = name(p)
        BY <1>3, <4>1
      <4>4. 0 \in Nat /\ 0 < num(a)
        BY <4>1, <4>2
      <4>5. PICK q \in 1..n : q < a /\ names[q].key = <<name(a), 0>>
        BY <1>4, <4>1, <4>4
      <4>6. names[q].key = names[p].key
        BY <1>3, <2>2, <4>3, <4>5
      <4>7. q = p
        BY <1>5, <4>6
      <4> QED BY <2>1, <4>1, <4>5, <4>7
    <3>2. Twins(h, p) = {}
      BY <3>1
    <3> QED BY <2>2, <3>2, FS_EmptySet
  <2>3. CASE num(p) # 0
    <3>1. num(p) - 1 \in Nat /\ num(p) - 1 < num(p) /\ num(p) \in Nat
      BY <1>3, <2>3
    <3>2. PICK b \in 1..n : b < p /\ names[b].key = <<name(p), num(p) - 1>>
      BY <1>4, <3>1
    <3>3. name(b) = name(p) /\ num(b) = num(p) - 1
      BY <1>3, <3>2
    <3>4. b \in Twins(h, p)
      <4>1. b \in 1..(p - 1)
        BY <2>1, <3>2
      <4> QED BY <1>7, <3>3, <4>1 DEF Twins
    <3>5. ASSUME NEW a \in Twins(h, p), ~(a <= b) PROVE FALSE
      <4>1. a \in 1..n /\ a < p /\ names[a].key = <<name(p), num(a)>> /\ num(a) \in Nat
        BY <1>3, <2>1
      <4>2. name(a) = name(p)
        BY <1>3, <4>1
      <4>3. num(a) # num(p)
        <5>1. num(a) = num(p) => names[a].key = names[p].key
          BY <1>3, <4>1
        <5>2. a # p
          BY <2>1, <4>1
        <5> QED BY <1>5, <4>1, <5>1, <5>2
      <4>4. num(a) # num(p) - 1
        <5>1. num(a) = num(p) - 1 => names[a].key = names[b].key
          BY <3>2, <4>1
        <5>2. a # b
          BY <2>1, <3>5, <4>1
        <5> QED BY <1>5, <4>1, <5>1, <5>2
      <4>5. CASE num(p) < num(a)
        <5>1. PICK q \in 1..n : q < a /\ names[q].key = <<name(a), num(p)>>
          BY <1>4, <3>1, <4>1, <4>5
        <5>2. names[q].key = names[p].key
          BY <1>3, <4>2, <5>1
        <5>3. q = p
          BY <1>5, <5>2
        <5> QED BY <2>1, <4>1, <5>1, <5>3
      <4>6. CASE num(a) < num(b)
        <5>1. PICK q \in 1..n : q < b /\ names[q].key = <<name(b), num(a)>>
          BY <1>4, <4>1, <4>6
        <5>2. names[q].key = names[a].key
          BY <3>3, <4>1, <5>1
        <5>3. q = a
          BY <1>5, <4>1, <5>2
        <5> QED BY <2>1, <3>2, <3>5, <4>1, <5>1, <5>3
      <4>7. num(p) < num(a) \/ num(a) < num(b)
        BY <3>1, <3>3, <4>1, <4>3, <4>4
      <4> QED BY <4>5, <4>6, <4>7
    <3>6. Cardinality(Twins(h, p)) = Cardinality(Twins(h, b)) + 1
      BY <2>1, <3>4, <3>5, NextTwin
    <3>7. p - 1 \in W => Cardinality(Twins(h, b)) = num(b)
      <4>1. b \in 1..(p - 1)
        BY <2>1, <3>2
      <4> QED BY <4>1
    <3> QED BY <3>1, <3>3, <3>6, <3>7
  <2> QED BY <2>2, <2>3
<1>10. ASSUME NEW k \in 1..n, k - 1 \in W PROVE k \in W
  <2>1. Cardinality(Twins(h, k)) = num(k)
    BY <1>9, <1>10
  <2>2. \A p \in 1..k : p \in 1..(k - 1) \/ p = k
    BY <1>2
  <2> QED BY <1>2, <1>10, <2>1, <2>2
<1>11. n \in W
  <2>1. n \in 0..n
    BY <1>2
  <2> HIDE DEF W
  <2> QED BY <1>2, <1>8, <1>10, <2>1, UpTo
<1>12. Cardinality(Twins(h, o)) = num(o)
  BY <1>2, <1>11
<1>13. Occurrence(unique, h, o) = num(o)
  BY <1>6, <1>12 DEF Occurrence, Twins
<1> QED BY <1>2, <1>3, <1>7, <1>13 DEF ColumnKey

\* Consolidate, as an equation of what it gives for the first columns.
ColumnsStep(unique, h, names, c) ==
    IF \E o \in DOMAIN names : names[o].key = ColumnKey(unique, h, c) THEN names
    ELSE Append(names, [key |-> ColumnKey(unique, h, c), name |-> h[c]])
ColumnsNext(unique, base, h, f, c) == IF c = 0 THEN base ELSE ColumnsStep(unique, h, f[c - 1], c)
Consolidating(unique, base, h, n, f) == f = [c \in 0..n |-> ColumnsNext(unique, base, h, f, c)]

\* It has a solution.
LEMMA ConsolidationExists ==
    ASSUME NEW unique, NEW base, NEW h, NEW n \in Nat
    PROVE  \E f : Consolidating(unique, base, h, n, f)
<1> DEFINE Upto(m) == \E f : f = [c \in 0..m |-> ColumnsNext(unique, base, h, f, c)]
           W == {m \in 0..n : Upto(m)}
<1>1. 0 \in W
  <2> DEFINE f == [c \in 0..0 |-> base]
  <2>1. \A c \in 0..0 : base = ColumnsNext(unique, base, h, f, c)
    BY DEF ColumnsNext
  <2>2. f = [c \in 0..0 |-> ColumnsNext(unique, base, h, f, c)]
    BY <2>1, Zenon
  <2>3. Upto(0)
    BY <2>2
  <2>4. 0 \in 0..n
    OBVIOUS
  <2> HIDE DEF f, Upto
  <2> QED BY <2>3, <2>4
<1>2. ASSUME NEW k \in 1..n, k - 1 \in W PROVE k \in W
  <2>1. PICK g : g = [c \in 0..(k - 1) |-> ColumnsNext(unique, base, h, g, c)]
    BY <1>2
  <2> DEFINE f == [c \in 0..k |-> IF c = k THEN ColumnsNext(unique, base, h, g, k) ELSE g[c]]
  <2>2. \A c \in 0..(k - 1) : f[c] = g[c]
    OBVIOUS
  <2>3. f = [c \in 0..k |-> IF c = k THEN ColumnsNext(unique, base, h, g, k) ELSE g[c]]
    OBVIOUS
  <2> HIDE DEF f
  <2>4. ASSUME NEW c \in 0..k
        PROVE  ColumnsNext(unique, base, h, f, c) = ColumnsNext(unique, base, h, g, c)
    <3>1. CASE c = 0
      BY <3>1 DEF ColumnsNext
    <3>2. CASE c # 0
      <4>1. f[c - 1] = g[c - 1]
        BY <2>2, <3>2
      <4> QED BY <4>1 DEF ColumnsNext
    <3> QED BY <3>1, <3>2
  <2>5. \A c \in 0..(k - 1) : g[c] = ColumnsNext(unique, base, h, g, c)
    BY <2>1
  <2>6. \A c \in 0..k : (IF c = k THEN ColumnsNext(unique, base, h, g, k) ELSE g[c])
                         = ColumnsNext(unique, base, h, f, c)
    BY <2>4, <2>5
  <2>7. f = [c \in 0..k |-> ColumnsNext(unique, base, h, f, c)]
    BY <2>3, <2>6, Zenon
  <2>8. Upto(k)
    BY <2>7, Zenon
  <2> QED BY <2>8
<1> HIDE DEF W
<1>3. 0..n \subseteq W
  BY <1>1, <1>2, UpTo
<1> QED BY <1>3 DEF W, Consolidating

\* Consolidate takes one column after the other.
LEMMA ConsolidationSteps ==
    ASSUME NEW unique, NEW base, NEW h, NEW n \in Nat, Len(h) = n
    PROVE  \E f : /\ f = [c \in 0..n |-> ColumnsNext(unique, base, h, f, c)]
                  /\ Consolidate(unique, base, h) = f[n]
<1> DEFINE f == CHOOSE g : g = [c \in 0..n |-> ColumnsNext(unique, base, h, g, c)]
<1>1. f = [c \in 0..n |-> ColumnsNext(unique, base, h, f, c)]
  <2>1. \E g : g = [c \in 0..n |-> ColumnsNext(unique, base, h, g, c)]
    <3>1. \E g : Consolidating(unique, base, h, n, g)
      BY ConsolidationExists
    <3> QED BY <3>1, Zenon DEF Consolidating
  <2> QED BY <2>1, Zenon
<1>2. Consolidate(unique, base, h) = f[n]
  BY Zenon DEF Consolidate, ColumnsNext, ColumnsStep
<1> QED BY <1>1, <1>2

\* The output columns after the first c columns of a header.
Grown(unique, base, h, c, names) ==
    /\ Names(unique, names)
    /\ Len(base) <= Len(names) /\ \A o \in DOMAIN base : names[o] = base[o]
    /\ \A b \in 1..c : \E o \in DOMAIN names : names[o].key = ColumnKey(unique, h, b)

\* The number of a column among those of its name.
LEMMA KeyParts ==
    ASSUME NEW unique, NEW h, NEW c \in Nat
    PROVE  \E j \in Nat : /\ ColumnKey(unique, h, c) = <<StackLower(h[c]), j>>
                          /\ unique => j = 0
                          /\ ~unique => j = Cardinality(Twins(h, c))
<1>1. Cardinality(Twins(h, c)) \in Nat
  BY TwinsAreCounted
<1>2. CASE unique
  <2>1. Occurrence(unique, h, c) = 0
    BY <1>2 DEF Occurrence
  <2>2. 0 \in Nat /\ ColumnKey(unique, h, c) = <<StackLower(h[c]), 0>>
    BY <2>1 DEF ColumnKey
  <2> QED BY <1>2, <2>2, Zenon
<1>3. CASE ~unique
  <2>1. Occurrence(unique, h, c) = Cardinality(Twins(h, c))
    BY <1>3 DEF Occurrence, Twins
  <2> QED BY <1>1, <1>3, <2>1 DEF ColumnKey
<1> QED BY <1>2, <1>3

\* One column of the header more.
LEMMA NamesGrow ==
    ASSUME NEW unique, NEW base, IsSequence(base), NEW h, NEW c \in Nat, c > 0, NEW names,
           Grown(unique, base, h, c - 1, names)
    PROVE  Grown(unique, base, h, c, ColumnsStep(unique, h, names, c))
<1>1. PICK key : key = ColumnKey(unique, h, c)
  OBVIOUS
<1>2. PICK j \in Nat : /\ key = <<StackLower(h[c]), j>> /\ (unique => j = 0)
                       /\ ~unique => j = Cardinality(Twins(h, c))
  BY <1>1, KeyParts
<1>3. /\ Names(unique, names) /\ IsSequence(names)
      /\ Len(base) <= Len(names) /\ \A o \in DOMAIN base : names[o] = base[o]
      /\ \A b \in 1..(c - 1) : \E o \in DOMAIN names : names[o].key = ColumnKey(unique, h, b)
  BY DEF Grown, Names
<1>4. \A b \in 1..c : b \in 1..(c - 1) \/ b = c
  OBVIOUS
<1>5. CASE \E o \in DOMAIN names : names[o].key = key
  <2>1. ColumnsStep(unique, h, names, c) = names
    BY <1>1, <1>5, Zenon DEF ColumnsStep
  <2>2. \A b \in 1..c : \E o \in DOMAIN names : names[o].key = ColumnKey(unique, h, b)
    BY <1>1, <1>3, <1>4, <1>5, Zenon
  <2> QED BY <1>3, <2>1, <2>2 DEF Grown
<1>6. CASE ~ \E o \in DOMAIN names : names[o].key = key
  <2>1. PICK e, a : e = [key |-> key, name |-> h[c]] /\ a = Append(names, e)
    OBVIOUS
  <2>2. ColumnsStep(unique, h, names, c) = a
    BY <1>1, <1>6, <2>1, Zenon DEF ColumnsStep
  <2>3. j > 0 => \E o \in DOMAIN names : names[o].key = <<StackLower(h[c]), j - 1>>
    <3> SUFFICES ASSUME j > 0 PROVE \E o \in DOMAIN names : names[o].key = <<StackLower(h[c]), j - 1>>
      OBVIOUS
    <3>1. ~unique /\ Cardinality(Twins(h, c)) > 0 /\ j = Cardinality(Twins(h, c))
      BY <1>2
    <3>2. PICK b \in Twins(h, c) : Cardinality(Twins(h, b)) = j - 1
      BY <3>1, OccurrenceBefore
    <3>3. b \in 1..(c - 1) /\ StackLower(h[b]) = StackLower(h[c])
      BY DEF Twins
    <3>4. PICK o \in DOMAIN names : names[o].key = ColumnKey(unique, h, b)
      BY <1>3, <3>3
    <3>5. ColumnKey(unique, h, b) = <<StackLower(h[b]), j - 1>>
      BY <3>1, <3>2 DEF ColumnKey, Occurrence, Twins
    <3> QED BY <3>3, <3>4, <3>5
  <2>4. Names(unique, Append(names, [key |-> <<StackLower(h[c]), j>>, name |-> h[c]]))
    <3>1. \A o \in DOMAIN names : names[o].key # <<StackLower(h[c]), j>>
      BY <1>2, <1>6
    <3> QED BY <1>2, <1>3, <2>3, <3>1, NameIsAdded
  <2>5. Names(unique, a)
    BY <1>2, <2>1, <2>4
  <2>6. /\ Len(a) = Len(names) + 1 /\ a[Len(names) + 1] = e /\ \A o \in DOMAIN names : a[o] = names[o]
        /\ Len(names) \in Nat /\ DOMAIN names = 1..Len(names) /\ DOMAIN a = 1..(Len(names) + 1)
    BY <1>3, <2>1, AppendIsSequence
  <2>7. Len(base) \in Nat /\ DOMAIN base = 1..Len(base)
    BY DEF IsSequence
  <2>8. Len(base) <= Len(a) /\ \A o \in DOMAIN base : a[o] = base[o]
    <3>1. \A o \in DOMAIN base : o \in DOMAIN names
      BY <1>3, <2>6, <2>7
    <3> QED BY <1>3, <2>6, <2>7, <3>1
  <2>9. ASSUME NEW b \in 1..c PROVE \E o \in DOMAIN a : a[o].key = ColumnKey(unique, h, b)
    <3>1. CASE b = c
      <4>1. Len(names) + 1 \in DOMAIN a /\ a[Len(names) + 1].key = key
        BY <2>1, <2>6
      <4> QED BY <1>1, <3>1, <4>1
    <3>2. CASE b \in 1..(c - 1)
      <4>1. PICK o \in DOMAIN names : names[o].key = ColumnKey(unique, h, b)
        BY <1>3, <3>2
      <4>2. o \in DOMAIN a /\ a[o] = names[o]
        BY <2>6
      <4> QED BY <4>1, <4>2
    <3> QED BY <1>4, <3>1, <3>2
  <2> QED BY <2>2, <2>5, <2>8, <2>9 DEF Grown
<1> QED BY <1>5, <1>6

\* A header joins the output columns.
LEMMA HeaderIsConsolidated ==
    ASSUME NEW unique, NEW base, Names(unique, base), NEW h, IsSequence(h)
    PROVE  Grown(unique, base, h, Len(h), Consolidate(unique, base, h))
<1>1. PICK n : n = Len(h)
  OBVIOUS
<1>2. n \in Nat
  BY <1>1 DEF IsSequence
<1>3. PICK f : /\ f = [c \in 0..n |-> ColumnsNext(unique, base, h, f, c)]
               /\ Consolidate(unique, base, h) = f[n]
  BY <1>1, <1>2, ConsolidationSteps
<1>4. IsSequence(base) /\ Len(base) \in Nat
  BY DEF Names, IsSequence
<1> DEFINE W == {c \in 0..n : Grown(unique, base, h, c, f[c])}
<1>5. 0 \in W
  <2>1. f[0] = base
    BY <1>2, <1>3 DEF ColumnsNext
  <2>2. Grown(unique, base, h, 0, base)
    BY <1>4 DEF Grown
  <2> QED BY <1>2, <2>1, <2>2
<1>6. ASSUME NEW c \in 1..n, c - 1 \in W PROVE c \in W
  <2>1. f[c] = ColumnsNext(unique, base, h, f, c) /\ c \in Nat /\ c > 0 /\ c # 0
    BY <1>2, <1>3
  <2>2. f[c] = ColumnsStep(unique, h, f[c - 1], c)
    BY <2>1 DEF ColumnsNext
  <2>3. Grown(unique, base, h, c - 1, f[c - 1])
    BY <1>6
  <2>4. Grown(unique, base, h, c, f[c])
    BY <1>4, <2>1, <2>2, <2>3, NamesGrow
  <2> QED BY <2>4
<1>7. n \in W
  <2>1. n \in 0..n
    BY <1>2
  <2> HIDE DEF W
  <2> QED BY <1>2, <1>5, <1>6, <2>1, UpTo
<1> QED BY <1>1, <1>3, <1>7

-----------------------------------------------------------------------------
(* stack: the rows of a file, its first row with data and those after it   *)

\* NonBlankRows, as an equation of what it gives for the first rows.
DataNext(rows, f, n) ==
    IF n = 0 THEN <<>>
    ELSE IF BlankRow(rows[n]) THEN f[n - 1] ELSE Append(f[n - 1], rows[n])
Gathering(rows, n, f) == f = [k \in 0..n |-> DataNext(rows, f, k)]

\* It has a solution.
LEMMA GatheringExists ==
    ASSUME NEW rows, NEW n \in Nat
    PROVE  \E f : Gathering(rows, n, f)
<1> DEFINE Upto(m) == \E f : f = [k \in 0..m |-> DataNext(rows, f, k)]
           W == {m \in 0..n : Upto(m)}
<1>1. 0 \in W
  <2> DEFINE f == [k \in 0..0 |-> <<>>]
  <2>1. \A k \in 0..0 : <<>> = DataNext(rows, f, k)
    BY DEF DataNext
  <2>2. f = [k \in 0..0 |-> DataNext(rows, f, k)]
    BY <2>1, Zenon
  <2>3. Upto(0)
    BY <2>2
  <2>4. 0 \in 0..n
    OBVIOUS
  <2> HIDE DEF f, Upto
  <2> QED BY <2>3, <2>4
<1>2. ASSUME NEW k \in 1..n, k - 1 \in W PROVE k \in W
  <2>1. PICK g : g = [m \in 0..(k - 1) |-> DataNext(rows, g, m)]
    BY <1>2
  <2> DEFINE f == [m \in 0..k |-> IF m = k THEN DataNext(rows, g, k) ELSE g[m]]
  <2>2. \A m \in 0..(k - 1) : f[m] = g[m]
    OBVIOUS
  <2>3. f = [m \in 0..k |-> IF m = k THEN DataNext(rows, g, k) ELSE g[m]]
    OBVIOUS
  <2> HIDE DEF f
  <2>4. ASSUME NEW m \in 0..k PROVE DataNext(rows, f, m) = DataNext(rows, g, m)
    <3>1. CASE m = 0
      BY <3>1 DEF DataNext
    <3>2. CASE m # 0
      <4>1. f[m - 1] = g[m - 1]
        BY <2>2, <3>2
      <4> QED BY <4>1 DEF DataNext
    <3> QED BY <3>1, <3>2
  <2>5. \A m \in 0..(k - 1) : g[m] = DataNext(rows, g, m)
    BY <2>1
  <2>6. \A m \in 0..k : (IF m = k THEN DataNext(rows, g, k) ELSE g[m]) = DataNext(rows, f, m)
    BY <2>4, <2>5
  <2>7. f = [m \in 0..k |-> DataNext(rows, f, m)]
    BY <2>3, <2>6, Zenon
  <2>8. Upto(k)
    BY <2>7, Zenon
  <2> QED BY <2>8
<1> HIDE DEF W
<1>3. 0..n \subseteq W
  BY <1>1, <1>2, UpTo
<1> QED BY <1>3 DEF W, Gathering

\* The data rows among the first n.
DataOf(rows, n) == (CHOOSE f : Gathering(rows, Len(rows), f))[n]

\* A row more is one more of them, or none.
LEMMA DataGrows ==
    ASSUME NEW rows, Len(rows) \in Nat
    PROVE  /\ NonBlankRows(rows) = DataOf(rows, Len(rows)) /\ DataOf(rows, 0) = <<>>
           /\ \A n \in 1..Len(rows) :
                DataOf(rows, n) = IF BlankRow(rows[n]) THEN DataOf(rows, n - 1)
                                  ELSE Append(DataOf(rows, n - 1), rows[n])
<1>0. PICK m \in Nat : m = Len(rows)
  OBVIOUS
<1> DEFINE f == CHOOSE g : Gathering(rows, m, g)
<1>1. \E g : Gathering(rows, m, g)
  BY GatheringExists
<1>2. Gathering(rows, m, f)
  BY <1>1, Zenon
<1>3. NonBlankRows(rows) = f[m]
  BY <1>0, Zenon DEF NonBlankRows, Gathering, DataNext
<1>4. \A n : DataOf(rows, n) = f[n]
  BY <1>0, Zenon DEF DataOf
<1> HIDE DEF f
<1>5. f = [k \in 0..m |-> DataNext(rows, f, k)]
  BY <1>2, Zenon DEF Gathering
<1>6. \A k \in 0..m : f[k] = DataNext(rows, f, k)
  BY <1>5
<1>7. f[0] = <<>>
  <2>1. 0 \in 0..m
    OBVIOUS
  <2> QED BY <1>6, <2>1 DEF DataNext
<1>8. ASSUME NEW n \in 1..m
      PROVE  f[n] = IF BlankRow(rows[n]) THEN f[n - 1] ELSE Append(f[n - 1], rows[n])
  <2>1. n \in 0..m /\ n # 0
    OBVIOUS
  <2> QED BY <1>6, <2>1 DEF DataNext
<1> QED BY <1>0, <1>3, <1>4, <1>7, <1>8

\* Before the first row with data there are none.
LEMMA NoDataYet ==
    ASSUME NEW rows, Len(rows) \in Nat, NEW n \in 0..Len(rows), \A r \in 1..n : BlankRow(rows[r])
    PROVE  DataOf(rows, n) = <<>>
<1> DEFINE W == {k \in 0..n : DataOf(rows, k) = <<>>}
<1>1. 0 \in W
  BY DataGrows
<1>2. ASSUME NEW k \in 1..n, k - 1 \in W PROVE k \in W
  <2>1. k \in 1..Len(rows) /\ BlankRow(rows[k])
    OBVIOUS
  <2>2. DataOf(rows, k) = DataOf(rows, k - 1)
    BY <2>1, DataGrows
  <2> QED BY <1>2, <2>2
<1> HIDE DEF W
<1>3. n \in Nat /\ n \in 0..n
  OBVIOUS
<1>4. 0..n \subseteq W
  BY <1>1, <1>2, <1>3, UpTo
<1> QED BY <1>3, <1>4 DEF W

\* From it on it is the first of them.
LEMMA FirstData ==
    ASSUME NEW rows, Len(rows) \in Nat, NEW m \in 1..Len(rows), ~BlankRow(rows[m]),
           \A r \in 1..(m - 1) : BlankRow(rows[r]), NEW n \in m..Len(rows)
    PROVE  /\ IsSequence(DataOf(rows, n)) /\ Len(DataOf(rows, n)) \in Nat /\ Len(DataOf(rows, n)) > 0
           /\ DataOf(rows, n)[1] = rows[m]
<1> DEFINE Begun(k) == /\ IsSequence(DataOf(rows, k)) /\ Len(DataOf(rows, k)) \in Nat
                       /\ Len(DataOf(rows, k)) > 0 /\ DataOf(rows, k)[1] = rows[m]
           W == {k \in 0..(n - m) : Begun(m + k)}
<1>1. Begun(m)
  <2>1. DataOf(rows, m - 1) = <<>>
    BY NoDataYet
  <2>2. DataOf(rows, m) = Append(<<>>, rows[m])
    BY <2>1, DataGrows
  <2>3. PICK e : e = <<>>
    OBVIOUS
  <2>4. IsSequence(e) /\ Len(e) = 0
    BY <2>3, EmptyIsSequence
  <2>5. /\ IsSequence(Append(e, rows[m])) /\ Len(Append(e, rows[m])) = Len(e) + 1
        /\ Append(e, rows[m])[Len(e) + 1] = rows[m]
    BY <2>4, AppendIsSequence
  <2>6. Len(Append(e, rows[m])) = 1 /\ Append(e, rows[m])[1] = rows[m]
    BY <2>4, <2>5
  <2> QED BY <2>2, <2>3, <2>5, <2>6
<1>2. ASSUME NEW k \in 1..(n - m), Begun(m + (k - 1)) PROVE Begun(m + k)
  <2>1. m + k \in 1..Len(rows) /\ (m + k) - 1 = m + (k - 1)
    OBVIOUS
  <2>2. PICK d : d = DataOf(rows, m + (k - 1))
    OBVIOUS
  <2>3. DataOf(rows, m + k) = IF BlankRow(rows[m + k]) THEN d ELSE Append(d, rows[m + k])
    BY <2>1, <2>2, DataGrows
  <2>4. IsSequence(d) /\ Len(d) \in Nat /\ Len(d) > 0 /\ d[1] = rows[m] /\ 1 \in DOMAIN d
    BY <1>2, <2>2 DEF IsSequence
  <2>5. /\ IsSequence(Append(d, rows[m + k])) /\ Len(Append(d, rows[m + k])) = Len(d) + 1
        /\ Append(d, rows[m + k])[1] = d[1]
    BY <2>4, AppendIsSequence
  <2>6. CASE BlankRow(rows[m + k])
    <3>1. DataOf(rows, m + k) = d
      BY <2>3, <2>6
    <3> QED BY <2>4, <3>1
  <2>7. CASE ~BlankRow(rows[m + k])
    <3>1. DataOf(rows, m + k) = Append(d, rows[m + k])
      BY <2>3, <2>7
    <3> HIDE DEF Begun
    <3>2. Begun(m + k)
      <4>1. Len(Append(d, rows[m + k])) \in Nat /\ Len(Append(d, rows[m + k])) > 0
        BY <2>4, <2>5
      <4> QED BY <2>4, <2>5, <3>1, <4>1 DEF Begun
    <3> QED BY <3>2
  <2> QED BY <2>6, <2>7
<1> HIDE DEF Begun
<1>3. 0 \in W
  <2>1. m + 0 = m /\ 0 \in 0..(n - m)
    OBVIOUS
  <2> QED BY <1>1, <2>1
<1>4. ASSUME NEW k \in 1..(n - m), k - 1 \in W PROVE k \in W
  BY <1>2, <1>4
<1>5. n - m \in Nat /\ n - m \in 0..(n - m) /\ m + (n - m) = n
  OBVIOUS
<1> HIDE DEF W
<1>6. n - m \in W
  BY <1>3, <1>4, <1>5, UpTo
<1> QED BY <1>5, <1>6 DEF W, Begun

\* The data rows among the first n under the first of them.
PartOf(rows, n) ==
    LET data == DataOf(rows, n)
    IN  IF data = <<>> THEN <<>> ELSE [k \in 1..(Len(data) - 1) |-> <<data[1], data[k + 1]>>]

\* Nothing to report before the first row with data, and with it.
LEMMA NoPartYet ==
    ASSUME NEW rows, NEW n, DataOf(rows, n) = <<>>
    PROVE  PartOf(rows, n) = <<>> /\ IsSequence(PartOf(rows, n))
<1>1. PartOf(rows, n) = <<>>
  BY DEF PartOf
<1> QED BY <1>1, EmptyIsSequence

\* Each later one stands under the first.
LEMMA PartIsList ==
    ASSUME NEW rows, NEW n, IsSequence(DataOf(rows, n)), Len(DataOf(rows, n)) \in Nat,
           Len(DataOf(rows, n)) > 0
    PROVE  LET d == DataOf(rows, n)
               p == PartOf(rows, n)
           IN  /\ IsSequence(p) /\ Len(p) = Len(d) - 1 /\ DOMAIN p = 1..(Len(d) - 1)
               /\ \A k \in 1..(Len(d) - 1) : p[k] = <<d[1], d[k + 1]>>
<1>1. PICK d, m : d = DataOf(rows, n) /\ m = Len(d) - 1
  OBVIOUS
<1>2. m \in Nat /\ d # <<>>
  <2>1. Len(<<>>) = 0
    OBVIOUS
  <2> QED BY <1>1, <2>1
<1> DEFINE p == [k \in 1..m |-> <<d[1], d[k + 1]>>]
<1>3. PartOf(rows, n) = p
  BY <1>1, <1>2 DEF PartOf
<1>4. p = [k \in 1..m |-> p[k]] /\ \A k \in 1..m : p[k] = <<d[1], d[k + 1]>>
  OBVIOUS
<1> HIDE DEF p
<1>5. IsSequence(p) /\ Len(p) = m /\ DOMAIN p = 1..m
  BY <1>2, <1>4, ListIsSequence
<1> QED BY <1>1, <1>3, <1>4, <1>5

\* The row that begins the data of a file adds nothing to report.
LEMMA PartBegins ==
    ASSUME NEW rows, Len(rows) \in Nat, NEW n \in 1..Len(rows), DataOf(rows, n - 1) = <<>>,
           ~BlankRow(rows[n])
    PROVE  PartOf(rows, n) = <<>> /\ DataOf(rows, n) # <<>>
<1>1. PICK e : e = <<>>
  OBVIOUS
<1>2. IsSequence(e) /\ Len(e) = 0
  BY <1>1, EmptyIsSequence
<1>3. DataOf(rows, n) = Append(e, rows[n])
  BY <1>1, DataGrows
<1>4. /\ IsSequence(Append(e, rows[n])) /\ Len(Append(e, rows[n])) = Len(e) + 1
  BY <1>2, AppendIsSequence
<1>5. IsSequence(DataOf(rows, n)) /\ Len(DataOf(rows, n)) = 1
  BY <1>2, <1>3, <1>4
<1>6. IsSequence(PartOf(rows, n)) /\ Len(PartOf(rows, n)) = 1 - 1
  <2>1. IsSequence(DataOf(rows, n)) /\ Len(DataOf(rows, n)) \in Nat /\ Len(DataOf(rows, n)) > 0
    BY <1>5
  <2>2. PICK d : d = DataOf(rows, n)
    OBVIOUS
  <2>3. IsSequence(PartOf(rows, n)) /\ Len(PartOf(rows, n)) = Len(d) - 1
    BY <2>1, <2>2, PartIsList
  <2> QED BY <1>5, <2>2, <2>3
<1>7. DataOf(rows, n) # <<>>
  <2>1. Len(<<>>) = 0
    OBVIOUS
  <2> QED BY <1>5, <2>1
<1>8. PartOf(rows, n) = e
  <2>1. Len(PartOf(rows, n)) = Len(e) /\ \A k \in 1..Len(PartOf(rows, n)) : FALSE
    BY <1>2, <1>6
  <2> QED BY <1>2, <1>6, <2>1, SamePlaces
<1> QED BY <1>1, <1>7, <1>8

\* A later row with data is one more of them.
LEMMA PartGrows ==
    ASSUME NEW rows, Len(rows) \in Nat, NEW n \in 1..Len(rows), IsSequence(DataOf(rows, n - 1)),
           Len(DataOf(rows, n - 1)) \in Nat, Len(DataOf(rows, n - 1)) > 0, ~BlankRow(rows[n])
    PROVE  PartOf(rows, n) = Append(PartOf(rows, n - 1), <<DataOf(rows, n - 1)[1], rows[n]>>)
<1>1. PICK d, m : d = DataOf(rows, n - 1) /\ m = Len(d)
  OBVIOUS
<1>2. IsSequence(d) /\ m \in Nat /\ m > 0 /\ DOMAIN d = 1..m /\ m = Len(d)
  BY <1>1 DEF IsSequence
<1>3. PICK e, pair : e = Append(d, rows[n]) /\ pair = <<d[1], rows[n]>>
  OBVIOUS
<1>4. DataOf(rows, n) = e
  BY <1>1, <1>3, DataGrows
<1>5. IsSequence(e) /\ Len(e) = m + 1 /\ e[m + 1] = rows[n] /\ \A k \in 1..m : e[k] = d[k]
  BY <1>2, <1>3, AppendIsSequence
<1>6. PICK p, q : p = PartOf(rows, n - 1) /\ q = PartOf(rows, n)
  OBVIOUS
<1>7. /\ IsSequence(p) /\ Len(p) = m - 1 /\ DOMAIN p = 1..(m - 1)
      /\ \A k \in 1..(m - 1) : p[k] = <<d[1], d[k + 1]>>
  BY <1>1, <1>2, <1>6, PartIsList
<1>8. IsSequence(q) /\ Len(q) = (m + 1) - 1 /\ \A k \in 1..((m + 1) - 1) : q[k] = <<e[1], e[k + 1]>>
  <2>1. Len(e) \in Nat /\ Len(e) > 0
    BY <1>2, <1>5
  <2>2. /\ IsSequence(DataOf(rows, n)) /\ Len(DataOf(rows, n)) \in Nat /\ Len(DataOf(rows, n)) > 0
    BY <1>4, <1>5, <2>1
  <2>3. IsSequence(q) /\ Len(q) = Len(e) - 1 /\ \A k \in 1..(Len(e) - 1) : q[k] = <<e[1], e[k + 1]>>
    BY <1>4, <1>6, <2>2, PartIsList
  <2> QED BY <1>5, <2>3
<1>9. /\ IsSequence(Append(p, pair)) /\ Len(Append(p, pair)) = (m - 1) + 1
      /\ Append(p, pair)[(m - 1) + 1] = pair /\ \A k \in 1..(m - 1) : Append(p, pair)[k] = p[k]
  BY <1>7, AppendIsSequence
<1>10. Len(q) = m /\ Len(Append(p, pair)) = m
  BY <1>2, <1>8, <1>9
<1>11. ASSUME NEW k \in 1..m PROVE q[k] = Append(p, pair)[k]
  <2>1. q[k] = <<e[1], e[k + 1]>> /\ e[1] = d[1]
    BY <1>2, <1>5, <1>8
  <2>2. CASE k = m
    <3>1. Append(p, pair)[m] = pair
      BY <1>2, <1>9
    <3> QED BY <1>3, <1>5, <2>1, <2>2, <3>1
  <2>3. CASE k # m
    <3>0. m \in Nat /\ k \in 1..m /\ k # m
      BY <1>2, <2>3
    <3>1. k \in 1..(m - 1) /\ k + 1 \in 1..m
      BY <3>0
    <3>2. Append(p, pair)[k] = <<d[1], d[k + 1]>>
      BY <1>7, <1>9, <3>1
    <3> QED BY <1>5, <2>1, <3>1, <3>2
  <2> QED BY <2>2, <2>3
<1>12. q = Append(p, pair)
  BY <1>8, <1>9, <1>10, <1>11, SamePlaces
<1> QED BY <1>1, <1>3, <1>6, <1>12

\* A file: rows of cells.
LEMMA FileHasRows ==
    ASSUME NEW f, IsStackFile(f)
    PROVE  /\ IsSequence(f.rows) /\ Len(f.rows) \in Nat /\ DOMAIN f.rows = 1..Len(f.rows)
           /\ \A r \in 1..Len(f.rows) : IsSequence(f.rows[r])
           /\ ~f.ended => /\ Len(f.rows) > 0 /\ Len(f.rows[Len(f.rows)]) > 0
<1>1. IsSequence(f.rows) /\ \A row \in Range(f.rows) : IsSequence(row)
  BY Zenon DEF IsStackFile, IsSequence, Range
<1>2. Len(f.rows) \in Nat /\ DOMAIN f.rows = 1..Len(f.rows)
  BY <1>1 DEF IsSequence
<1>3. \A r \in 1..Len(f.rows) : IsSequence(f.rows[r])
  BY <1>1, <1>2 DEF Range
<1>4. ~f.ended => f.rows # <<>> /\ f.rows[Len(f.rows)] # <<>>
  BY Zenon DEF IsStackFile, Last
<1>5. \A s : IsSequence(s) /\ s # <<>> => Len(s) > 0
  BY DEF IsSequence
<1>6. ~f.ended => Len(f.rows) > 0
  BY <1>1, <1>4, <1>5
<1>7. ~f.ended => Len(f.rows[Len(f.rows)]) > 0
  <2> SUFFICES ASSUME ~f.ended PROVE Len(f.rows[Len(f.rows)]) > 0
    OBVIOUS
  <2>1. Len(f.rows) \in 1..Len(f.rows)
    BY <1>2, <1>6
  <2> QED BY <1>3, <1>4, <1>5, <2>1
<1> QED BY <1>1, <1>2, <1>3, <1>6, <1>7

\* How many rows have their end.
EndedLen(f) == IF f.ended THEN Len(f.rows) ELSE Len(f.rows) - 1

\* They are the first rows of the file.
LEMMA EndedRowsComeFirst ==
    ASSUME NEW f, IsStackFile(f)
    PROVE  /\ EndedLen(f) \in Nat /\ EndedLen(f) <= Len(f.rows) /\ Len(f.rows) \in Nat
           /\ Len(EndedRows(f)) = EndedLen(f) /\ DOMAIN EndedRows(f) = 1..EndedLen(f)
           /\ \A r \in 1..EndedLen(f) : EndedRows(f)[r] = f.rows[r]
<1>1. /\ IsSequence(f.rows) /\ Len(f.rows) \in Nat /\ DOMAIN f.rows = 1..Len(f.rows)
      /\ ~f.ended => Len(f.rows) > 0
  BY FileHasRows
<1>2. CASE f.ended
  BY <1>1, <1>2 DEF EndedRows, EndedLen
<1>3. CASE ~f.ended
  <2>1. PICK n \in Nat : n = Len(f.rows) - 1
    BY <1>1, <1>3
  <2>2. 0 \in Nat /\ 0 <= n /\ n <= Len(f.rows) /\ EndedLen(f) = n
    BY <1>1, <1>3, <2>1 DEF EndedLen
  <2>3. PICK t : t = SubSeq(f.rows, 0 + 1, n)
    OBVIOUS
  <2>4. /\ IsSequence(t) /\ Len(t) = n - 0 /\ DOMAIN t = 1..(n - 0)
        /\ \A k \in 1..(n - 0) : t[k] = f.rows[0 + k]
    BY <1>1, <2>2, <2>3, PartOfSequence
  <2>5. EndedRows(f) = t
    <3>1. SubSeq(f.rows, 0 + 1, n) = SubSeq(f.rows, 1, Len(f.rows) - 1)
      BY <2>1
    <3> QED BY <1>3, <2>3, <3>1, Zenon DEF EndedRows, Front
  <2>6. Len(t) = n /\ DOMAIN t = 1..n /\ \A k \in 1..n : t[k] = f.rows[k]
    BY <2>4
  <2> QED BY <1>1, <2>2, <2>5, <2>6
<1> QED BY <1>2, <1>3

\* The first row with data.
FirstRow(f, m) ==
    m \in 1..Len(f.rows) /\ ~BlankRow(f.rows[m]) /\ \A r \in 1..(m - 1) : BlankRow(f.rows[r])

\* The first pass meets it.
HasHeader(f) == \E r \in 1..EndedLen(f) : ~BlankRow(f.rows[r])

\* What the first pass leaves in the parser of a file.
HeaderRead(f, h) ==
    IsSequence(h) /\ (HasHeader(f) => \E m \in 1..EndedLen(f) : FirstRow(f, m) /\ h = f.rows[m])

\* The first row with data is the least number of one.
LEMMA LeastIsFirst ==
    ASSUME NEW f, IsStackFile(f), NEW n \in Nat, n <= Len(f.rows),
           \E r \in 1..n : ~BlankRow(f.rows[r])
    PROVE  LET m == Min({r \in 1..n : ~BlankRow(f.rows[r])}) IN m \in 1..n /\ FirstRow(f, m)
<1>1. PICK D, m : D = {r \in 1..n : ~BlankRow(f.rows[r])} /\ m = Min(D)
  OBVIOUS
<1>2. D # {} /\ D \subseteq Nat
  BY <1>1
<1>3. m \in D /\ \A r \in D : m <= r
  BY <1>1, <1>2, MinIsLeast
<1>4. m \in 1..n /\ ~BlankRow(f.rows[m])
  BY <1>1, <1>3
<1>5. \A r \in 1..(m - 1) : BlankRow(f.rows[r])
  <2> SUFFICES ASSUME NEW r \in 1..(m - 1), ~BlankRow(f.rows[r]) PROVE FALSE
    OBVIOUS
  <2>1. r \in 1..n /\ ~(m <= r)
    BY <1>4
  <2> QED BY <1>1, <1>3, <2>1
<1>6. Len(f.rows) \in Nat
  BY FileHasRows
<1> QED BY <1>1, <1>4, <1>5, <1>6 DEF FirstRow

\* There is only one.
LEMMA OneFirst ==
    ASSUME NEW f, IsStackFile(f), NEW m, NEW n, FirstRow(f, m), FirstRow(f, n)
    PROVE  m = n
<1>1. Len(f.rows) \in Nat
  BY FileHasRows
<1>2. m \in 1..Len(f.rows) /\ n \in 1..Len(f.rows)
  BY DEF FirstRow
<1>3. ~(m < n)
  <2>1. m < n => m \in 1..(n - 1)
    BY <1>1, <1>2
  <2> QED BY <2>1 DEF FirstRow
<1>4. ~(n < m)
  <2>1. n < m => n \in 1..(m - 1)
    BY <1>1, <1>2
  <2> QED BY <2>1 DEF FirstRow
<1> QED BY <1>1, <1>2, <1>3, <1>4

\* zsv_stack_header_row finds it, or leaves the cells of the last row.
LEMMA HeaderIsRead ==
    ASSUME NEW f, IsStackFile(f)
    PROVE  LET data == {r \in DOMAIN EndedRows(f) : ~BlankRow(f.rows[r])}
               left == IF f.ended THEN <<>> ELSE Front(Last(f.rows))
           IN  /\ (data # {}) = HasHeader(f)
               /\ HeaderRead(f, IF data = {} THEN left ELSE f.rows[Min(data)])
<1>1. PICK n : n = EndedLen(f)
  OBVIOUS
<1>2. n \in Nat /\ n <= Len(f.rows) /\ DOMAIN EndedRows(f) = 1..n
  BY <1>1, EndedRowsComeFirst
<1>3. PICK data, left : /\ data = {r \in 1..n : ~BlankRow(f.rows[r])}
                        /\ left = IF f.ended THEN <<>> ELSE Front(Last(f.rows))
  OBVIOUS
<1>4. (data # {}) = HasHeader(f)
  BY <1>1, <1>3 DEF HasHeader
<1>5. IsSequence(left)
  <2>1. CASE f.ended
    BY <1>3, <2>1, EmptyIsSequence
  <2>2. CASE ~f.ended
    <3>1. PICK s, k : s = f.rows[Len(f.rows)] /\ k = Len(s) - 1
      OBVIOUS
    <3>2. IsSequence(s) /\ Len(s) > 0 /\ Len(s) \in Nat
      <4>1. /\ Len(f.rows) \in Nat /\ Len(f.rows) > 0 /\ Len(s) > 0
            /\ \A r \in 1..Len(f.rows) : IsSequence(f.rows[r])
        BY <2>2, <3>1, FileHasRows
      <4>2. Len(f.rows) \in 1..Len(f.rows)
        BY <4>1
      <4>3. IsSequence(s)
        BY <3>1, <4>1, <4>2
      <4> QED BY <4>1, <4>3 DEF IsSequence
    <3>3. k \in Nat /\ k <= Len(s) /\ 0 \in Nat /\ 0 <= k
      BY <3>1, <3>2
    <3>4. IsSequence(SubSeq(s, 0 + 1, k))
      BY <3>2, <3>3, PartOfSequence
    <3>5. SubSeq(s, 0 + 1, k) = SubSeq(s, 1, Len(s) - 1)
      BY <3>1
    <3>6. left = SubSeq(s, 1, Len(s) - 1)
      BY <1>3, <2>2, <3>1, Zenon DEF Front, Last
    <3> QED BY <3>4, <3>5, <3>6
  <2> QED BY <2>1, <2>2
<1>6. CASE data = {}
  <2>1. HeaderRead(f, left)
    BY <1>4, <1>5, <1>6 DEF HeaderRead
  <2> QED BY <1>2, <1>3, <1>4, <1>6, <2>1
<1>7. CASE data # {}
  <2>1. \E r \in 1..n : ~BlankRow(f.rows[r])
    BY <1>3, <1>7
  <2>2. PICK m : m = Min(data)
    OBVIOUS
  <2>3. m \in 1..n /\ FirstRow(f, m)
    BY <1>2, <1>3, <2>1, <2>2, LeastIsFirst
  <2>4. IsSequence(f.rows[m])
    BY <2>3, FileHasRows DEF FirstRow
  <2>5. HeaderRead(f, f.rows[m])
    BY <1>1, <2>3, <2>4 DEF HeaderRead
  <2> QED BY <1>2, <1>3, <1>4, <1>7, <2>2, <2>5
<1> QED BY <1>6, <1>7

\* The rows of a file under its header, as far as they are read.
LEMMA LabelledRows ==
    ASSUME NEW f, IsStackFile(f)
    PROVE  Labelled(f) = IF HasHeader(f) THEN PartOf(f.rows, Len(f.rows)) ELSE <<>>
<1>1. PICK n, e : n = EndedLen(f) /\ e = EndedRows(f)
  OBVIOUS
<1>2. /\ n \in Nat /\ n <= Len(f.rows) /\ Len(f.rows) \in Nat /\ Len(e) = n
      /\ \A r \in 1..n : e[r] = f.rows[r]
  BY <1>1, EndedRowsComeFirst
<1>3. NonBlankRows(e) = DataOf(e, n) /\ NonBlankRows(f.rows) = DataOf(f.rows, Len(f.rows))
  BY <1>2, DataGrows
<1>4. CASE ~HasHeader(f)
  <2>1. \A r \in 1..n : BlankRow(e[r])
    BY <1>1, <1>2, <1>4 DEF HasHeader
  <2>2. n \in 0..Len(e) /\ Len(e) \in Nat
    BY <1>2
  <2>3. DataOf(e, n) = <<>>
    BY <2>1, <2>2, NoDataYet
  <2> QED BY <1>1, <1>3, <1>4, <2>3 DEF Labelled
<1>5. CASE HasHeader(f)
  <2>1. PICK m : m \in 1..n /\ FirstRow(f, m)
    <3>1. \E r \in 1..n : ~BlankRow(f.rows[r])
      BY <1>1, <1>5 DEF HasHeader
    <3>2. PICK m : m = Min({r \in 1..n : ~BlankRow(f.rows[r])})
      OBVIOUS
    <3>3. m \in 1..n /\ FirstRow(f, m)
      BY <1>2, <3>1, <3>2, LeastIsFirst
    <3> QED BY <3>3
  <2>2. m \in 1..Len(f.rows) /\ ~BlankRow(f.rows[m]) /\ \A r \in 1..(m - 1) : BlankRow(f.rows[r])
    BY <2>1 DEF FirstRow
  <2>3. m \in 1..Len(e) /\ ~BlankRow(e[m]) /\ \A r \in 1..(m - 1) : BlankRow(e[r])
    BY <1>2, <2>1, <2>2
  <2>4. Len(e) \in Nat /\ n \in m..Len(e) /\ Len(f.rows) \in m..Len(f.rows)
    BY <1>2, <2>1
  <2>5. Len(DataOf(e, n)) > 0 /\ IsSequence(DataOf(e, n))
    BY <2>3, <2>4, FirstData
  <2>6. Len(DataOf(f.rows, Len(f.rows))) > 0
    BY <1>2, <2>2, <2>4, FirstData
  <2>7. Len(<<>>) = 0
    OBVIOUS
  <2>8. NonBlankRows(EndedRows(f)) # <<>> /\ DataOf(f.rows, Len(f.rows)) # <<>>
    BY <1>1, <1>3, <2>5, <2>6, <2>7
  <2>9. Labelled(f) = PartOf(f.rows, Len(f.rows))
    BY <1>3, <2>8, Zenon DEF Labelled, PartOf
  <2> QED BY <1>5, <2>9
<1> QED BY <1>4, <1>5

\* The second pass over a file, before row n: whether the header has passed.
Reading(f, h, passed, n) ==
    \E m \in 1..Len(f.rows) :
      FirstRow(f, m) /\ h = f.rows[m] /\ n \in m..(Len(f.rows) + 1) /\ (passed <=> n > m)

\* The row it begins with; with keep only a row that the header can be.
LEMMA ReadingBegins ==
    ASSUME NEW f, IsStackFile(f), NEW s, s.keep => ~BlankRow(f.rows[1]),
           HasHeader(f), NEW h, HeaderRead(f, h)
    PROVE  /\ Reading(f, h, FALSE, FirstDelivered(s, f))
           /\ PartOf(f.rows, FirstDelivered(s, f) - 1) = <<>>
           /\ FirstDelivered(s, f) \in Nat
<1>1. PICK L : L = Len(f.rows)
  OBVIOUS
<1>2. L \in Nat /\ EndedLen(f) \in Nat /\ EndedLen(f) <= L /\ DOMAIN f.rows = 1..L
  BY <1>1, EndedRowsComeFirst, FileHasRows
<1>3. PICK m \in 1..EndedLen(f) : FirstRow(f, m) /\ h = f.rows[m]
  BY DEF HeaderRead
<1>4. m \in 1..L /\ ~BlankRow(f.rows[m])
  BY <1>1, <1>3 DEF FirstRow
<1>5. FirstDelivered(s, f) = m
  <2>1. PICK D : D = {r \in 1..L : ~BlankRow(f.rows[r])}
    OBVIOUS
  <2>2. m \in D
    BY <1>4, <2>1
  <2>3. FirstDelivered(s, f) = IF s.keep THEN 1 ELSE Min(D)
    BY <1>2, <2>1, <2>2, Zenon DEF FirstDelivered
  <2>4. CASE s.keep
    <3>1. FirstRow(f, 1)
      <4>1. 1 \in 1..L /\ \A r \in 1..(1 - 1) : FALSE
        BY <1>2, <1>4
      <4> QED BY <1>1, <2>4, <4>1 DEF FirstRow
    <3>2. m = 1
      BY <1>3, <3>1, OneFirst
    <3> QED BY <2>3, <2>4, <3>2
  <2>5. CASE ~s.keep
    <3>1. L <= Len(f.rows) /\ \E r \in 1..L : ~BlankRow(f.rows[r])
      BY <1>1, <1>2, <1>4
    <3>2. PICK d : d = Min(D)
      OBVIOUS
    <3>3. FirstRow(f, d)
      BY <1>2, <2>1, <3>1, <3>2, LeastIsFirst
    <3>4. d = m
      BY <1>3, <3>3, OneFirst
    <3> QED BY <2>3, <2>5, <3>2, <3>4
  <2> QED BY <2>4, <2>5
<1>6. Reading(f, h, FALSE, m)
  <2>1. m \in 1..Len(f.rows) /\ m \in m..(Len(f.rows) + 1) /\ (FALSE <=> m > m)
    BY <1>1, <1>2, <1>4
  <2> QED BY <1>3, <2>1 DEF Reading
<1>7. PartOf(f.rows, m - 1) = <<>>
  <2>1. m - 1 \in 0..Len(f.rows) /\ Len(f.rows) \in Nat
    BY <1>1, <1>2, <1>4
  <2>2. \A r \in 1..(m - 1) : BlankRow(f.rows[r])
    BY <1>3 DEF FirstRow
  <2>3. DataOf(f.rows, m - 1) = <<>>
    BY <2>1, <2>2, NoDataYet
  <2> QED BY <2>3, NoPartYet
<1>8. m \in Nat
  BY <1>2, <1>3
<1> QED BY <1>5, <1>6, <1>7, <1>8

\* One row of it: the first is the header, a blank one adds nothing.
LEMMA ReadingGoesOn ==
    ASSUME NEW f, IsStackFile(f), NEW h, NEW passed, NEW n, Reading(f, h, passed, n),
           n <= Len(f.rows)
    PROVE  /\ n \in Nat /\ n \in 1..Len(f.rows) /\ Reading(f, h, TRUE, n + 1)
           /\ IsSequence(PartOf(f.rows, n - 1))
           /\ PartOf(f.rows, n) = IF ~passed \/ BlankRow(f.rows[n]) THEN PartOf(f.rows, n - 1)
                                  ELSE Append(PartOf(f.rows, n - 1), <<h, f.rows[n]>>)
<1>1. PICK rows, L : rows = f.rows /\ L = Len(rows)
  OBVIOUS
<1>2. L \in Nat /\ Len(rows) \in Nat
  BY <1>1, FileHasRows
<1>3. PICK m \in 1..L : FirstRow(f, m) /\ h = rows[m] /\ n \in m..(L + 1) /\ (passed <=> n > m)
  BY <1>1 DEF Reading
<1>4. n \in Nat /\ n \in 1..L /\ m \in Nat /\ m >= 1 /\ m <= n
  BY <1>1, <1>2, <1>3
<1>5. Reading(f, h, TRUE, n + 1)
  <2>1. n + 1 \in m..(L + 1) /\ (TRUE <=> n + 1 > m)
    BY <1>2, <1>4
  <2> QED BY <1>1, <1>3, <2>1 DEF Reading
<1>6. ~BlankRow(rows[m]) /\ \A r \in 1..(m - 1) : BlankRow(rows[r])
  BY <1>1, <1>3 DEF FirstRow
<1>7. CASE n = m
  <2>1. ~passed
    BY <1>3, <1>4, <1>7
  <2>2. n - 1 \in 0..Len(rows) /\ n \in 1..Len(rows)
    BY <1>1, <1>2, <1>4
  <2>3. DataOf(rows, n - 1) = <<>>
    BY <1>2, <1>6, <1>7, <2>2, NoDataYet
  <2>4. PartOf(rows, n - 1) = <<>> /\ IsSequence(PartOf(rows, n - 1))
    BY <2>3, NoPartYet
  <2>5. PartOf(rows, n) = <<>>
    BY <1>2, <1>6, <1>7, <2>2, <2>3, PartBegins
  <2> QED BY <1>1, <1>4, <1>5, <2>1, <2>4, <2>5
<1>8. CASE n # m
  <2>1. passed
    BY <1>3, <1>4, <1>8
  <2>2. n - 1 \in m..Len(rows) /\ n \in 1..Len(rows) /\ m \in 1..Len(rows)
    BY <1>1, <1>2, <1>4, <1>8
  <2>3. PICK d : d = DataOf(rows, n - 1)
    OBVIOUS
  <2>4. IsSequence(d) /\ Len(d) \in Nat /\ Len(d) > 0 /\ d[1] = h
    BY <1>2, <1>3, <1>6, <2>2, <2>3, FirstData
  <2>5. IsSequence(PartOf(rows, n - 1))
    BY <2>3, <2>4, PartIsList
  <2>6. CASE BlankRow(rows[n])
    <3>1. DataOf(rows, n) = DataOf(rows, n - 1)
      BY <1>2, <2>2, <2>6, DataGrows
    <3>2. PartOf(rows, n) = PartOf(rows, n - 1)
      BY <3>1, Zenon DEF PartOf
    <3> QED BY <1>1, <1>4, <1>5, <2>5, <2>6, <3>2
  <2>7. CASE ~BlankRow(rows[n])
    <3>1. PartOf(rows, n) = Append(PartOf(rows, n - 1), <<h, rows[n]>>)
      BY <1>2, <2>2, <2>3, <2>4, <2>7, PartGrows
    <3> QED BY <1>1, <1>4, <1>5, <2>1, <2>5, <2>7, <3>1
  <2> QED BY <2>6, <2>7
<1> QED BY <1>7, <1>8

\* The rows of all of it.
LEMMA ReadingEnds ==
    ASSUME NEW f, IsStackFile(f), HasHeader(f), NEW h, NEW passed, NEW n,
           Reading(f, h, passed, n), ~(n <= Len(f.rows))
    PROVE  n \in Nat /\ PartOf(f.rows, n - 1) = Labelled(f) /\ IsSequence(Labelled(f))
<1>1. PICK L : L = Len(f.rows) /\ L \in Nat
  BY FileHasRows
<1>2. PICK m \in 1..L : FirstRow(f, m) /\ n \in m..(L + 1)
  BY <1>1 DEF Reading
<1>3. n = L + 1 /\ n \in Nat /\ n - 1 = L
  BY <1>1, <1>2
<1>4. Labelled(f) = PartOf(f.rows, L)
  BY <1>1, LabelledRows
<1>5. IsSequence(DataOf(f.rows, L)) /\ Len(DataOf(f.rows, L)) \in Nat /\ Len(DataOf(f.rows, L)) > 0
  <2>1. L \in m..Len(f.rows) /\ m \in 1..Len(f.rows) /\ Len(f.rows) \in Nat
    BY <1>1, <1>2
  <2>2. ~BlankRow(f.rows[m]) /\ \A r \in 1..(m - 1) : BlankRow(f.rows[r])
    BY <1>2 DEF FirstRow
  <2> QED BY <2>1, <2>2, FirstData
<1>6. IsSequence(PartOf(f.rows, L))
  BY <1>5, PartIsList
<1> QED BY <1>3, <1>4, <1>6

-----------------------------------------------------------------------------
(* stack: the column maps, and the output as a list of data rows           *)

\* The columns of a header that have a key.
At(unique, h, key) == {c \in DOMAIN h : ColumnKey(unique, h, c) = key}

\* The last of them is one of them.
LEMMA LastColumn ==
    ASSUME NEW S, NEW n \in Nat, S \subseteq 1..n, S # {}
    PROVE  Max(S) \in S /\ Max(S) \in 1..n
<1> DEFINE D == {n - x : x \in S}
<1>1. D \subseteq Nat /\ D # {}
  OBVIOUS
<1>2. PICK d \in D : \A e \in D : d <= e
  <2> HIDE DEF D
  <2> QED BY <1>1, LeastNatural
<1>3. PICK x \in S : d = n - x
  BY <1>2
<1>4. \A y \in S : n - x <= n - y
  BY <1>2, <1>3
<1>5. \A y \in S : x >= y
  BY <1>3, <1>4
<1>6. \E z \in S : \A y \in S : z >= y
  BY <1>5
<1>7. Max(S) \in S
  BY <1>6, Zenon DEF Max
<1> QED BY <1>7

\* The column map of an input of that header: made when only the first of the
\* output columns were known, it has every column of the header.
Aligned(unique, names, h, map) ==
    \E m \in 0..Len(names) :
      /\ DOMAIN map = 1..m
      /\ \A o \in 1..m : map[o] = IF At(unique, h, names[o].key) = {} THEN 0
                                  ELSE Max(At(unique, h, names[o].key))
      /\ \A c \in DOMAIN h : \E o \in 1..m : names[o].key = ColumnKey(unique, h, c)

\* It stays so when columns are added.
LEMMA AlignedStays ==
    ASSUME NEW unique, NEW base, Names(unique, base), NEW names, Names(unique, names), NEW h, NEW map,
           Len(base) <= Len(names), \A o \in DOMAIN base : names[o] = base[o],
           Aligned(unique, base, h, map)
    PROVE  Aligned(unique, names, h, map)
<1>1. /\ Len(base) \in Nat /\ DOMAIN base = 1..Len(base)
      /\ Len(names) \in Nat
  BY DEF Names, IsSequence
<1>2. PICK m \in 0..Len(base) :
        /\ DOMAIN map = 1..m
        /\ \A o \in 1..m : map[o] = IF At(unique, h, base[o].key) = {} THEN 0
                                    ELSE Max(At(unique, h, base[o].key))
        /\ \A c \in DOMAIN h : \E o \in 1..m : base[o].key = ColumnKey(unique, h, c)
  BY Zenon DEF Aligned
<1>3. m \in 0..Len(names) /\ \A o \in 1..m : names[o] = base[o]
  BY <1>1, <1>2
<1>4. \A o \in 1..m : map[o] = IF At(unique, h, names[o].key) = {} THEN 0
                               ELSE Max(At(unique, h, names[o].key))
  BY <1>2, <1>3
<1>5. \A c \in DOMAIN h : \E o \in 1..m : names[o].key = ColumnKey(unique, h, c)
  BY <1>2, <1>3
<1> QED BY <1>2, <1>3, <1>4, <1>5 DEF Aligned

\* The map that the alignment of a header makes, and what it comes to.
ColumnMap(unique, h, names) ==
    [o \in DOMAIN names |-> IF At(unique, h, names[o].key) = {} THEN 0
                           ELSE Max(At(unique, h, names[o].key))]
Joined(unique, base, h, names) ==
    /\ Names(unique, names) /\ Aligned(unique, names, h, ColumnMap(unique, h, names))
    /\ Len(base) <= Len(names) /\ \A o \in DOMAIN base : names[o] = base[o]

\* zsv_stack_consolidate_header aligns the input.
LEMMA InputIsAligned ==
    ASSUME NEW unique, NEW base, Names(unique, base), NEW h, IsSequence(h)
    PROVE  Joined(unique, base, h, Consolidate(unique, base, h))
<1>0. PICK names, map : names = Consolidate(unique, base, h) /\ map = ColumnMap(unique, h, names)
  OBVIOUS
<1>1. Grown(unique, base, h, Len(h), names)
  BY <1>0, HeaderIsConsolidated
<1>2. /\ Names(unique, names) /\ Len(base) <= Len(names) /\ \A o \in DOMAIN base : names[o] = base[o]
      /\ \A b \in 1..Len(h) : \E o \in DOMAIN names : names[o].key = ColumnKey(unique, h, b)
  BY <1>1 DEF Grown
<1>3. PICK m : m = Len(names)
  OBVIOUS
<1>4. m \in Nat /\ DOMAIN names = 1..m
  BY <1>2, <1>3 DEF Names, IsSequence
<1>5. DOMAIN h = 1..Len(h)
  BY DEF IsSequence
<1>6. m \in 0..Len(names)
  BY <1>3, <1>4
<1>7. /\ DOMAIN map = 1..m
      /\ \A o \in 1..m : map[o] = IF At(unique, h, names[o].key) = {} THEN 0
                                  ELSE Max(At(unique, h, names[o].key))
  BY <1>0, <1>4 DEF ColumnMap
<1>8. \A c \in DOMAIN h : \E o \in 1..m : names[o].key = ColumnKey(unique, h, c)
  BY <1>2, <1>4, <1>5
<1>9. Aligned(unique, names, h, map)
  BY <1>6, <1>7, <1>8 DEF Aligned
<1> QED BY <1>0, <1>2, <1>9 DEF Joined

\* The value of a data row under a key.
CellUnder(unique, pair, key) ==
    IF At(unique, pair[1], key) = {} \/ Max(At(unique, pair[1], key)) > Len(pair[2])
    THEN StackBlank ELSE pair[2][Max(At(unique, pair[1], key))]

\* zsv_stack_data_row finds it through the map.
LEMMA CellIsFound ==
    ASSUME NEW unique, NEW names, Names(unique, names), NEW h, IsSequence(h), NEW map,
           Aligned(unique, names, h, map), NEW row, IsSequence(row), NEW o \in DOMAIN names
    PROVE  LET ix == IF o \in DOMAIN map THEN map[o] ELSE 0
           IN  (IF ix \in DOMAIN row THEN row[ix] ELSE StackBlank)
                 = CellUnder(unique, <<h, row>>, names[o].key)
<1>1. PICK m \in 0..Len(names) :
        /\ DOMAIN map = 1..m
        /\ \A p \in 1..m : map[p] = IF At(unique, h, names[p].key) = {} THEN 0
                                    ELSE Max(At(unique, h, names[p].key))
        /\ \A c \in DOMAIN h : \E p \in 1..m : names[p].key = ColumnKey(unique, h, c)
  BY Zenon DEF Aligned
<1>2. PICK at : at = At(unique, h, names[o].key)
  OBVIOUS
<1>3. Len(names) \in Nat /\ DOMAIN names = 1..Len(names) /\ Len(h) \in Nat /\ DOMAIN h = 1..Len(h)
  BY DEF Names, IsSequence
<1>4. Len(row) \in Nat /\ DOMAIN row = 1..Len(row)
  BY DEF IsSequence
<1>5. CellUnder(unique, <<h, row>>, names[o].key)
        = IF at = {} \/ Max(at) > Len(row) THEN StackBlank ELSE row[Max(at)]
  BY <1>2 DEF CellUnder
<1>6. at # {} => Max(at) \in 1..Len(h)
  <2>1. at \subseteq 1..Len(h)
    BY <1>2, <1>3 DEF At
  <2> QED BY <1>3, <2>1, LastColumn
<1>7. at # {} => o \in DOMAIN map
  <2> SUFFICES ASSUME at # {} PROVE o \in DOMAIN map
    OBVIOUS
  <2>1. PICK c \in DOMAIN h : ColumnKey(unique, h, c) = names[o].key
    BY <1>2 DEF At
  <2>2. PICK p \in 1..m : names[p].key = ColumnKey(unique, h, c)
    BY <1>1
  <2>3. p \in DOMAIN names /\ names[p].key = names[o].key
    BY <1>1, <1>3, <2>1, <2>2
  <2>4. p = o
    BY <2>3 DEF Names
  <2> QED BY <1>1, <2>4
<1>8. PICK ix : ix = IF o \in DOMAIN map THEN map[o] ELSE 0
  OBVIOUS
<1>9. ix = IF at = {} THEN 0 ELSE Max(at)
  <2>1. o \in DOMAIN map => map[o] = IF at = {} THEN 0 ELSE Max(at)
    BY <1>1, <1>2
  <2> QED BY <1>7, <1>8, <2>1
<1>10. (IF ix \in DOMAIN row THEN row[ix] ELSE StackBlank)
         = IF at = {} \/ Max(at) > Len(row) THEN StackBlank ELSE row[Max(at)]
  <2>1. CASE at = {}
    <3>1. ix = 0 /\ ~(0 \in DOMAIN row)
      BY <1>4, <1>9, <2>1
    <3> QED BY <2>1, <3>1
  <2>2. CASE at # {}
    <3>1. ix = Max(at) /\ Max(at) \in 1..Len(h)
      BY <1>6, <1>9, <2>2
    <3>2. ix \in DOMAIN row <=> ~(ix > Len(row))
      BY <1>3, <1>4, <3>1
    <3> QED BY <2>2, <3>1, <3>2
  <2> QED BY <2>1, <2>2
<1> QED BY <1>5, <1>8, <1>10

\* The data rows of the first files, in their order.
FlatUp(files, k) ==
    IF k = 0 THEN <<>> ELSE FlattenSeq([j \in 1..k |-> Labelled(files[j])])

\* One file more adds its own.
LEMMA FlatUpGrows ==
    ASSUME NEW files, NEW k \in Nat, k > 0, IsSequence(Labelled(files[k]))
    PROVE  FlatUp(files, k) = FlatUp(files, k - 1) \o Labelled(files[k])
<1> DEFINE list(n) == [j \in 1..n |-> Labelled(files[j])]
<1>1. ASSUME NEW n \in Nat
      PROVE  Len(list(n)) = n /\ \A j \in 1..n : list(n)[j] = Labelled(files[j])
  <2>1. list(n) = [j \in 1..n |-> list(n)[j]] /\ \A j \in 1..n : list(n)[j] = Labelled(files[j])
    OBVIOUS
  <2>2. PICK s : s = list(n)
    OBVIOUS
  <2>3. s = [j \in 1..n |-> s[j]]
    BY <2>1, <2>2
  <2>4. Len(s) = n
    BY <2>3, ListIsSequence
  <2> QED BY <2>1, <2>2, <2>4
<1>2. FlatUp(files, k) = FlattenSeq(list(k))
  BY DEF FlatUp
<1>3. k - 1 # 0 => FlatUp(files, k - 1) = FlattenSeq(list(k - 1))
  BY DEF FlatUp
<1> HIDE DEF list
<1>4. CASE k = 1
  <2>1. Len(list(k)) = 1 /\ list(k)[1] = Labelled(files[1])
    <3>1. 1 \in Nat /\ 1 \in 1..1
      OBVIOUS
    <3>2. Len(list(1)) = 1 /\ \A j \in 1..1 : list(1)[j] = Labelled(files[j])
      BY <1>1, <3>1
    <3>3. list(1)[1] = Labelled(files[1])
      BY <3>1, <3>2
    <3> QED BY <1>4, <3>2, <3>3
  <2>2. FlattenSeq(list(k)) = list(k)[1]
    BY <2>1, FlattenOne
  <2>3. FlatUp(files, k - 1) = <<>>
    BY <1>4 DEF FlatUp
  <2>4. PICK s, e : s = Labelled(files[k]) /\ e = <<>>
    OBVIOUS
  <2>5. IsSequence(s) /\ IsSequence(e) /\ Len(e) = 0
    BY <2>4, EmptyIsSequence
  <2>6. /\ IsSequence(e \o s) /\ DOMAIN (e \o s) = 1..(Len(e) + Len(s)) /\ Len(s) \in Nat
        /\ \A j \in 1..Len(s) : (e \o s)[Len(e) + j] = s[j]
    BY <2>5, ConcatElements
  <2>7. Len(e \o s) = Len(s) /\ \A j \in 1..Len(s) : (e \o s)[j] = s[j]
    <3>1. Len(e) + Len(s) = Len(s) /\ \A j \in 1..Len(s) : Len(e) + j = j
      BY <2>5, <2>6
    <3>2. DOMAIN (e \o s) = 1..Len(s) /\ \A j \in 1..Len(s) : (e \o s)[j] = s[j]
      BY <2>6, <3>1
    <3>3. Len(e \o s) \in Nat /\ DOMAIN (e \o s) = 1..Len(e \o s)
      BY <2>6 DEF IsSequence
    <3>4. 1..Len(e \o s) = 1..Len(s)
      BY <3>2, <3>3
    <3>5. Len(e \o s) = Len(s)
      BY <2>6, <3>3, <3>4, SameBound
    <3> QED BY <3>2, <3>5
  <2>8. e \o s = s
    BY <2>5, <2>6, <2>7, SamePlaces
  <2> QED BY <1>2, <1>4, <2>1, <2>2, <2>3, <2>4, <2>8
<1>5. CASE k # 1
  <2>1. k - 1 \in Nat /\ k - 1 > 0 /\ k - 1 # 0 /\ (k - 1) + 1 = k
    BY <1>5
  <2>2. PICK s, t, n : s = list(k - 1) /\ t = list(k) /\ n = k - 1
    OBVIOUS
  <2>3. n \in Nat /\ n > 0 /\ Len(s) = n /\ Len(t) = n + 1 /\ n + 1 = k
    BY <1>1, <2>1, <2>2
  <2>4. \A j \in 1..n : t[j] = s[j]
    <3>1. \A j \in 1..n : j \in 1..k
      BY <2>3
    <3> QED BY <1>1, <2>1, <2>2, <3>1
  <2>5. FlattenSeq(t) = FlattenSeq(s) \o t[n + 1]
    BY <2>3, <2>4, FlattenMore
  <2>6. t[n + 1] = Labelled(files[k])
    <3>1. k \in 1..k
      OBVIOUS
    <3> QED BY <1>1, <2>2, <2>3, <3>1
  <2> QED BY <1>2, <1>3, <2>1, <2>2, <2>5, <2>6
<1> QED BY <1>4, <1>5

\* A row of the output has the values of a data row under the output columns.
Fits(unique, names, row, pair) ==
    /\ row = [o \in DOMAIN names |-> CellUnder(unique, pair, names[o].key)]
    /\ \A c \in DOMAIN pair[1] : \E o \in DOMAIN names : names[o].key = ColumnKey(unique, pair[1], c)

\* The output: its header, and a row for each data row so far.
Written(unique, names, table, pairs) ==
    /\ IsSequence(table) /\ IsSequence(pairs) /\ Len(table) = Len(pairs) + 1
    /\ table[1] = [o \in DOMAIN names |-> names[o].name]
    /\ \A i \in 1..Len(pairs) : Fits(unique, names, table[i + 1], pairs[i])

\* The header alone.
LEMMA HeaderIsWritten ==
    ASSUME NEW unique, NEW names, NEW table, table = <<>>
    PROVE  Written(unique, names, Append(table, [o \in DOMAIN names |-> names[o].name]), <<>>)
<1>1. PICK e, h : e = <<>> /\ h = [o \in DOMAIN names |-> names[o].name]
  OBVIOUS
<1>2. IsSequence(e) /\ Len(e) = 0 /\ table = e
  BY <1>1, EmptyIsSequence
<1>3. IsSequence(Append(e, h)) /\ Len(Append(e, h)) = Len(e) + 1 /\ Append(e, h)[Len(e) + 1] = h
  BY <1>2, AppendIsSequence
<1>4. Len(Append(e, h)) = Len(e) + 1 /\ Append(e, h)[1] = h /\ \A i \in 1..Len(e) : FALSE
  BY <1>2, <1>3
<1>5. Written(unique, names, Append(e, h), e)
  BY <1>1, <1>2, <1>3, <1>4 DEF Written
<1> QED BY <1>1, <1>2, <1>5

\* One row more.
LEMMA RowIsWritten ==
    ASSUME NEW unique, NEW names, NEW table, NEW pairs, Written(unique, names, table, pairs),
           NEW row, NEW pair, Fits(unique, names, row, pair)
    PROVE  Written(unique, names, Append(table, row), Append(pairs, pair))
<1>1. PICK n : n = Len(pairs)
  OBVIOUS
<1>2. /\ IsSequence(table) /\ IsSequence(pairs) /\ Len(table) = n + 1
      /\ table[1] = [o \in DOMAIN names |-> names[o].name]
      /\ \A i \in 1..n : Fits(unique, names, table[i + 1], pairs[i])
  BY <1>1 DEF Written
<1>3. PICK t, p : t = Append(table, row) /\ p = Append(pairs, pair)
  OBVIOUS
<1>4. /\ IsSequence(p) /\ Len(p) = n + 1 /\ p[n + 1] = pair /\ \A i \in 1..n : p[i] = pairs[i]
      /\ n \in Nat
  BY <1>1, <1>2, <1>3, AppendIsSequence
<1>5. /\ IsSequence(t) /\ Len(t) = (n + 1) + 1 /\ t[(n + 1) + 1] = row
      /\ \A i \in 1..(n + 1) : t[i] = table[i]
  BY <1>2, <1>3, AppendIsSequence
<1>6. t[1] = [o \in DOMAIN names |-> names[o].name]
  <2>1. 1 \in 1..(n + 1)
    BY <1>4
  <2> QED BY <1>2, <1>5, <2>1
<1>7. ASSUME NEW i \in 1..(n + 1) PROVE Fits(unique, names, t[i + 1], p[i])
  <2>1. CASE i = n + 1
    BY <1>4, <1>5, <2>1
  <2>2. CASE i # n + 1
    <3>1. i \in 1..n /\ i + 1 \in 1..(n + 1)
      BY <1>4, <2>2
    <3> QED BY <1>2, <1>4, <1>5, <3>1
  <2> QED BY <2>1, <2>2
<1>8. Written(unique, names, t, p)
  BY <1>4, <1>5, <1>6, <1>7 DEF Written
<1> QED BY <1>3, <1>8

-----------------------------------------------------------------------------
(* stack: the two passes                                                   *)

\* The record of the command.
StackShape(s) ==
    s = [pc |-> s.pc, files |-> s.files, unique |-> s.unique, keep |-> s.keep, err |-> s.err,
         cur |-> s.cur, next |-> s.next, headersDone |-> s.headersDone, header |-> s.header,
         colnames |-> s.colnames, columnMap |-> s.columnMap]

\* Its files, and the one entry for each of them.
StackFiles(s) ==
    /\ IsSequence(s.files) /\ Len(s.files) \in Nat /\ Len(s.files) > 0
    /\ DOMAIN s.files = 1..Len(s.files) /\ \A k \in 1..Len(s.files) : IsStackFile(s.files[k])
    /\ s.headersDone = [k \in 1..Len(s.files) |-> s.headersDone[k]]
    /\ s.header = [k \in 1..Len(s.files) |-> s.header[k]]
    /\ s.columnMap = [k \in 1..Len(s.files) |-> s.columnMap[k]]

\* What the first pass has found and how far the alignment is.
HeadersUpTo(s, k) == \A j \in 1..Len(s.files) : j <= k => HeaderRead(s.files[j], s.header[j])
AlignedUpTo(s, k) ==
    \A j \in 1..Len(s.files) : j <= k => Aligned(s.unique, s.colnames, s.header[j], s.columnMap[j])
\* The files from k to n that have a header are known by their flag.
FlagsFrom(s, k, n) == \A j \in 1..n : j >= k => (s.headersDone[j] <=> HasHeader(s.files[j]))

\* The two passes in order.
HeadersPhase(s, o) ==
    /\ o = <<>> /\ s.cur \in 1..(2 * Len(s.files))
    /\ HeadersUpTo(s, s.cur - 1) /\ AlignedUpTo(s, s.cur - 1 - Len(s.files))
    /\ \A j \in 1..Len(s.files) : j < s.cur => (s.headersDone[j] <=> HasHeader(s.files[j]))
AllLinedUp(s) == HeadersUpTo(s, Len(s.files)) /\ AlignedUpTo(s, Len(s.files))
PrintPhase(s, o) == o = <<>> /\ s.cur = 1 /\ AllLinedUp(s) /\ FlagsFrom(s, 1, Len(s.files))
InputPhase(s, o) ==
    /\ s.cur \in 1..(Len(s.files) + 1) /\ AllLinedUp(s) /\ FlagsFrom(s, s.cur, Len(s.files))
    /\ s.colnames # <<>> => Written(s.unique, s.colnames, o, FlatUp(s.files, s.cur - 1))
RowsPhase(s, o) ==
    /\ s.cur \in 1..Len(s.files) /\ AllLinedUp(s) /\ FlagsFrom(s, s.cur + 1, Len(s.files))
    /\ HasHeader(s.files[s.cur])
    /\ Reading(s.files[s.cur], s.header[s.cur], s.headersDone[s.cur], s.next)
    /\ s.colnames # <<>> =>
         /\ IsSequence(FlatUp(s.files, s.cur - 1))
         /\ Written(s.unique, s.colnames, o,
                    FlatUp(s.files, s.cur - 1) \o PartOf(s.files[s.cur].rows, s.next - 1))
EndPhase(s, o) ==
    s.colnames # <<>> => Written(s.unique, s.colnames, o, FlatUp(s.files, Len(s.files)))

\* With no error, and no blank row kept where the header should be.
Regular(s) == ~s.err /\ (s.keep => \A k \in 1..Len(s.files) : ~BlankRow(s.files[k].rows[1]))

StackGood(s, o) ==
    /\ StackShape(s) /\ StackFiles(s) /\ s.pc \in {"headers", "print", "input", "rows", "done"}
    /\ Regular(s) => /\ Names(s.unique, s.colnames)
                     /\ s.pc = "headers" => HeadersPhase(s, o)
                     /\ s.pc = "print" => PrintPhase(s, o)
                     /\ s.pc = "input" => InputPhase(s, o)
                     /\ s.pc = "rows" => RowsPhase(s, o)
                     /\ s.pc = "done" => EndPhase(s, o)
StackInv == StackGood(st, out)

\* It holds when the options are read.
LEMMA StackStarts == ASSUME StackInit PROVE StackInv
<1>1. PICK f \in StackInputs, unique \in BOOLEAN, keep \in BOOLEAN, err \in BOOLEAN :
        st = [pc |-> "headers", files |-> f, unique |-> unique, keep |-> keep,
              err |-> err, cur |-> 1, next |-> 1,
              headersDone |-> [k \in DOMAIN f |-> FALSE],
              header |-> [k \in DOMAIN f |-> <<>>],
              colnames |-> <<>>,
              columnMap |-> [k \in DOMAIN f |-> <<>>]]
  BY DEF StackInit
<1>2. out = <<>>
  BY DEF StackInit
<1>3. PICK s : s = st
  OBVIOUS
<1>4. /\ StackShape(s) /\ s.files = f /\ s.cur = 1 /\ s.pc = "headers" /\ s.colnames = <<>>
      /\ s.headersDone = [k \in DOMAIN f |-> FALSE]
      /\ s.header = [k \in DOMAIN f |-> <<>>]
      /\ s.columnMap = [k \in DOMAIN f |-> <<>>]
  BY <1>1, <1>3 DEF StackShape
<1>5. f # <<>> /\ IsSequence(f) /\ \A x \in Range(f) : IsStackFile(x)
  BY StackAssumption, Zenon DEF IsSequence, Range
<1>6. Len(f) \in Nat /\ DOMAIN f = 1..Len(f) /\ Len(f) > 0
  BY <1>5 DEF IsSequence
<1>7. \A k \in 1..Len(f) : IsStackFile(f[k])
  BY <1>5, <1>6 DEF Range
<1>8. StackFiles(s)
  BY <1>4, <1>5, <1>6, <1>7 DEF StackFiles
<1>9. Names(s.unique, s.colnames)
  <2>1. IsSequence(s.colnames) /\ \A o \in DOMAIN s.colnames : FALSE
    BY <1>4, EmptyIsSequence
  <2> QED BY <2>1 DEF Names
<1>10. HeadersPhase(s, out)
  <2>1. 1 \in 1..(2 * Len(f)) /\ \A j \in 1..Len(f) : ~(j <= 0) /\ ~(j <= 0 - Len(f)) /\ ~(j < 1)
    BY <1>6
  <2>2. s.cur - 1 = 0
    BY <1>4
  <2>3. \A j \in 1..Len(s.files) : ~(j <= s.cur - 1) /\ ~(j <= s.cur - 1 - Len(s.files)) /\ ~(j < s.cur)
    BY <1>4, <2>1, <2>2
  <2> QED BY <1>2, <1>4, <2>1, <2>3 DEF HeadersPhase, HeadersUpTo, AlignedUpTo
<1>11. StackGood(s, out)
  <2>1. s.pc \in {"headers", "print", "input", "rows", "done"}
    BY <1>4
  <2>2. s.pc # "print" /\ s.pc # "input" /\ s.pc # "rows" /\ s.pc # "done"
    BY <1>4
  <2> QED BY <1>4, <1>8, <1>9, <1>10, <2>1, <2>2, Zenon DEF StackGood
<1> QED BY <1>3, <1>11 DEF StackInv

\* zsv_stack_header_row in one file: the next of them has its header.
LEMMA ReadHeaderStep == ASSUME StackInv, StackReadHeader PROVE StackInv'
<1>1. PICK s, t, k, f : s = st /\ t = st' /\ k = s.cur /\ f = s.files[k]
  OBVIOUS
<1> DEFINE data == {r \in DOMAIN EndedRows(f) : ~BlankRow(f.rows[r])}
           left == IF f.ended THEN <<>> ELSE Front(Last(f.rows))
           head == IF data = {} THEN left ELSE f.rows[Min(data)]
<1>2. /\ s.pc = "headers" /\ ~s.err /\ k <= Len(s.files) /\ out' = out
      /\ t = [s EXCEPT !.cur = @ + 1, !.headersDone[k] = (data # {}), !.header[k] = head]
  BY <1>1 DEF StackReadHeader
<1>3. StackGood(s, out)
  BY <1>1 DEF StackInv
<1>4. PICK found, h : found = (data # {}) /\ h = head
  OBVIOUS
<1>5. t = [s EXCEPT !.cur = @ + 1, !.headersDone[k] = found, !.header[k] = h]
  BY <1>2, <1>4
<1>6. IsStackFile(f) => (found <=> HasHeader(f)) /\ HeaderRead(f, h)
  <2> SUFFICES ASSUME IsStackFile(f) PROVE (found <=> HasHeader(f)) /\ HeaderRead(f, h)
    OBVIOUS
  <2>1. (data # {}) = HasHeader(f) /\ HeaderRead(f, head)
    BY HeaderIsRead
  <2>2. HeaderRead(f, h)
    BY <1>4, <2>1
  <2> HIDE DEF data
  <2>3. found <=> HasHeader(f)
    BY <1>4, <2>1, Zenon
  <2> QED BY <2>2, <2>3
<1> HIDE DEF data, left, head
<1>7. StackShape(s) /\ StackFiles(s) /\ (Regular(s) => Names(s.unique, s.colnames))
  BY <1>3 DEF StackGood
<1>8. /\ StackShape(t) /\ t.pc = s.pc /\ t.files = s.files /\ t.unique = s.unique /\ t.keep = s.keep
      /\ t.err = s.err /\ t.cur = s.cur + 1 /\ t.colnames = s.colnames /\ t.columnMap = s.columnMap
      /\ t.headersDone = [s.headersDone EXCEPT ![k] = found]
      /\ t.header = [s.header EXCEPT ![k] = h]
  BY <1>5, <1>7 DEF StackShape
<1>9. PICK n \in Nat : n = Len(s.files)
  BY <1>7 DEF StackFiles
<1>10. /\ n > 0 /\ \A j \in 1..n : IsStackFile(s.files[j])
       /\ s.headersDone = [j \in 1..n |-> s.headersDone[j]]
       /\ s.header = [j \in 1..n |-> s.header[j]]
  BY <1>7, <1>9 DEF StackFiles
<1>11. /\ DOMAIN t.headersDone = 1..n /\ DOMAIN t.header = 1..n
       /\ \A j \in 1..n : j # k => t.headersDone[j] = s.headersDone[j] /\ t.header[j] = s.header[j]
       /\ k \in 1..n => t.header[k] = h
       /\ t.headersDone = [j \in 1..n |-> t.headersDone[j]]
       /\ t.header = [j \in 1..n |-> t.header[j]]
  BY <1>8, <1>10
<1>12. k \in 1..n => t.headersDone[k] = found
  BY <1>8, <1>10, Zenon
<1>13. StackFiles(t)
  BY <1>7, <1>8, <1>9, <1>11 DEF StackFiles
<1>14. Regular(t) => Regular(s)
  BY <1>8 DEF Regular
<1>15. ASSUME Regular(s) PROVE HeadersPhase(t, out)
  <2>1. /\ out = <<>> /\ k \in 1..(2 * n) /\ HeadersUpTo(s, k - 1) /\ AlignedUpTo(s, k - 1 - n)
        /\ \A j \in 1..n : j < k => (s.headersDone[j] <=> HasHeader(s.files[j]))
    BY <1>1, <1>2, <1>3, <1>9, <1>15 DEF StackGood, HeadersPhase
  <2>2. k \in Nat /\ k \in 1..n /\ k + 1 \in 1..(2 * n) /\ (k + 1) - 1 = k
    BY <1>2, <1>9, <1>10, <2>1
  <2>3. (found <=> HasHeader(f)) /\ HeaderRead(f, h)
    BY <1>1, <1>6, <1>10, <2>2
  <2>4. HeadersUpTo(t, k)
    <3> SUFFICES ASSUME NEW j \in 1..n, j <= k PROVE HeaderRead(t.files[j], t.header[j])
      BY <1>8, <1>9 DEF HeadersUpTo
    <3>1. CASE j = k
      BY <1>1, <1>8, <1>11, <2>2, <2>3, <3>1
    <3>2. CASE j # k
      <4>1. j <= k - 1
        BY <2>2, <3>2
      <4>2. HeaderRead(s.files[j], s.header[j])
        BY <1>9, <2>1, <4>1 DEF HeadersUpTo
      <4> QED BY <1>8, <1>11, <3>2, <4>2
    <3> QED BY <3>1, <3>2
  <2>5. AlignedUpTo(t, k - n)
    <3>1. \A j \in 1..n : ~(j <= k - n)
      BY <2>2
    <3> QED BY <1>8, <1>9, <3>1 DEF AlignedUpTo
  <2>6. ASSUME NEW j \in 1..n, j < k + 1 PROVE t.headersDone[j] <=> HasHeader(t.files[j])
    <3>1. CASE j = k
      <4>1. t.headersDone[j] = found /\ t.files[j] = f
        BY <1>1, <1>8, <1>12, <2>2, <3>1
      <4> QED BY <2>3, <4>1, Zenon
    <3>2. CASE j # k
      <4>1. j < k
        BY <2>2, <2>6, <3>2
      <4>2. t.headersDone[j] = s.headersDone[j] /\ t.files[j] = s.files[j]
        BY <1>8, <1>11, <3>2
      <4> QED BY <2>1, <4>1, <4>2, Zenon
    <3> QED BY <3>1, <3>2
  <2>7. /\ t.cur \in 1..(2 * Len(t.files)) /\ HeadersUpTo(t, t.cur - 1)
        /\ AlignedUpTo(t, t.cur - 1 - Len(t.files))
    BY <1>1, <1>8, <1>9, <2>2, <2>4, <2>5
  <2>8. \A j \in 1..Len(t.files) : j < t.cur => (t.headersDone[j] <=> HasHeader(t.files[j]))
    BY <1>1, <1>8, <1>9, <2>6, Zenon
  <2> QED BY <2>1, <2>7, <2>8, Zenon DEF HeadersPhase
<1>16. StackGood(t, out)
  <2>1. (Regular(s) => Names(t.unique, t.colnames)) /\ t.pc = "headers"
    BY <1>2, <1>7, <1>8
  <2>2. /\ t.pc \in {"headers", "print", "input", "rows", "done"}
        /\ t.pc # "print" /\ t.pc # "input" /\ t.pc # "rows" /\ t.pc # "done"
    BY <2>1
  <2> QED BY <1>8, <1>13, <1>14, <1>15, <2>1, <2>2, Zenon DEF StackGood
<1> QED BY <1>1, <1>2, <1>16 DEF StackInv

\* The alignment of one file.
LEMMA AlignStep == ASSUME StackInv, StackAlign PROVE StackInv'
<1> DEFINE k == st.cur - Len(st.files)
           h == st.header[k]
           names == Consolidate(st.unique, st.colnames, h)
           map == ColumnMap(st.unique, h, names)
<1>1. /\ st.pc = "headers" /\ ~st.err /\ st.cur > Len(st.files) /\ out' = out
      /\ st' = [st EXCEPT !.colnames = names, !.columnMap[k] = map,
                         !.cur = IF k = Len(st.files) THEN 1 ELSE @ + 1,
                         !.pc = IF k = Len(st.files) THEN "print" ELSE @]
  BY Zenon DEF StackAlign, At, ColumnMap
<1>2. PICK s, t, n, i, g, all, m :
        s = st /\ t = st' /\ n = Len(st.files) /\ i = k /\ g = h /\ all = names /\ m = map
  OBVIOUS
<1>3. /\ s.pc = "headers" /\ ~s.err /\ s.cur > n /\ i = s.cur - n /\ n = Len(s.files)
      /\ t = [s EXCEPT !.colnames = all, !.columnMap[i] = m,
                       !.cur = IF i = n THEN 1 ELSE @ + 1,
                       !.pc = IF i = n THEN "print" ELSE @]
  BY <1>1, <1>2
<1>4. /\ g = s.header[i] /\ all = Consolidate(s.unique, s.colnames, g)
      /\ m = ColumnMap(s.unique, g, all)
  BY <1>2
<1> HIDE DEF k, h, names, map
<1>5. StackGood(s, out)
  BY <1>2 DEF StackInv
<1>6. StackShape(s) /\ StackFiles(s)
  BY <1>5 DEF StackGood
<1>7. /\ StackShape(t) /\ t.pc = (IF i = n THEN "print" ELSE s.pc) /\ t.files = s.files
      /\ t.unique = s.unique /\ t.keep = s.keep
      /\ t.err = s.err /\ t.cur = (IF i = n THEN 1 ELSE s.cur + 1) /\ t.colnames = all
      /\ t.columnMap = [s.columnMap EXCEPT ![i] = m]
      /\ t.headersDone = s.headersDone /\ t.header = s.header
  BY <1>3, <1>6 DEF StackShape
<1>8. /\ n \in Nat /\ n > 0 /\ n = Len(s.files)
      /\ s.columnMap = [j \in 1..n |-> s.columnMap[j]]
  BY <1>3, <1>6 DEF StackFiles
<1>9. /\ \A j \in 1..n : j # i => t.columnMap[j] = s.columnMap[j]
      /\ i \in 1..n => t.columnMap[i] = m
      /\ t.columnMap = [j \in 1..n |-> t.columnMap[j]]
  BY <1>7, <1>8
<1>10. StackFiles(t)
  BY <1>6, <1>7, <1>8, <1>9 DEF StackFiles
<1>11. Regular(t) => Regular(s)
  BY <1>7 DEF Regular
<1>12. ASSUME Regular(s)
       PROVE  Names(t.unique, t.colnames) /\ (t.pc = "headers" => HeadersPhase(t, out))
              /\ (t.pc = "print" => PrintPhase(t, out))
  <2>1. Names(s.unique, s.colnames) /\ HeadersPhase(s, out)
    BY <1>3, <1>5, <1>12 DEF StackGood
  <2>2. /\ out = <<>> /\ s.cur \in 1..(2 * n)
        /\ HeadersUpTo(s, s.cur - 1) /\ AlignedUpTo(s, s.cur - 1 - n)
        /\ \A j \in 1..n : j < s.cur => (s.headersDone[j] <=> HasHeader(s.files[j]))
    BY <1>8, <2>1 DEF HeadersPhase
  <2>3. s.cur \in Nat /\ i \in Nat /\ i \in 1..n /\ s.cur = n + i
    BY <1>3, <1>8, <2>2
  <2>4. \A j \in 1..n : HeaderRead(s.files[j], s.header[j])
    <3>1. \A j \in 1..n : j <= s.cur - 1
      BY <1>8, <2>3
    <3> QED BY <1>8, <2>2, <3>1 DEF HeadersUpTo
  <2>5. IsSequence(g)
    BY <1>4, <2>3, <2>4 DEF HeaderRead
  <2>6. /\ Names(s.unique, all) /\ Aligned(s.unique, all, g, m)
        /\ Len(s.colnames) <= Len(all) /\ \A o \in DOMAIN s.colnames : all[o] = s.colnames[o]
    <3>1. Joined(s.unique, s.colnames, g, all)
      BY <1>4, <2>1, <2>5, InputIsAligned
    <3> QED BY <1>4, <3>1 DEF Joined
  <2>7. Names(t.unique, t.colnames)
    BY <1>7, <2>6
  <2>8. ASSUME NEW j \in 1..n, j <= i PROVE Aligned(t.unique, t.colnames, t.header[j], t.columnMap[j])
    <3>1. CASE j = i
      BY <1>4, <1>7, <1>9, <2>3, <2>6, <3>1
    <3>2. CASE j # i
      <4>1. j <= s.cur - 1 - n
        BY <1>8, <2>3, <2>8, <3>2
      <4>2. Aligned(s.unique, s.colnames, s.header[j], s.columnMap[j])
        BY <1>8, <2>2, <4>1 DEF AlignedUpTo
      <4>3. Aligned(s.unique, all, s.header[j], s.columnMap[j])
        BY <2>1, <2>6, <4>2, AlignedStays
      <4> QED BY <1>7, <1>9, <3>2, <4>3
    <3> QED BY <3>1, <3>2
  <2>9. CASE i = n
    <3>1. t.pc = "print" /\ t.pc # "headers" /\ t.cur = 1
      BY <1>7, <2>9
    <3>2. HeadersUpTo(t, Len(t.files))
      BY <1>7, <1>8, <2>4 DEF HeadersUpTo
    <3>3. AlignedUpTo(t, Len(t.files))
      BY <1>7, <1>8, <2>8, <2>9 DEF AlignedUpTo
    <3>4. FlagsFrom(t, 1, Len(t.files))
      <4>1. \A j \in 1..n : j < s.cur
        BY <1>8, <2>3
      <4>2. \A j \in 1..n : s.headersDone[j] <=> HasHeader(s.files[j])
        BY <2>2, <4>1, Zenon
      <4> QED BY <1>7, <1>8, <4>2, Zenon DEF FlagsFrom
    <3>5. PrintPhase(t, out)
      BY <2>2, <3>1, <3>2, <3>3, <3>4, Zenon DEF PrintPhase, AllLinedUp
    <3> QED BY <2>7, <3>1, <3>5, Zenon
  <2>10. CASE i # n
    <3>1. t.pc = "headers" /\ t.pc # "print" /\ t.cur = s.cur + 1
      BY <1>3, <1>7, <2>10
    <3>2. t.cur \in 1..(2 * n) /\ t.cur - 1 - n = i
      BY <1>8, <2>3, <2>10, <3>1
    <3>3. HeadersUpTo(t, t.cur - 1)
      BY <1>7, <1>8, <2>4 DEF HeadersUpTo
    <3>4. AlignedUpTo(t, t.cur - 1 - Len(t.files))
      BY <1>7, <1>8, <2>8, <3>2 DEF AlignedUpTo
    <3>5. \A j \in 1..n : j < t.cur => (t.headersDone[j] <=> HasHeader(t.files[j]))
      <4>1. \A j \in 1..n : j < s.cur
        BY <1>8, <2>3
      <4>2. \A j \in 1..n : s.headersDone[j] <=> HasHeader(s.files[j])
        BY <2>2, <4>1, Zenon
      <4> QED BY <1>7, <4>2, Zenon
    <3>6. HeadersPhase(t, out)
      <4>1. n = Len(t.files)
        BY <1>7, <1>8
      <4> QED BY <2>2, <3>2, <3>3, <3>4, <3>5, <4>1, Zenon DEF HeadersPhase
    <3> QED BY <2>7, <3>1, <3>6, Zenon
  <2> QED BY <2>9, <2>10
<1>13. StackGood(t, out)
  <2>1. /\ t.pc \in {"headers", "print", "input", "rows", "done"}
        /\ t.pc # "input" /\ t.pc # "rows" /\ t.pc # "done"
    BY <1>3, <1>7
  <2> QED BY <1>7, <1>10, <1>11, <1>12, <2>1, Zenon DEF StackGood
<1> QED BY <1>1, <1>2, <1>13 DEF StackInv

\* The common header is printed.
LEMMA PrintStep == ASSUME StackInv, StackPrintHeaders PROVE StackInv'
<1> DEFINE line == [o \in DOMAIN st.colnames |-> st.colnames[o].name]
<1>1. PICK s, t, p : s = st /\ t = st' /\ p = out'
  OBVIOUS
<1>2. /\ s.pc = "print" /\ t = [s EXCEPT !.pc = "input"]
      /\ p = IF s.colnames = <<>> THEN out ELSE Append(out, line)
  BY <1>1 DEF StackPrintHeaders
<1>3. line = [o \in DOMAIN s.colnames |-> s.colnames[o].name]
  BY <1>1
<1> HIDE DEF line
<1>4. StackGood(s, out)
  BY <1>1 DEF StackInv
<1>5. StackShape(s) /\ StackFiles(s)
  BY <1>4 DEF StackGood
<1>6. /\ StackShape(t) /\ t.pc = "input" /\ t.files = s.files /\ t.unique = s.unique
      /\ t.keep = s.keep /\ t.err = s.err /\ t.cur = s.cur /\ t.colnames = s.colnames
      /\ t.columnMap = s.columnMap /\ t.headersDone = s.headersDone /\ t.header = s.header
  BY <1>2, <1>5 DEF StackShape
<1>7. StackFiles(t)
  BY <1>5, <1>6 DEF StackFiles
<1>8. Regular(t) => Regular(s)
  BY <1>6 DEF Regular
<1>9. ASSUME Regular(s) PROVE Names(t.unique, t.colnames) /\ InputPhase(t, p)
  <2>1. Names(s.unique, s.colnames) /\ PrintPhase(s, out)
    BY <1>2, <1>4, <1>9 DEF StackGood
  <2>2. out = <<>> /\ s.cur = 1 /\ AllLinedUp(s) /\ FlagsFrom(s, 1, Len(s.files))
    BY <2>1 DEF PrintPhase
  <2>3. AllLinedUp(t) /\ FlagsFrom(t, t.cur, Len(t.files))
    BY <1>6, <2>2 DEF AllLinedUp, HeadersUpTo, AlignedUpTo, FlagsFrom
  <2>4. t.cur = 1 /\ t.cur \in 1..(Len(t.files) + 1)
    BY <1>7, <1>6, <2>2 DEF StackFiles
  <2>5. t.colnames # <<>> => Written(t.unique, t.colnames, p, FlatUp(t.files, t.cur - 1))
    <3> SUFFICES ASSUME t.colnames # <<>>
                 PROVE  Written(t.unique, t.colnames, p, FlatUp(t.files, t.cur - 1))
      OBVIOUS
    <3>1. p = Append(out, line)
      BY <1>2, <1>6
    <3>2. Written(s.unique, s.colnames,
                  Append(out, [o \in DOMAIN s.colnames |-> s.colnames[o].name]), <<>>)
      BY <2>2, HeaderIsWritten
    <3>3. FlatUp(t.files, t.cur - 1) = <<>>
      BY <2>4 DEF FlatUp
    <3> QED BY <1>3, <1>6, <3>1, <3>2, <3>3
  <2>6. Names(t.unique, t.colnames)
    BY <1>6, <2>1
  <2> QED BY <2>3, <2>4, <2>5, <2>6, Zenon DEF InputPhase
<1>10. StackGood(t, p)
  <2>1. /\ t.pc \in {"headers", "print", "input", "rows", "done"}
        /\ t.pc # "headers" /\ t.pc # "print" /\ t.pc # "rows" /\ t.pc # "done"
    BY <1>6
  <2> QED BY <1>6, <1>7, <1>8, <1>9, <2>1, Zenon DEF StackGood
<1> QED BY <1>1, <1>10 DEF StackInv

\* One file more is done with.
LEMMA InputDone ==
    ASSUME NEW s, StackFiles(s), NEW o, NEW t, t.cur = s.cur + 1, t.files = s.files,
           t.unique = s.unique, t.colnames = s.colnames, t.columnMap = s.columnMap,
           t.header = s.header, t.headersDone = s.headersDone,
           s.cur \in 1..Len(s.files), AllLinedUp(s), FlagsFrom(s, s.cur + 1, Len(s.files)),
           s.colnames # <<>> => Written(s.unique, s.colnames, o, FlatUp(s.files, s.cur))
    PROVE  InputPhase(t, o)
<1>1. t.cur \in 1..(Len(t.files) + 1) /\ t.cur - 1 = s.cur
  BY DEF StackFiles
<1>2. AllLinedUp(t) /\ FlagsFrom(t, t.cur, Len(t.files))
  BY DEF AllLinedUp, HeadersUpTo, AlignedUpTo, FlagsFrom
<1> QED BY <1>1, <1>2, Zenon DEF InputPhase

\* A file without a header is passed over, one that has it is opened again.
LEMMA RewindStep == ASSUME StackInv, StackRewind PROVE StackInv'
<1>1. PICK s, t, k, f, first :
        s = st /\ t = st' /\ k = s.cur /\ f = s.files[k] /\ first = FirstDelivered(s, f)
  OBVIOUS
<1>2. /\ s.pc = "input" /\ k <= Len(s.files) /\ out' = out
      /\ t = IF s.headersDone[k]
             THEN [s EXCEPT !.pc = "rows", !.headersDone[k] = FALSE, !.next = first]
             ELSE [s EXCEPT !.cur = @ + 1]
  BY <1>1 DEF StackRewind
<1>3. StackGood(s, out)
  BY <1>1 DEF StackInv
<1>4. StackShape(s) /\ StackFiles(s)
  BY <1>3 DEF StackGood
<1>5. PICK n \in Nat : n = Len(s.files)
  BY <1>4 DEF StackFiles
<1>6. \A j \in 1..n : IsStackFile(s.files[j])
  BY <1>4, <1>5 DEF StackFiles
<1>7. s.headersDone = [j \in 1..n |-> s.headersDone[j]]
  BY <1>4, <1>5 DEF StackFiles
<1>8. ASSUME Regular(s)
      PROVE  /\ Names(s.unique, s.colnames) /\ k \in 1..n /\ k \in Nat /\ AllLinedUp(s)
             /\ FlagsFrom(s, k, n) /\ IsStackFile(f) /\ HeaderRead(f, s.header[k])
             /\ (s.headersDone[k] <=> HasHeader(f)) /\ (s.keep => ~BlankRow(f.rows[1]))
             /\ s.colnames # <<>> => Written(s.unique, s.colnames, out, FlatUp(s.files, k - 1))
  <2>1. Names(s.unique, s.colnames) /\ InputPhase(s, out)
    BY <1>2, <1>3, <1>8 DEF StackGood
  <2>2. /\ k \in 1..(n + 1) /\ AllLinedUp(s) /\ FlagsFrom(s, k, n)
        /\ s.colnames # <<>> => Written(s.unique, s.colnames, out, FlatUp(s.files, k - 1))
    BY <1>1, <1>5, <2>1 DEF InputPhase
  <2>3. k \in 1..n /\ k \in Nat /\ k >= k /\ k <= n
    BY <1>2, <1>5, <2>2
  <2>4. IsStackFile(f)
    BY <1>1, <1>6, <2>3
  <2>5. HeaderRead(f, s.header[k])
    BY <1>1, <1>5, <2>2, <2>3 DEF AllLinedUp, HeadersUpTo
  <2>6. s.headersDone[k] <=> HasHeader(f)
    BY <1>1, <2>2, <2>3, Zenon DEF FlagsFrom
  <2>7. s.keep => ~BlankRow(f.rows[1])
    BY <1>1, <1>5, <1>8, <2>3 DEF Regular
  <2> QED BY <2>1, <2>2, <2>3, <2>4, <2>5, <2>6, <2>7
<1>9. CASE ~s.headersDone[k]
  <2>1. t = [s EXCEPT !.cur = @ + 1]
    BY <1>2, <1>9
  <2>2. /\ StackShape(t) /\ t.pc = "input" /\ t.files = s.files /\ t.unique = s.unique
        /\ t.keep = s.keep /\ t.err = s.err /\ t.cur = s.cur + 1 /\ t.colnames = s.colnames
        /\ t.columnMap = s.columnMap /\ t.headersDone = s.headersDone /\ t.header = s.header
    BY <1>2, <1>4, <2>1 DEF StackShape
  <2>3. StackFiles(t) /\ (Regular(t) => Regular(s))
    BY <1>4, <2>2 DEF StackFiles, Regular
  <2>4. ASSUME Regular(s) PROVE Names(t.unique, t.colnames) /\ InputPhase(t, out)
    <3>1. /\ Names(s.unique, s.colnames) /\ k \in 1..n /\ k \in Nat /\ AllLinedUp(s)
          /\ FlagsFrom(s, k, n) /\ IsStackFile(f) /\ (s.headersDone[k] <=> HasHeader(f))
          /\ s.colnames # <<>> => Written(s.unique, s.colnames, out, FlatUp(s.files, k - 1))
      BY <1>8, <2>4
    <3>2. FlagsFrom(s, k + 1, n)
      <4>1. \A j \in 1..n : j >= k + 1 => j >= k
        BY <1>5, <3>1
      <4> QED BY <3>1, <4>1, Zenon DEF FlagsFrom
    <3>3. Labelled(f) = <<>>
      <4>1. ~HasHeader(f)
        BY <1>9, <3>1
      <4> QED BY <3>1, <4>1, LabelledRows
    <3>4. s.colnames # <<>> => Written(s.unique, s.colnames, out, FlatUp(s.files, k))
      <4> SUFFICES ASSUME s.colnames # <<>> PROVE Written(s.unique, s.colnames, out, FlatUp(s.files, k))
        OBVIOUS
      <4>1. PICK e, before : e = <<>> /\ before = FlatUp(s.files, k - 1)
        OBVIOUS
      <4>2. Written(s.unique, s.colnames, out, before)
        BY <3>1, <4>1
      <4>3. IsSequence(before) /\ IsSequence(e)
        BY <4>1, <4>2, EmptyIsSequence DEF Written
      <4>4. before \o <<>> = before
        BY <4>3, ConcatIsSequence
      <4>5. IsSequence(Labelled(s.files[k])) /\ k > 0
        BY <1>1, <3>1, <3>3, <4>1, <4>3
      <4>6. FlatUp(s.files, k) = before \o Labelled(s.files[k])
        BY <3>1, <4>1, <4>5, FlatUpGrows
      <4>7. FlatUp(s.files, k) = before
        BY <1>1, <3>3, <4>4, <4>6
      <4> QED BY <4>2, <4>7
    <3>5. InputPhase(t, out)
      <4>1. s.cur \in 1..Len(s.files) /\ FlagsFrom(s, s.cur + 1, Len(s.files))
        BY <1>1, <1>5, <3>1, <3>2
      <4>2. s.colnames # <<>> => Written(s.unique, s.colnames, out, FlatUp(s.files, s.cur))
        BY <1>1, <3>4
      <4> QED BY <1>4, <2>2, <3>1, <4>1, <4>2, InputDone
    <3> QED BY <2>2, <3>1, <3>5
  <2>5. StackGood(t, out)
    <3>1. /\ t.pc \in {"headers", "print", "input", "rows", "done"}
          /\ t.pc # "headers" /\ t.pc # "print" /\ t.pc # "rows" /\ t.pc # "done"
      BY <2>2
    <3> QED BY <2>2, <2>3, <2>4, <3>1, Zenon DEF StackGood
  <2> QED BY <1>1, <1>2, <2>5 DEF StackInv
<1>10. CASE s.headersDone[k]
  <2>1. t = [s EXCEPT !.pc = "rows", !.headersDone[k] = FALSE, !.next = first]
    BY <1>2, <1>10
  <2>2. /\ StackShape(t) /\ t.pc = "rows" /\ t.files = s.files /\ t.unique = s.unique
        /\ t.keep = s.keep /\ t.err = s.err /\ t.cur = k /\ t.colnames = s.colnames
        /\ t.columnMap = s.columnMap /\ t.header = s.header /\ t.next = first
        /\ t.headersDone = [s.headersDone EXCEPT ![k] = FALSE]
    BY <1>1, <1>2, <1>4, <2>1 DEF StackShape
  <2>3. /\ t.headersDone = [j \in 1..n |-> t.headersDone[j]]
        /\ \A j \in 1..n : j # k => t.headersDone[j] = s.headersDone[j]
        /\ k \in 1..n => t.headersDone[k] = FALSE
    BY <1>7, <2>2
  <2>4. StackFiles(t) /\ (Regular(t) => Regular(s))
    BY <1>4, <1>5, <2>2, <2>3 DEF StackFiles, Regular
  <2>5. ASSUME Regular(s) PROVE Names(t.unique, t.colnames) /\ RowsPhase(t, out)
    <3>1. /\ Names(s.unique, s.colnames) /\ k \in 1..n /\ k \in Nat /\ AllLinedUp(s)
          /\ FlagsFrom(s, k, n) /\ IsStackFile(f) /\ HeaderRead(f, s.header[k])
          /\ HasHeader(f) /\ (s.keep => ~BlankRow(f.rows[1]))
          /\ s.colnames # <<>> => Written(s.unique, s.colnames, out, FlatUp(s.files, k - 1))
      BY <1>8, <1>10, <2>5
    <3>2. /\ Reading(f, s.header[k], FALSE, first) /\ PartOf(f.rows, first - 1) = <<>>
      BY <1>1, <3>1, ReadingBegins
    <3>3. Reading(t.files[t.cur], t.header[t.cur], t.headersDone[t.cur], t.next)
      <4>1. /\ t.files[t.cur] = f /\ t.header[t.cur] = s.header[k]
            /\ t.headersDone[t.cur] = FALSE /\ t.next = first
        BY <1>1, <2>2, <2>3, <3>1
      <4> QED BY <3>2, <4>1
    <3>4. AllLinedUp(t)
      BY <2>2, <3>1 DEF AllLinedUp, HeadersUpTo, AlignedUpTo
    <3>5. FlagsFrom(t, t.cur + 1, Len(t.files))
      <4> SUFFICES ASSUME NEW j \in 1..n, j >= k + 1 PROVE t.headersDone[j] <=> HasHeader(t.files[j])
        BY <1>5, <2>2, Zenon DEF FlagsFrom
      <4>1. j # k /\ j >= k
        BY <3>1
      <4>2. t.headersDone[j] = s.headersDone[j] /\ t.files[j] = s.files[j]
        BY <2>2, <2>3, <4>1
      <4>3. s.headersDone[j] <=> HasHeader(s.files[j])
        BY <3>1, <4>1, Zenon DEF FlagsFrom
      <4> QED BY <4>2, <4>3, Zenon
    <3>6. t.colnames # <<>> =>
            /\ IsSequence(FlatUp(t.files, t.cur - 1))
            /\ Written(t.unique, t.colnames, out,
                       FlatUp(t.files, t.cur - 1) \o PartOf(t.files[t.cur].rows, t.next - 1))
      <4> SUFFICES ASSUME s.colnames # <<>>
                   PROVE  /\ IsSequence(FlatUp(s.files, k - 1))
                          /\ Written(s.unique, s.colnames, out,
                                     FlatUp(s.files, k - 1) \o PartOf(f.rows, first - 1))
        BY <1>1, <2>2
      <4>1. PICK e, before : e = <<>> /\ before = FlatUp(s.files, k - 1)
        OBVIOUS
      <4>2. Written(s.unique, s.colnames, out, before)
        BY <3>1, <4>1
      <4>3. IsSequence(before) /\ IsSequence(e)
        BY <4>1, <4>2, EmptyIsSequence DEF Written
      <4>4. before \o <<>> = before
        BY <4>3, ConcatIsSequence
      <4> QED BY <3>2, <4>1, <4>2, <4>3, <4>4
    <3>7. t.cur \in 1..Len(t.files) /\ HasHeader(t.files[t.cur])
      BY <1>1, <1>5, <2>2, <3>1
    <3>8. RowsPhase(t, out)
      BY <3>3, <3>4, <3>5, <3>6, <3>7, Zenon DEF RowsPhase
    <3> QED BY <2>2, <3>1, <3>8
  <2>6. StackGood(t, out)
    <3>1. /\ t.pc \in {"headers", "print", "input", "rows", "done"}
          /\ t.pc # "headers" /\ t.pc # "print" /\ t.pc # "input" /\ t.pc # "done"
      BY <2>2
    <3> QED BY <2>2, <2>4, <2>5, <3>1, Zenon DEF StackGood
  <2> QED BY <1>1, <1>2, <2>6 DEF StackInv
<1> QED BY <1>9, <1>10

\* zsv_stack_data_row: the header row and blank rows write nothing.
LEMMA DataRowStep == ASSUME StackInv, StackDataRow PROVE StackInv'
<1> DEFINE row0 == st.files[st.cur].rows[st.next]
           line == [o \in DOMAIN st.colnames |-> StackCell(st, row0, o)]
<1>1. PICK s, t, p, k, n, f, row, new :
        /\ s = st /\ t = st' /\ p = out' /\ k = s.cur /\ n = s.next /\ f = s.files[k]
        /\ row = row0 /\ new = line
  OBVIOUS
<1>2. /\ s.pc = "rows" /\ n <= Len(f.rows) /\ row = f.rows[n]
      /\ t = [s EXCEPT !.next = @ + 1, !.headersDone[k] = TRUE]
      /\ p = IF ~s.headersDone[k] \/ BlankRow(row) THEN out ELSE Append(out, new)
  BY <1>1 DEF StackDataRow
<1>3. new = [o \in DOMAIN s.colnames |-> StackCell(s, row, o)]
  BY <1>1
<1> HIDE DEF row0, line
<1>4. StackGood(s, out)
  BY <1>1 DEF StackInv
<1>5. StackShape(s) /\ StackFiles(s)
  BY <1>4 DEF StackGood
<1>6. /\ StackShape(t) /\ t.pc = "rows" /\ t.files = s.files /\ t.unique = s.unique
      /\ t.keep = s.keep /\ t.err = s.err /\ t.cur = k /\ t.colnames = s.colnames
      /\ t.columnMap = s.columnMap /\ t.header = s.header /\ t.next = n + 1
      /\ t.headersDone = [s.headersDone EXCEPT ![k] = TRUE]
  BY <1>1, <1>2, <1>5 DEF StackShape
<1>7. PICK z \in Nat : z = Len(s.files)
  BY <1>5 DEF StackFiles
<1>8. /\ s.headersDone = [j \in 1..z |-> s.headersDone[j]]
      /\ \A j \in 1..z : IsStackFile(s.files[j])
  BY <1>5, <1>7 DEF StackFiles
<1>9. /\ t.headersDone = [j \in 1..z |-> t.headersDone[j]]
      /\ \A j \in 1..z : j # k => t.headersDone[j] = s.headersDone[j]
      /\ k \in 1..z => t.headersDone[k] = TRUE
  BY <1>6, <1>8
<1>10. StackFiles(t) /\ (Regular(t) => Regular(s))
  <2>1. StackFiles(t)
    <3>1. t.headersDone = [j \in 1..z |-> t.headersDone[j]]
      BY <1>9
    <3>2. /\ t.files = s.files /\ t.header = s.header /\ t.columnMap = s.columnMap
          /\ z = Len(s.files)
      BY <1>6, <1>7
    <3> QED BY <1>5, <3>1, <3>2 DEF StackFiles
  <2>2. Regular(t) => Regular(s)
    BY <1>6 DEF Regular
  <2> QED BY <2>1, <2>2
<1>11. ASSUME Regular(s) PROVE Names(t.unique, t.colnames) /\ RowsPhase(t, p)
  <2>1. Names(s.unique, s.colnames) /\ RowsPhase(s, out)
    BY <1>2, <1>4, <1>11 DEF StackGood
  <2>2. /\ k \in 1..z /\ AllLinedUp(s) /\ FlagsFrom(s, k + 1, z) /\ HasHeader(f)
        /\ Reading(f, s.header[k], s.headersDone[k], n)
        /\ s.colnames # <<>> =>
             /\ IsSequence(FlatUp(s.files, k - 1))
             /\ Written(s.unique, s.colnames, out,
                        FlatUp(s.files, k - 1) \o PartOf(f.rows, n - 1))
    BY <1>1, <1>7, <2>1, Zenon DEF RowsPhase
  <2>3. k \in Nat /\ k <= z /\ IsStackFile(f)
    BY <1>1, <1>7, <1>8, <2>2
  <2>4. PICK h, passed, before, part :
          /\ h = s.header[k] /\ passed = s.headersDone[k]
          /\ before = FlatUp(s.files, k - 1) /\ part = PartOf(f.rows, n - 1)
    OBVIOUS
  <2>5. /\ n \in Nat /\ n \in 1..Len(f.rows) /\ Reading(f, h, TRUE, n + 1) /\ IsSequence(part)
        /\ PartOf(f.rows, n) = IF ~passed \/ BlankRow(f.rows[n]) THEN part
                               ELSE Append(part, <<h, f.rows[n]>>)
    <3>1. Reading(f, h, passed, n)
      BY <2>2, <2>4
    <3>2. /\ n \in Nat /\ n \in 1..Len(f.rows) /\ Reading(f, h, TRUE, n + 1)
          /\ IsSequence(PartOf(f.rows, n - 1))
          /\ PartOf(f.rows, n) = IF ~passed \/ BlankRow(f.rows[n]) THEN PartOf(f.rows, n - 1)
                                 ELSE Append(PartOf(f.rows, n - 1), <<h, f.rows[n]>>)
      BY <1>2, <2>3, <3>1, ReadingGoesOn
    <3> QED BY <2>4, <3>2
  <2>6. HeaderRead(f, h) /\ Aligned(s.unique, s.colnames, h, s.columnMap[k])
    BY <1>1, <1>7, <2>2, <2>3, <2>4 DEF AllLinedUp, HeadersUpTo, AlignedUpTo
  <2>7. IsSequence(h) /\ IsSequence(row)
    <3>1. IsSequence(f.rows[n])
      BY <2>3, <2>5, FileHasRows
    <3> QED BY <1>2, <2>6, <3>1 DEF HeaderRead
  <2>8. Fits(s.unique, s.colnames, new, <<h, row>>)
    <3>1. ASSUME NEW o \in DOMAIN s.colnames
          PROVE  StackCell(s, row, o) = CellUnder(s.unique, <<h, row>>, s.colnames[o].key)
      <4>1. PICK m : m = s.columnMap[k]
        OBVIOUS
      <4>2. Aligned(s.unique, s.colnames, h, m)
        BY <2>6, <4>1
      <4>3. PICK ix : ix = IF o \in DOMAIN m THEN m[o] ELSE 0
        OBVIOUS
      <4>4. (IF ix \in DOMAIN row THEN row[ix] ELSE StackBlank)
              = CellUnder(s.unique, <<h, row>>, s.colnames[o].key)
        BY <2>1, <2>7, <4>2, <4>3, CellIsFound
      <4>5. StackCell(s, row, o) = IF ix \in DOMAIN row THEN row[ix] ELSE StackBlank
        BY <1>1, <4>1, <4>3, Zenon DEF StackCell
      <4> QED BY <4>4, <4>5
    <3>2. new = [o \in DOMAIN s.colnames |-> CellUnder(s.unique, <<h, row>>, s.colnames[o].key)]
      BY <1>3, <3>1
    <3>3. \A c \in DOMAIN h : \E o \in DOMAIN s.colnames : s.colnames[o].key = ColumnKey(s.unique, h, c)
      <4>1. DOMAIN s.colnames = 1..Len(s.colnames) /\ Len(s.colnames) \in Nat
        BY <2>1 DEF Names, IsSequence
      <4>2. PICK m \in 0..Len(s.colnames) :
              \A c \in DOMAIN h : \E o \in 1..m : s.colnames[o].key = ColumnKey(s.unique, h, c)
        BY <2>6, Zenon DEF Aligned
      <4>3. \A o \in 1..m : o \in DOMAIN s.colnames
        BY <4>1, <4>2
      <4> QED BY <4>2, <4>3
    <3>4. PICK pair : pair = <<h, row>>
      OBVIOUS
    <3>5. pair[1] = h
      BY <3>4
    <3>6. Fits(s.unique, s.colnames, new, pair)
      BY <3>2, <3>3, <3>4, <3>5, Zenon DEF Fits
    <3> QED BY <3>4, <3>6
  <2>9. s.colnames # <<>> => Written(s.unique, s.colnames, p, before \o PartOf(f.rows, n))
    <3> SUFFICES ASSUME s.colnames # <<>>
                 PROVE  Written(s.unique, s.colnames, p, before \o PartOf(f.rows, n))
      OBVIOUS
    <3>1. IsSequence(before) /\ Written(s.unique, s.colnames, out, before \o part)
      BY <2>2, <2>4
    <3>2. CASE ~passed \/ BlankRow(row)
      <4>1. p = out /\ PartOf(f.rows, n) = part
        BY <1>2, <2>4, <2>5, <3>2
      <4> QED BY <3>1, <4>1
    <3>3. CASE ~(~passed \/ BlankRow(row))
      <4>1. p = Append(out, new) /\ PartOf(f.rows, n) = Append(part, <<h, row>>)
        BY <1>2, <2>4, <2>5, <3>3
      <4>2. PICK pair : pair = <<h, row>>
        OBVIOUS
      <4>3. before \o Append(part, pair) = Append(before \o part, pair)
        <5>1. before \o (part \o <<pair>>) = Append(before \o part, pair)
          BY <2>5, <3>1, ConcatIsSequence
        <5>2. part \o <<pair>> = Append(part, pair)
          <6>1. PICK S : S = {part[i] : i \in DOMAIN part} \cup {pair}
            OBVIOUS
          <6>2. part \in Seq(S)
            BY <2>5, <6>1, WiderSequence
          <6>3. pair \in S
            BY <6>1
          <6> QED BY <6>2, <6>3, AppendIsConcat
        <5> QED BY <5>1, <5>2
      <4>4. Fits(s.unique, s.colnames, new, pair)
        BY <2>8, <4>2
      <4>5. Written(s.unique, s.colnames, Append(out, new), Append(before \o part, pair))
        BY <3>1, <4>4, RowIsWritten
      <4> QED BY <4>1, <4>2, <4>3, <4>5
    <3> QED BY <3>2, <3>3
  <2>10. Reading(t.files[t.cur], t.header[t.cur], t.headersDone[t.cur], t.next)
    BY <1>1, <1>6, <1>9, <2>2, <2>4, <2>5
  <2>11. AllLinedUp(t)
    BY <1>6, <2>2 DEF AllLinedUp, HeadersUpTo, AlignedUpTo
  <2>12. FlagsFrom(t, t.cur + 1, Len(t.files))
    <3> SUFFICES ASSUME NEW j \in 1..z, j >= k + 1 PROVE t.headersDone[j] <=> HasHeader(t.files[j])
      BY <1>6, <1>7, Zenon DEF FlagsFrom
    <3>1. j # k
      BY <2>3
    <3>2. t.headersDone[j] = s.headersDone[j] /\ t.files[j] = s.files[j]
      BY <1>6, <1>9, <3>1
    <3>3. s.headersDone[j] <=> HasHeader(s.files[j])
      BY <2>2, Zenon DEF FlagsFrom
    <3> QED BY <3>2, <3>3, Zenon
  <2>13. t.colnames # <<>> =>
           /\ IsSequence(FlatUp(t.files, t.cur - 1))
           /\ Written(t.unique, t.colnames, p,
                      FlatUp(t.files, t.cur - 1) \o PartOf(t.files[t.cur].rows, t.next - 1))
    <3>1. t.next - 1 = n
      BY <1>6, <2>5
    <3> QED BY <1>1, <1>6, <2>2, <2>4, <2>9, <3>1
  <2>14. t.cur \in 1..Len(t.files) /\ HasHeader(t.files[t.cur])
    BY <1>1, <1>6, <1>7, <2>2
  <2>15. RowsPhase(t, p)
    BY <2>10, <2>11, <2>12, <2>13, <2>14, Zenon DEF RowsPhase
  <2> QED BY <1>6, <2>1, <2>15
<1>12. StackGood(t, p)
  <2>1. /\ t.pc \in {"headers", "print", "input", "rows", "done"}
        /\ t.pc # "headers" /\ t.pc # "print" /\ t.pc # "input" /\ t.pc # "done"
    BY <1>6
  <2> QED BY <1>6, <1>10, <1>11, <2>1, Zenon DEF StackGood
<1> QED BY <1>1, <1>12 DEF StackInv

\* The end of a file.
LEMMA InputEndStep == ASSUME StackInv, StackInputEnd PROVE StackInv'
<1>1. PICK s, t, k, n, f : s = st /\ t = st' /\ k = s.cur /\ n = s.next /\ f = s.files[k]
  OBVIOUS
<1>2. /\ s.pc = "rows" /\ n > Len(f.rows) /\ t = [s EXCEPT !.pc = "input", !.cur = @ + 1]
      /\ out' = out
  BY <1>1 DEF StackInputEnd
<1>3. StackGood(s, out)
  BY <1>1 DEF StackInv
<1>4. StackShape(s) /\ StackFiles(s)
  BY <1>3 DEF StackGood
<1>5. /\ StackShape(t) /\ t.pc = "input" /\ t.files = s.files /\ t.unique = s.unique
      /\ t.keep = s.keep /\ t.err = s.err /\ t.cur = s.cur + 1 /\ t.colnames = s.colnames
      /\ t.columnMap = s.columnMap /\ t.headersDone = s.headersDone /\ t.header = s.header
  BY <1>2, <1>4 DEF StackShape
<1>6. StackFiles(t) /\ (Regular(t) => Regular(s))
  BY <1>4, <1>5 DEF StackFiles, Regular
<1>7. ASSUME Regular(s) PROVE Names(t.unique, t.colnames) /\ InputPhase(t, out)
  <2>1. Names(s.unique, s.colnames) /\ RowsPhase(s, out)
    BY <1>2, <1>3, <1>7 DEF StackGood
  <2>2. /\ k \in 1..Len(s.files) /\ AllLinedUp(s) /\ FlagsFrom(s, k + 1, Len(s.files)) /\ HasHeader(f)
        /\ Reading(f, s.header[k], s.headersDone[k], n)
        /\ s.colnames # <<>> =>
             Written(s.unique, s.colnames, out, FlatUp(s.files, k - 1) \o PartOf(f.rows, n - 1))
    BY <1>1, <2>1, Zenon DEF RowsPhase
  <2>3. k \in Nat /\ k > 0 /\ IsStackFile(f)
    BY <1>1, <1>4, <2>2 DEF StackFiles
  <2>4. ~(n <= Len(f.rows))
    <3>1. Len(f.rows) \in Nat
      BY <2>3, FileHasRows
    <3>2. n \in Int
      BY <2>2, <3>1 DEF Reading
    <3> QED BY <1>2, <3>1, <3>2
  <2>5. PartOf(f.rows, n - 1) = Labelled(f) /\ IsSequence(Labelled(f))
    <3>1. PICK h, passed : h = s.header[k] /\ passed = s.headersDone[k]
      OBVIOUS
    <3>2. Reading(f, h, passed, n)
      BY <2>2, <3>1
    <3> QED BY <2>2, <2>3, <2>4, <3>2, ReadingEnds
  <2>6. FlatUp(s.files, k) = FlatUp(s.files, k - 1) \o Labelled(f)
    BY <1>1, <2>3, <2>5, FlatUpGrows
  <2>7. s.colnames # <<>> => Written(s.unique, s.colnames, out, FlatUp(s.files, s.cur))
    BY <1>1, <2>2, <2>5, <2>6
  <2>8. s.cur \in 1..Len(s.files) /\ FlagsFrom(s, s.cur + 1, Len(s.files))
    BY <1>1, <2>2
  <2>9. InputPhase(t, out)
    BY <1>4, <1>5, <2>2, <2>7, <2>8, InputDone
  <2> QED BY <1>5, <2>1, <2>9
<1>8. StackGood(t, out)
  <2>1. /\ t.pc \in {"headers", "print", "input", "rows", "done"}
        /\ t.pc # "headers" /\ t.pc # "print" /\ t.pc # "rows" /\ t.pc # "done"
    BY <1>5
  <2> QED BY <1>5, <1>6, <1>7, <2>1, Zenon DEF StackGood
<1> QED BY <1>1, <1>2, <1>8 DEF StackInv

\* The end of the command.
LEMMA CleanupStep == ASSUME StackInv, StackCleanup PROVE StackInv'
<1>1. PICK s, t : s = st /\ t = st'
  OBVIOUS
<1>2. /\ (s.pc = "headers" /\ s.err) \/ (s.pc = "input" /\ s.cur > Len(s.files))
      /\ t = [s EXCEPT !.pc = "done"] /\ out' = out
  BY <1>1 DEF StackCleanup
<1>3. StackGood(s, out)
  BY <1>1 DEF StackInv
<1>4. StackShape(s) /\ StackFiles(s)
  BY <1>3 DEF StackGood
<1>5. /\ StackShape(t) /\ t.pc = "done" /\ t.files = s.files /\ t.unique = s.unique
      /\ t.keep = s.keep /\ t.err = s.err /\ t.cur = s.cur /\ t.colnames = s.colnames
      /\ t.columnMap = s.columnMap /\ t.headersDone = s.headersDone /\ t.header = s.header
  BY <1>2, <1>4 DEF StackShape
<1>6. StackFiles(t) /\ (Regular(t) => Regular(s))
  BY <1>4, <1>5 DEF StackFiles, Regular
<1>7. ASSUME Regular(s) PROVE Names(t.unique, t.colnames) /\ EndPhase(t, out)
  <2>1. s.pc = "input" /\ s.cur > Len(s.files)
    BY <1>2, <1>7 DEF Regular
  <2>2. Names(s.unique, s.colnames) /\ InputPhase(s, out)
    BY <1>3, <1>7, <2>1 DEF StackGood
  <2>3. s.cur - 1 = Len(s.files)
    BY <1>4, <2>1, <2>2 DEF InputPhase, StackFiles
  <2>4. EndPhase(t, out)
    BY <1>5, <2>2, <2>3 DEF InputPhase, EndPhase
  <2> QED BY <1>5, <2>2, <2>4
<1>8. StackGood(t, out)
  <2>1. /\ t.pc \in {"headers", "print", "input", "rows", "done"}
        /\ t.pc # "headers" /\ t.pc # "print" /\ t.pc # "rows" /\ t.pc # "input"
    BY <1>5
  <2> QED BY <1>5, <1>6, <1>7, <2>1, Zenon DEF StackGood
<1> QED BY <1>1, <1>2, <1>8 DEF StackInv

\* What the output says for its names.
LEMMA OutputSaysSo ==
    ASSUME NEW unique, NEW names, Names(unique, names), NEW table, NEW pairs,
           Written(unique, names, table, pairs)
    PROVE  /\ Len(table) = Len(pairs) + 1
           /\ \A k \in DOMAIN pairs : \A o \in DOMAIN table[1] :
                table[k + 1][o] = CellUnder(unique, pairs[k], ColumnKey(unique, table[1], o))
           /\ \A k \in DOMAIN pairs : \A c \in DOMAIN pairs[k][1] :
                \E o \in DOMAIN table[1] :
                  ColumnKey(unique, table[1], o) = ColumnKey(unique, pairs[k][1], c)
<1>1. PICK h : h = table[1]
  OBVIOUS
<1>2. /\ Len(table) = Len(pairs) + 1 /\ DOMAIN pairs = 1..Len(pairs)
      /\ h = [o \in DOMAIN names |-> names[o].name]
      /\ \A k \in 1..Len(pairs) : Fits(unique, names, table[k + 1], pairs[k])
  BY <1>1 DEF Written, IsSequence
<1>3. DOMAIN h = DOMAIN names /\ \A o \in DOMAIN names : h[o] = names[o].name
  BY <1>2
<1>4. \A o \in DOMAIN names : ColumnKey(unique, h, o) = names[o].key
  BY <1>3, NamesKeepTheirKeys
<1>5. ASSUME NEW k \in DOMAIN pairs, NEW o \in DOMAIN h
      PROVE  table[k + 1][o] = CellUnder(unique, pairs[k], ColumnKey(unique, h, o))
  <2>1. PICK row, pair : row = table[k + 1] /\ pair = pairs[k]
    OBVIOUS
  <2>2. row = [x \in DOMAIN names |-> CellUnder(unique, pair, names[x].key)]
    BY <1>2, <2>1 DEF Fits
  <2>3. row[o] = CellUnder(unique, pair, names[o].key)
    BY <1>3, <2>2
  <2> QED BY <1>3, <1>4, <2>1, <2>3
<1>6. ASSUME NEW k \in DOMAIN pairs, NEW c \in DOMAIN pairs[k][1]
      PROVE  \E o \in DOMAIN h : ColumnKey(unique, h, o) = ColumnKey(unique, pairs[k][1], c)
  <2>1. PICK o \in DOMAIN names : names[o].key = ColumnKey(unique, pairs[k][1], c)
    BY <1>2 DEF Fits
  <2> QED BY <1>3, <1>4, <2>1
<1> QED BY <1>1, <1>2, <1>5, <1>6

\* And in the words of the property.
LEMMA StackIsRight == ASSUME StackInv PROVE StackedRowsKeepTheirNames
<1>1. StackGood(st, out)
  BY DEF StackInv
<1>2. StackFiles(st)
  BY <1>1 DEF StackGood
<1> DEFINE all == FlattenSeq([k \in DOMAIN st.files |-> Labelled(st.files[k])])
           Says == /\ Len(out) = Len(all) + 1
                   /\ \A k \in DOMAIN all : \A o \in DOMAIN out[1] :
                        out[k + 1][o] = CellUnder(st.unique, all[k], ColumnKey(st.unique, out[1], o))
                   /\ \A k \in DOMAIN all : \A c \in DOMAIN all[k][1] :
                        \E o \in DOMAIN out[1] :
                          ColumnKey(st.unique, out[1], o) = ColumnKey(st.unique, all[k][1], c)
<1>3. ASSUME st.pc = "done", ~st.err, ~(st.keep /\ \E f \in Range(st.files) : BlankRow(f.rows[1])),
             st.colnames # <<>>
      PROVE  Says
  <2>1. Regular(st)
    <3>1. \A k \in 1..Len(st.files) : st.files[k] \in Range(st.files)
      BY <1>2 DEF StackFiles, Range
    <3> QED BY <1>3, <3>1 DEF Regular
  <2>2. Names(st.unique, st.colnames) /\ EndPhase(st, out)
    BY <1>1, <1>3, <2>1 DEF StackGood
  <2>3. FlatUp(st.files, Len(st.files)) = all
    <3>1. Len(st.files) # 0 /\ DOMAIN st.files = 1..Len(st.files)
      BY <1>2 DEF StackFiles
    <3> QED BY <3>1 DEF FlatUp
  <2> HIDE DEF all
  <2>4. Written(st.unique, st.colnames, out, all)
    BY <1>3, <2>2, <2>3 DEF EndPhase
  <2> QED BY <2>2, <2>4, OutputSaysSo
<1>4. (st.pc = "done" /\ ~st.err /\ ~(st.keep /\ \E f \in Range(st.files) : BlankRow(f.rows[1])))
        => (st.colnames # <<>> => Says)
  BY <1>3
<1> QED BY <1>4, Zenon DEF StackedRowsKeepTheirNames, CellUnder, At

\* For all files and options: every value that stack writes stands under the
\* name, and the occurrence of the name, that it had in its own file; every row
\* of data of every file that has a header is there, in order, and nothing
\* else; no column is lost.
THEOREM RowsKeepTheirNames == StackSpec => []StackedRowsKeepTheirNames
<1>1. StackInit => StackInv
  BY StackStarts
<1>2. StackInv /\ [StackNext \/ Finished]_procVars => StackInv'
  <2> SUFFICES ASSUME StackInv, [StackNext \/ Finished]_procVars PROVE StackInv'
    OBVIOUS
  <2>1. CASE StackReadHeader
    BY <2>1, ReadHeaderStep
  <2>2. CASE StackAlign
    BY <2>2, AlignStep
  <2>3. CASE StackPrintHeaders
    BY <2>3, PrintStep
  <2>4. CASE StackRewind
    BY <2>4, RewindStep
  <2>5. CASE StackDataRow
    BY <2>5, DataRowStep
  <2>6. CASE StackInputEnd
    BY <2>6, InputEndStep
  <2>7. CASE StackCleanup
    BY <2>7, CleanupStep
  <2>8. CASE UNCHANGED procVars
    <3>1. st' = st /\ out' = out
      BY <2>8 DEF procVars
    <3> QED BY <3>1 DEF StackInv
  <2> QED BY <2>1, <2>2, <2>3, <2>4, <2>5, <2>6, <2>7, <2>8 DEF StackNext, Finished
<1>3. StackInv => StackedRowsKeepTheirNames
  BY StackIsRight
<1> QED BY <1>1, <1>2, <1>3, PTL DEF StackSpec

=============================================================================
