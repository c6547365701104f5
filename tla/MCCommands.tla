----------------------------- MODULE MCCommands -----------------------------
(***************************************************************************)
(* The commands of the executable on small inputs, one process per         *)
(* behaviour: Init chooses the command.                                    *)
(***************************************************************************)
EXTENDS ParserControl, Stack, Compare, ToDb, FileCache, Overwrites, Select,
        FixedWidth, FastScanner, SheetScreen

-----------------------------------------------------------------------------
(* ParserControl: up to three rows, blank ones among them. *)

PcRows == {<<Blank>>, <<<<1>>>>, <<Blank, <<2>>>>, <<<<1>>, Blank>>}
PcMCTables == SeqUpTo(PcRows, 3)
PcMCOverwrites ==
    {<<>>, <<[row |-> 0, col |-> 0, val |-> <<9>>]>>,
     <<[row |-> 1, col |-> 0, val |-> <<9>>], [row |-> 1, col |-> 1, val |-> <<8>>]>>}
PcMCOptions ==
    [ignore : {0, 1}, keep : BOOLEAN, span : {1, 2}, fixed : BOOLEAN, max : {0, 2},
     interval : {0, 2}]

-----------------------------------------------------------------------------
(* Stack: two files, the same names in another order, case and number. *)

LowerLetter(x) == IF x = "A" THEN "a" ELSE x
StackHeaders == {<<"a">>, <<"A", "b">>, <<"b", "a">>, <<"a", "A">>}
StackRows == {<<"">>, <<"1">>, <<"1", "2">>}
StackFiles ==
    [rows : {<<h>> \o r : h \in StackHeaders, r \in SeqUpTo(StackRows, 2)}
              \cup {<<<<"">>, h>> \o r : h \in StackHeaders, r \in SeqUpTo(StackRows, 1)},
     ended : BOOLEAN]
StackMCInputs ==
    {<<f, g>> : f \in {x \in StackFiles : x.ended \/ Len(x.rows) < 3},
                g \in {x \in StackFiles : Len(x.rows) < 3}}

-----------------------------------------------------------------------------
(* Compare: the codes of a, b, B and three digits; two and three inputs. *)

CmpKV == [header : {<<"k", "v">>}, rows : SeqUpTo({<<97, 49>>, <<98, 50>>, <<66, 52>>, <<97, 50>>}, 2)]
CmpOther == [header : {<<"v", "k">>, <<"k", "w">>, <<"k">>},
             rows : {<<>>, <<<<49, 97>>>>, <<<<97, 50>>, <<98, 50>>>>}]
CmpSingle == {f \in CmpKV : Len(f.rows) = 1}
CmpMCInputs ==
    {<<f, g>> : f \in CmpKV, g \in CmpKV \cup CmpOther}
      \cup {<<f, g, h>> : f \in CmpSingle, g \in CmpOther, h \in CmpSingle}
      \cup {<<f>> : f \in CmpOther}
      \cup {<<[header |-> <<>>, rows |-> <<>>]>>}
CmpMCOptions ==
    {[keys |-> k, sort |-> s, tol |-> t, requireAll |-> r, redline |-> d, tolerated |-> d, add |-> a] :
        k \in {<<>>, <<"k">>}, s \in BOOLEAN, t \in {0, 2}, r \in BOOLEAN, d \in BOOLEAN,
        a \in {"", "v"}}

-----------------------------------------------------------------------------
(* ToDb: names that clash, blank rows, indexes that are refused; the second *)
(* of the two runs finds what the first, killed anywhere, has left.         *)

DbNames == {<<>>, <<"a">>, <<"A">>, <<"a", 2>>}
DbRow1 == <<<<"x">>, <<"y">>>>
DbRow2 == <<<<"x">>>>
DbIndexes ==
    {<<>>, <<[on |-> <<"a">>, unique |-> TRUE]>>,
     <<[on |-> <<"a">>, unique |-> FALSE], [on |-> <<"q">>, unique |-> FALSE]>>}
DbMCInputs ==
    {[json |-> FALSE, bad |-> FALSE, data |-> TRUE, header |-> h, rows |-> r, indexes |-> <<>>] :
        h \in SeqUpTo(DbNames, 3) \ {<<>>}, r \in {<<>>, <<DbRow1, <<Blank>>, DbRow2, <<<<"z">>>>>>}}
    \cup
    {[json |-> TRUE, bad |-> b, data |-> d, header |-> h, rows |-> IF d THEN r ELSE <<>>,
      indexes |-> i] :
        b \in BOOLEAN, d \in BOOLEAN, i \in DbIndexes, r \in SeqUpTo({DbRow1, <<Blank>>, DbRow2}, 3),
        h \in {<<>>, <<<<"a">>>>, <<<<"a">>, <<"A">>>>, <<<<"a">>, <<"b">>>>}}
DbMCFold(n) == IF n[1] = "A" THEN [n EXCEPT ![1] = "a"] ELSE n

-----------------------------------------------------------------------------
(* FileCache: two files, two commands one after the other. *)

CacheRow(u, n, l) == [used |-> u, null |-> n, like |-> l]
CacheMCRows == {<<CacheRow(2, 2, 0), CacheRow(2, 0, 0), CacheRow(3, 0, 1), CacheRow(2, 0, 1)>>}
CacheMCRoots == {{}, {"a", "b"}}

-----------------------------------------------------------------------------
(* Overwrites: three cells, bulk files of two and three rows, an alphabet of *)
(* two letters.                                                             *)

OvwMCCells == {<<0, 0>>, <<1, 6>>, <<1, 2>>}
OvwMCValues == {<<"x">>, <<"y">>}
OvwLine(a, v) == [at |-> a, value |-> <<v>>, old |-> Blank]
OvwLines == {OvwLine(<<>>, "x"), OvwLine(<<0, 0>>, "x"), OvwLine(<<1, 6>>, "x"), OvwLine(<<1, 2>>, "y")}
OvwMCBulk == [1..2 -> OvwLines] \cup [1..3 -> OvwLines]

-----------------------------------------------------------------------------
(* Select: the option groups, each against tables of three rows. *)

SelMCLower(n) == [i \in DOMAIN n |-> LowerLetter(n[i])]
Plain(t) == [t |-> t, q |-> FALSE]
Quoted(t) == [t |-> t, q |-> TRUE]
SelBase ==
    [pull |-> FALSE, file |-> FALSE, badArg |-> FALSE, badInput |-> FALSE, badOutput |-> FALSE,
     byIndex |-> FALSE, exclude |-> <<>>, columns |-> <<>>, distinct |-> "none", renames |-> <<>>,
     noTrim |-> FALSE, white |-> FALSE, noNewline |-> FALSE, lineEnd |-> "none", unescape |-> FALSE,
     noHeader |-> FALSE, prepend |-> <<>>, lineNumber |-> FALSE, skip |-> 0, every |-> 0,
     pct |-> FALSE, search |-> {}, head |-> -1, interrupts |-> FALSE]
SelIx(k, l, h) == [kind |-> k, lo |-> l, hi |-> h]
SelH1 == <<Plain(<<"a">>), Plain(<<"A">>), Plain(<<" ", "b">>)>>
SelH2 == <<Plain(<<"b">>), Plain(<<>>), Plain(<<"a">>)>>
SelR1 == <<Plain(<<"x">>), Plain(<<>>), Quoted(<<" ", "\n", "y">>)>>
SelR2 == <<Plain(<<" ", "x">>), Quoted(<<"y">>), Plain(<<"\\n">>), Plain(<<"z">>)>>
SelR3 == <<Plain(<<>>), Plain(<<"x", " ">>)>>
SelTables == {<<h, SelR1, SelR2, SelR3>> : h \in {SelH1, SelH2}}
SelIndexes == {<<>>, <<SelIx("single", 2, 0)>>, <<SelIx("range", 1, 3)>>,
               <<SelIx("lower", 2, 0), SelIx("single", 1, 0)>>, <<SelIx("single", 4, 0)>>,
               <<SelIx("none", 0, 0)>>}
SelNames == {<<>>, <<<<"a">>>>, <<<<"b">>, <<"A">>>>, <<<<"b">>, <<"a">>, <<"a">>>>, <<<<>>>>}
SelDistinct == {"none", "distinct", "merge"}
SelColumnOptions ==
    {[SelBase EXCEPT !.byIndex = TRUE, !.columns = c, !.exclude = x, !.distinct = d, !.pull = p] :
        c \in SelIndexes, d \in SelDistinct, p \in BOOLEAN,
        x \in {<<>>, <<SelIx("single", 2, 0)>>, <<SelIx("range", 1, 2)>>, <<SelIx("none", 0, 0)>>}}
    \cup {[SelBase EXCEPT !.columns = c, !.exclude = x, !.distinct = d, !.pull = p] :
        c \in SelNames, x \in {<<>>, <<<<"a">>>>}, d \in SelDistinct, p \in BOOLEAN}
SelCleanOptions ==
    {[SelBase EXCEPT !.noTrim = t, !.white = w, !.noNewline = n, !.lineEnd = e, !.unescape = u,
                     !.search = s, !.pull = p] :
        t \in BOOLEAN, w \in BOOLEAN, n \in BOOLEAN, e \in {"none", "|"}, u \in BOOLEAN,
        s \in {{}, {"x"}}, p \in BOOLEAN}
SelRowOptions ==
    {[SelBase EXCEPT !.skip = k, !.every = e, !.pct = pc, !.search = s, !.head = h,
                     !.lineNumber = l, !.interrupts = i, !.pull = p] :
        k \in {0, 1}, e \in {0, 2}, pc \in BOOLEAN, s \in {{}, {"y"}}, h \in {-1, 0, 1, 2},
        l \in BOOLEAN, i \in BOOLEAN, p \in BOOLEAN}
SelHeaderOptions ==
    {[SelBase EXCEPT !.renames = r, !.file = f, !.badOutput = b, !.badArg = a, !.pull = p,
                     !.noHeader = n, !.prepend = pr, !.columns = c] :
        r \in {<<>>, <<[index |-> 1, name |-> <<>>, new |-> <<"n">>]>>,
               <<[index |-> 0, name |-> <<"A">>, new |-> <<"n">>],
                 [index |-> 2, name |-> <<>>, new |-> <<"m">>]>>,
               <<[index |-> 4, name |-> <<>>, new |-> <<"n">>]>>},
        f \in BOOLEAN, b \in BOOLEAN, a \in BOOLEAN, p \in BOOLEAN, n \in BOOLEAN,
        pr \in {<<>>, <<"p">>}, c \in {<<>>, <<<<"z">>>>, <<<<"a">>>>}}
SelOverwrites ==
    {<<[row |-> 1, col |-> 0, val |-> Plain(<<"v">>)], [row |-> 1, col |-> 1, val |-> Plain(<<"w">>)]>>}
SelMCRuns ==
    [opts : SelColumnOptions \cup SelCleanOptions, table : SelTables, over : {<<>>}]
    \cup [opts : SelRowOptions, table : {<<SelH1>> \o r : r \in SeqUpTo({SelR1, SelR2}, 3)}, over : {<<>>}]
    \cup [opts : SelHeaderOptions, table : {<<>>, <<SelH1, SelR1>>}, over : {<<>>}]
    \cup [opts : {[SelBase EXCEPT !.interrupts = TRUE, !.file = TRUE, !.columns = c] :
                     c \in {<<>>, <<<<"z">>>>}}, table : {<<>>, <<SelH1, SelR1>>}, over : {<<>>}]
    \cup [opts : {[SelBase EXCEPT !.columns = c] : c \in SelNames}, table : SelTables,
          over : SelOverwrites]

-----------------------------------------------------------------------------
(* FixedWidth and FastScanner: every input of a few bytes. *)

FxMCInputs == UNION {[1..n -> {"x", " ", "\n", "\r"}] : n \in 0..6}
    \cup {<<"x", " ", "x", "\n">> \o t : t \in [1..3 -> {"x", " ", "\n"}]}
FxMCGiven == {<<>>, <<1, 3>>, <<2, 1>>}

FastMCDocs == UNION {[1..n -> {Delim, Quote, LF, CR, "a"}] : n \in 0..5}
                \cup [1..6 -> {Quote, LF, CR, "a"}]

-----------------------------------------------------------------------------
(* SheetScreen: a table of 13 rows that a buffer of 8 has to scroll, opened *)
(* at the start or from the prompt; short and empty tables.                 *)

ScrWord(x) == IF x = "" THEN <<>> ELSE <<x>>
ScrRow(x, y, z) == <<ScrWord(x), ScrWord(y), ScrWord(z)>>
ScrTable ==
    <<ScrRow("a", "b", "A"), ScrRow("x", "y", "x"), ScrRow("z", "x", "z"), ScrRow("y", "", "y"),
      ScrRow("x", "z", "z"), ScrRow("", "y", "z"), ScrRow("z", "z", "x"), ScrRow("y", "x", "y"),
      ScrRow("z", "y", "z"), ScrRow("x", "x", "z"), ScrRow("y", "", "q"), ScrRow("z", "z", "a"),
      ScrRow("x", "y", "y")>>
ScrMCFiles ==
    <<"long">> :> [table |-> ScrTable, errs |-> 1]
      @@ <<"short">> :> [table |-> SubSeq(ScrTable, 1, 3), errs |-> 0]
      @@ <<"empty">> :> [table |-> <<>>, errs |-> 0]
ScrMCStarts == [name : {<<"long">>, <<"empty">>, <<>>}, h : {6}, w : {24}]
ScrMCSizes == {[h |-> 6, w |-> 36], [h |-> 5, w |-> 24]}
ScrMCTexts ==
    "find" :> {<<>>, <<"x">>} @@ "gotocolumn" :> {<<"a">>} @@ "filter" :> {<<"x">>}
      @@ "open" :> {<<>>, <<"short">>, <<"empty">>, <<"x">>} @@ "filtercol" :> {<<>>, <<"x">>}
      @@ "subcommand" :> {<<"b", "z">>} @@ "pivotexpr" :> {<<>>, <<"b">>}
ScrMCLines ==
    {<<>>, <<"errors">>, <<" ", "compare">>, <<"where">>, <<"filter", " ", "\"", "x", "\"">>, <<"pivot">>,
     <<"\"", "open", "\"", " ", "long">>, <<"zzz">>, <<"\"", "down">>, <<"errors-clear">>}
ScrNamed(n) == [NoSide EXCEPT !.name = <<n>>]
ScrMCSpecs ==
    {[left |-> ScrNamed("a"), right |-> ScrNamed("b"), second |-> NoSide],
     [left |-> ScrNamed("a"), right |-> NoSide, second |-> NoSide],
     [left |-> [NoSide EXCEPT !.lo = 2, !.hi = 2], right |-> NoSide,
      second |-> [NoSide EXCEPT !.lo = 3, !.hi = 4, !.range = TRUE]],
     [left |-> ScrNamed("q"), right |-> ScrNamed("a"), second |-> NoSide]}
ScrMCKeys == ({Bindings[i][1] : i \in DOMAIN Bindings} \cup {"5", "9", "z"}) \ {""}

-----------------------------------------------------------------------------

Init ==
    \/ ParserInit \/ StackInit \/ CompareInit \/ ToDbInit \/ CacheInit
    \/ OverwriteInit \/ SelectInit \/ FixedInit \/ FastInit \/ SheetInit

Next ==
    \/ ParserNext \/ StackNext \/ CompareNext \/ ToDbNext \/ CacheNext
    \/ OverwriteNext \/ SelectNext \/ FixedNext \/ FastNext \/ SheetNext
    \/ Finished

Spec == Init /\ [][Next]_procVars
=============================================================================
