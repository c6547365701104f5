------------------------ MODULE ParserControlProofs ------------------------
(***************************************************************************)
(* For any tables, any overwrites in order and any options of the parser:  *)
(* no row follows an abort, the rows the caller sees are numbered from 0,  *)
(* and they are the rows of the table.  For any fixed-width input, however *)
(* it is read: its rows are its lines.                                     *)
(***************************************************************************)
EXTENDS ParserControl, FixedWidth, CommonLemmas, FiniteSetTheorems

\* The fields of a scanner; what the table and the overwrites hold does not
\* matter to the proofs.
HasFields(s) ==
       s = [pc |-> s.pc, opts |-> s.opts, table |-> s.table, next |-> s.next,
            ignore |-> s.ignore, keep |-> s.keep, span |-> s.span, fixed |-> s.fixed,
            handler |-> s.handler, collate |-> s.collate, have |-> s.have, over |-> s.over,
            orig |-> s.orig, overwrites |-> s.overwrites, dataRow |-> s.dataRow,
            cum |-> s.cum, abort |-> s.abort, asked |-> s.asked, stat |-> s.stat]
IsScanner(s) ==
    /\ HasFields(s)
    /\ s.opts \in [ignore : Nat, keep : BOOLEAN, span : Nat, fixed : BOOLEAN, max : Nat, interval : Nat]
    /\ s.ignore \in Int /\ s.span \in Int /\ s.keep \in BOOLEAN /\ s.fixed = s.opts.fixed
    /\ s.abort \in BOOLEAN /\ s.dataRow \in Nat /\ s.cum \in Nat /\ s.asked \in Nat

\* Where the handlers of the header stand: each has what it needs.
HandlerInv(s) ==
    /\ s.handler \in {"ignore_header_rows", "skip_to_first_row_w_data", "collate_header_row", "caller"}
    /\ s.handler = "ignore_header_rows" =>
         s.ignore > 0 /\ s.opts.ignore > 0 /\ s.span = s.opts.span /\ s.keep = s.opts.keep
    /\ s.handler # "ignore_header_rows" => s.ignore <= 0
    /\ s.handler = "collate_header_row" => s.fixed \/ s.keep

\* What a row handler did: it kept the row for itself, or the caller has seen
\* one more row.
Kept(s, h) ==
    /\ h.out = out
    /\ h.s.abort = s.abort /\ h.s.asked = s.asked
    /\ s.handler # "caller"
    /\ h.s.handler = "caller" => s.fixed \/ (s.opts.keep /\ s.opts.ignore > 0 /\ s.opts.span < 2)
Called(s, h, aborts) ==
    /\ \E c : h.out = Append(out, [row |-> h.s.dataRow, cells |-> c])
    /\ h.s.abort = (s.abort \/ aborts)
    /\ h.s.asked = IF aborts /\ s.asked = 0 THEN Len(out) + 1 ELSE s.asked
    /\ s.handler # "ignore_header_rows" /\ h.s.handler = "caller"
    /\ h.s.dataRow = IF s.handler = "caller" THEN s.dataRow ELSE 0
Handled(s, h, aborts) ==
    /\ IsScanner(h.s) /\ HandlerInv(h.s)
    /\ h.s.opts = s.opts /\ h.s.cum = s.cum /\ h.s.stat = s.stat /\ h.s.pc = s.pc
    /\ h.s.next = s.next /\ h.s.table = s.table
    /\ Kept(s, h) \/ Called(s, h, aborts)

\* set_callbacks: the handler that the counters ask for.
LEMMA SetCallbacksHandler ==
    ASSUME NEW s, IsScanner(s)
    PROVE  /\ IsScanner(SetCallbacks(s))
           /\ SetCallbacks(s).handler =
                IF s.ignore > 0 THEN "ignore_header_rows"
                ELSE IF ~s.fixed /\ ~s.keep THEN "skip_to_first_row_w_data"
                ELSE IF s.span > 1 THEN "collate_header_row" ELSE "caller"
           /\ \A f \in {"pc", "opts", "table", "next", "ignore", "keep", "span", "fixed", "collate",
                        "have", "over", "orig", "cum", "abort", "asked", "stat"} :
                SetCallbacks(s)[f] = s[f]
           /\ SetCallbacks(s).handler = "caller" => SetCallbacks(s).dataRow = 0
           /\ SetCallbacks(s).handler # "caller" => SetCallbacks(s).dataRow = s.dataRow
BY DEF IsScanner, HasFields, SetCallbacks

\* The caller's handler: one more row has been seen.
LEMMA CallerCalled ==
    ASSUME NEW s, IsScanner(s), HandlerInv(s), s.handler = "caller", NEW cells, NEW aborts \in BOOLEAN,
           IsSequence(out)
    PROVE  LET h == CallCaller(s, cells, aborts)
           IN  Handled(s, h, aborts) /\ Called(s, h, aborts)
<1> DEFINE over == IF s.overwrites /\ cells # <<>> THEN Ahead(s.over, s.dataRow, Len(cells) - 1) ELSE s.over
           have == s.have /\ over # <<>>
           overwrites == s.overwrites /\ over # <<>>
           abort == s.abort \/ aborts
           asked == IF aborts /\ s.asked = 0 THEN Len(out) + 1 ELSE s.asked
           s1 == Caller(s, cells, aborts)
<1>1. s1 = [s EXCEPT !.over = over, !.have = have, !.overwrites = overwrites, !.abort = abort, !.asked = asked]
  BY DEF Caller
<1>2. abort \in BOOLEAN /\ asked \in Nat
  BY AppendIsSequence DEF IsScanner
<1> HIDE DEF over, have, overwrites, abort, asked, s1
<1>3. /\ IsScanner(s1) /\ s1.abort = abort /\ s1.asked = asked
      /\ \A f \in {"pc", "opts", "table", "next", "ignore", "keep", "span", "fixed", "collate",
                   "orig", "cum", "stat", "dataRow", "handler"} : s1[f] = s[f]
  BY <1>1, <1>2 DEF IsScanner, HasFields
<1>4. HandlerInv(s1)
  BY <1>3 DEF HandlerInv
<1>5. \E c : CallerSaw(s, cells) = Append(out, [row |-> s1.dataRow, cells |-> c])
  BY <1>3 DEF CallerSaw
<1> QED
  BY <1>3, <1>4, <1>5 DEF CallCaller, Handled, Called, abort, asked, s1

\* collate_header_row: the row is added to the header, or the header is
\* complete and the caller sees it as row 0.
LEMMA CollateHandled ==
    ASSUME NEW s, IsScanner(s), HandlerInv(s), s.handler = "collate_header_row", NEW cells,
           NEW aborts \in BOOLEAN, IsSequence(out)
    PROVE  Handled(s, CollateHeaderRow(s, cells, aborts), aborts)
<1> DEFINE collate == Collate(s.collate, cells)
           s1 == [s EXCEPT !.span = @ - 1, !.collate = collate]
           s2 == [SetCallbacks(s1) EXCEPT !.collate = <<>>]
           header == collate[1]
<1> HIDE DEF collate
<1>b. HasFields(s)
  BY DEF IsScanner
<1>a. HasFields(s1) /\ s1.span = s.span - 1
  <2> DEFINE t == [s EXCEPT !.span = @ - 1]
  <2>1. HasFields(t) /\ t.span = s.span - 1
    BY <1>b DEF HasFields
  <2>2. s1 = [t EXCEPT !.collate = collate]
    OBVIOUS
  <2> HIDE DEF t, s1
  <2> QED
    BY <2>1, <2>2 DEF HasFields
<1>c. \A f \in {"pc", "opts", "table", "next", "ignore", "keep", "fixed", "handler",
                   "orig", "cum", "stat", "dataRow", "abort", "asked"} : s1[f] = s[f]
  BY <1>b DEF HasFields
<1>0. IsScanner(s1) /\ s1.span = s.span - 1
  BY <1>a, <1>c DEF IsScanner
<1>1. /\ IsScanner(s1) /\ s1.span = s.span - 1
      /\ \A f \in {"pc", "opts", "table", "next", "ignore", "keep", "fixed", "handler",
                   "orig", "cum", "stat", "dataRow", "abort", "asked"} : s1[f] = s[f]
  BY <1>0 DEF IsScanner
<1>2. CollateHeaderRow(s, cells, aborts) =
        IF s1.span > 0 THEN [s |-> s1, out |-> out] ELSE CallCaller(s2, s1.collate[1], aborts)
  BY DEF CollateHeaderRow, collate
<1> HIDE DEF s1
<1>3. CASE s1.span > 0
  <2>1. HandlerInv(s1)
    BY <1>1 DEF HandlerInv
  <2> QED
    BY <1>1, <1>2, <1>3, <2>1 DEF Handled, Kept
<1>4. CASE ~(s1.span > 0)
  <2>1. SetCallbacks(s1).handler = "caller"
    BY <1>1, <1>4, SetCallbacksHandler DEF HandlerInv, IsScanner
  <2>2. /\ IsScanner(s2) /\ s2.handler = "caller" /\ s2.dataRow = 0
        /\ \A f \in {"pc", "opts", "table", "next", "ignore", "keep", "fixed",
                   "orig", "cum", "stat", "abort", "asked"} : s2[f] = s[f]
    <3> DEFINE t == SetCallbacks(s1)
    <3>1. /\ IsScanner(t) /\ t.handler = "caller" /\ t.dataRow = 0
          /\ \A f \in {"pc", "opts", "table", "next", "ignore", "keep", "fixed",
                   "orig", "cum", "stat", "abort", "asked"} : t[f] = s[f]
      BY <1>1, <2>1, SetCallbacksHandler
    <3> HIDE DEF t
    <3>2. s2 = [t EXCEPT !.collate = <<>>]
      BY DEF t
    <3> HIDE DEF s2
    <3>3. HasFields(t)
      BY <3>1 DEF IsScanner
    <3>4. /\ HasFields(s2)
          /\ \A f \in {"pc", "opts", "table", "next", "ignore", "keep", "fixed", "handler", "span",
                   "orig", "cum", "stat", "abort", "asked", "dataRow"} : s2[f] = t[f]
      BY <3>2, <3>3 DEF HasFields
    <3> QED
      BY <3>1, <3>4 DEF IsScanner
  <2> HIDE DEF s2
  <2>3. HandlerInv(s2)
    BY <2>2 DEF HandlerInv
  <2>4. /\ Handled(s2, CallCaller(s2, s1.collate[1], aborts), aborts)
        /\ Called(s2, CallCaller(s2, s1.collate[1], aborts), aborts)
    BY <2>2, <2>3, CallerCalled
  <2> QED
    BY <1>2, <1>4, <2>2, <2>4 DEF Handled, Called
<1> QED
  BY <1>3, <1>4

\* skip_to_first_row_w_data: a blank row is passed over, the first row with
\* data goes to the next handler.
LEMMA SkipHandled ==
    ASSUME NEW s, IsScanner(s), HandlerInv(s), s.handler = "skip_to_first_row_w_data", NEW cells,
           NEW aborts \in BOOLEAN, IsSequence(out)
    PROVE  Handled(s, SkipToFirstRowWithData(s, cells, aborts), aborts)
<1> DEFINE k == [s EXCEPT !.keep = TRUE]
           s1 == SetCallbacks(k)
<1>b. HasFields(s)
  BY DEF IsScanner
<1>a. HasFields(k) /\ k.keep = TRUE
  <2>1. \A v : LET t == [s EXCEPT !.keep = v] IN HasFields(t) /\ t.keep = v
    BY <1>b DEF HasFields
  <2> QED
    BY <2>1
<1>c. \A f \in {"pc", "opts", "table", "next", "ignore", "span", "fixed", "handler",
                   "orig", "cum", "stat", "dataRow", "abort", "asked"} : k[f] = s[f]
  BY <1>b DEF HasFields
<1>1. /\ IsScanner(k) /\ k.keep = TRUE /\ k.ignore <= 0
      /\ \A f \in {"pc", "opts", "table", "next", "ignore", "span", "fixed",
                   "orig", "cum", "stat", "dataRow", "abort", "asked"} : k[f] = s[f]
  BY <1>a, <1>c DEF IsScanner, HandlerInv
<1>2. SkipToFirstRowWithData(s, cells, aborts) =
        IF IsBlank(cells) THEN [s |-> s, out |-> out]
        ELSE IF s1.handler = "collate_header_row" THEN CollateHeaderRow(s1, cells, aborts)
        ELSE CallCaller(s1, cells, aborts)
  BY DEF SkipToFirstRowWithData
<1> HIDE DEF k
<1>3. /\ IsScanner(s1) /\ s1.handler \in {"collate_header_row", "caller"}
      /\ s1.handler = "caller" => s1.dataRow = 0
      /\ \A f \in {"pc", "opts", "table", "next", "fixed", "ignore", "keep",
                   "orig", "cum", "stat", "abort", "asked"} : s1[f] = k[f]
  <2>1. s1.handler = IF k.span > 1 THEN "collate_header_row" ELSE "caller"
    BY <1>1, SetCallbacksHandler DEF IsScanner
  <2> QED
    BY <1>1, <2>1, SetCallbacksHandler
<1> HIDE DEF s1
<1>4. HandlerInv(s1)
  BY <1>1, <1>3 DEF HandlerInv, IsScanner
<1>5. CASE IsBlank(cells)
  BY <1>2, <1>5 DEF Handled, Kept
<1>6. CASE ~IsBlank(cells) /\ s1.handler = "collate_header_row"
  <2>1. Handled(s1, CollateHeaderRow(s1, cells, aborts), aborts)
    BY <1>3, <1>4, <1>6, CollateHandled
  <2> QED
    <3> DEFINE h == CollateHeaderRow(s1, cells, aborts)
    <3>1. SkipToFirstRowWithData(s, cells, aborts) = h
      BY <1>2, <1>6
    <3> HIDE DEF h
    <3>2. /\ IsScanner(h.s) /\ HandlerInv(h.s) /\ h.s.opts = s.opts /\ h.s.cum = s.cum
          /\ h.s.stat = s.stat /\ h.s.pc = s.pc /\ h.s.next = s.next /\ h.s.table = s.table
      BY <1>1, <1>3, <2>1 DEF Handled, h
    <3>3. Kept(s1, h) => Kept(s, h)
      BY <1>1, <1>3, <1>6 DEF Kept
    <3>4. Called(s1, h, aborts) => Called(s, h, aborts)
      BY <1>1, <1>3, <1>6 DEF Called
    <3> QED
      BY <2>1, <3>1, <3>2, <3>3, <3>4 DEF Handled, h
<1>7. CASE ~IsBlank(cells) /\ s1.handler = "caller"
  <2>1. Handled(s1, CallCaller(s1, cells, aborts), aborts) /\ Called(s1, CallCaller(s1, cells, aborts), aborts)
    BY <1>3, <1>4, <1>7, CallerCalled
  <2> QED
    <3> DEFINE h == CallCaller(s1, cells, aborts)
    <3>1. SkipToFirstRowWithData(s, cells, aborts) = h
      BY <1>2, <1>7
    <3> HIDE DEF h
    <3>2. /\ IsScanner(h.s) /\ HandlerInv(h.s) /\ h.s.opts = s.opts /\ h.s.cum = s.cum
          /\ h.s.stat = s.stat /\ h.s.pc = s.pc /\ h.s.next = s.next /\ h.s.table = s.table
      BY <1>1, <1>3, <2>1 DEF Handled, h
    <3>3. Called(s, h, aborts)
      BY <1>1, <1>3, <1>7, <2>1 DEF Called, h
    <3> QED
      BY <3>1, <3>2, <3>3 DEF Handled
<1> QED
  BY <1>3, <1>5, <1>6, <1>7

\* ignore_header_rows: the caller does not see the row.
LEMMA IgnoreHandled ==
    ASSUME NEW s, IsScanner(s), HandlerInv(s), s.handler = "ignore_header_rows", NEW aborts \in BOOLEAN
    PROVE  Handled(s, IgnoreHeaderRows(s), aborts)
<1> DEFINE s1 == [s EXCEPT !.ignore = @ - 1]
           s2 == SetCallbacks(s1)
<1>b. HasFields(s)
  BY DEF IsScanner
<1>a. /\ HasFields(s1) /\ s1.ignore = s.ignore - 1
      /\ \A f \in {"pc", "opts", "table", "next", "keep", "span", "fixed", "handler",
                   "orig", "cum", "stat", "dataRow", "abort", "asked"} : s1[f] = s[f]
  BY <1>b DEF HasFields
<1>1. IsScanner(s1)
  BY <1>a DEF IsScanner
<1>2. IgnoreHeaderRows(s) = [s |-> IF s1.ignore = 0 THEN s2 ELSE s1, out |-> out]
  BY DEF IgnoreHeaderRows
<1> HIDE DEF s1
<1>3. CASE s1.ignore = 0
  <2>1. /\ IsScanner(s2)
        /\ s2.handler = IF ~s.fixed /\ ~s.keep THEN "skip_to_first_row_w_data"
                        ELSE IF s.span > 1 THEN "collate_header_row" ELSE "caller"
        /\ s2.ignore = 0
        /\ \A f \in {"pc", "opts", "table", "next", "keep", "span", "fixed",
                   "orig", "cum", "stat", "abort", "asked"} : s2[f] = s[f]
    BY <1>a, <1>1, <1>3, SetCallbacksHandler
  <2> HIDE DEF s2
  <2>2. HandlerInv(s2)
    BY <2>1 DEF HandlerInv
  <2>3. s2.handler = "caller" => s.fixed \/ (s.opts.keep /\ s.opts.ignore > 0 /\ s.opts.span < 2)
    BY <2>1 DEF HandlerInv, IsScanner
  <2> QED
    BY <1>2, <1>3, <2>1, <2>2, <2>3 DEF Handled, Kept
<1>4. CASE s1.ignore # 0
  <2>1. HandlerInv(s1)
    BY <1>a, <1>1, <1>4 DEF HandlerInv, IsScanner
  <2> QED
    BY <1>a, <1>1, <1>2, <1>4, <2>1 DEF Handled, Kept
<1> QED
  BY <1>3, <1>4

Numbered(o) == ~o.fixed /\ ~(o.keep /\ o.ignore > 0 /\ o.span < 2)

\* An abort that no progress callback can take back has stopped the parser;
\* the next row of the caller has the number of rows it has seen.
ParserInv ==
    /\ cmd = "parser" /\ IsScanner(st) /\ HandlerInv(st) /\ IsSequence(out)
    /\ st.pc \in {"rows", "done"} /\ st.stat \in {"ok", "cancelled", "max_rows_read"}
    /\ st.asked # 0 /\ (st.opts.interval = 0 \/ st.opts.fixed) =>
         /\ st.abort /\ st.stat # "ok" /\ Len(out) = st.asked
         /\ st.pc = "done" => st.stat = "cancelled"
    /\ Numbered(st.opts) =>
         /\ \A k \in DOMAIN out : out[k].row = k - 1
         /\ st.handler # "caller" => out = <<>>
         /\ st.stat = "ok" /\ st.handler = "caller" => st.dataRow = Len(out)

\* zsv_scanner_init leaves the scanner with the invariant.
LEMMA ParserInitInv == ParserInit => ParserInv
<1> SUFFICES ASSUME ParserInit PROVE ParserInv
  OBVIOUS
<1>1. PICK o \in PcOptions, t \in PcTables, ow \in PcOverwrites :
         st = [ScannerInit(o, ow) EXCEPT !.table = t]
  BY DEF ParserInit
<1>2. cmd = "parser" /\ out = <<>> /\ IsSequence(out) /\ Len(out) = 0
  BY EmptyIsSequence DEF ParserInit
<1> DEFINE s0 == [pc |-> "rows", opts |-> o, table |-> <<>>, next |-> 1,
               ignore |-> o.ignore, keep |-> o.keep, span |-> o.span,
               fixed |-> o.fixed, handler |-> "", collate |-> <<>>,
               have |-> FALSE, over |-> ow, orig |-> ow, overwrites |-> FALSE,
               dataRow |-> 0, cum |-> 0, abort |-> FALSE,
               asked |-> 0, stat |-> "ok"]
           s1 == SetCallbacks(s0)
           s2 == [s1 EXCEPT !.have = (ow # <<>>)]
<1>3. HasFields(s0)
  BY DEF HasFields
<1>4. /\ s0.ignore = o.ignore /\ s0.opts = o /\ s0.keep = o.keep /\ s0.span = o.span /\ s0.asked = 0
      /\ s0.fixed = o.fixed /\ s0.abort = FALSE /\ s0.cum = 0
      /\ s0.pc = "rows" /\ s0.stat = "ok" /\ s0.dataRow = 0
  OBVIOUS
<1>6. st = [s2 EXCEPT !.table = t]
  BY <1>1 DEF ScannerInit
<1> HIDE DEF s0
<1>5. IsScanner(s0)
  <2>1. /\ o \in [ignore : Nat, keep : BOOLEAN, span : Nat, fixed : BOOLEAN, max : Nat, interval : Nat]
        /\ o.ignore \in Nat /\ o.span \in Nat /\ o.keep \in BOOLEAN
    BY PcAssumption
  <2>2. s0.ignore \in Int /\ s0.span \in Int /\ s0.keep \in BOOLEAN
    BY <1>4, <2>1
  <2>3. s0.opts \in [ignore : Nat, keep : BOOLEAN, span : Nat, fixed : BOOLEAN, max : Nat, interval : Nat]
    BY <1>4, <2>1
  <2>4. s0.dataRow \in Nat /\ s0.cum \in Nat /\ s0.asked \in Nat
    BY <1>4
  <2>6. s0.abort \in BOOLEAN
    <3>1. s0.abort = FALSE
      BY <1>4
    <3> QED
      BY <3>1
  <2>5. s0.fixed = s0.opts.fixed
    BY <1>4
  <2> QED
    BY <1>3, <2>2, <2>3, <2>4, <2>5, <2>6 DEF IsScanner
<1>7. /\ IsScanner(s1) /\ s1.ignore = o.ignore /\ s1.opts = o /\ s1.keep = o.keep /\ s1.span = o.span
      /\ s1.asked = 0 /\ s1.pc = "rows" /\ s1.stat = "ok" /\ s1.dataRow = 0
      /\ s1.handler = IF s1.ignore > 0 THEN "ignore_header_rows"
                ELSE IF ~s1.fixed /\ ~s1.keep THEN "skip_to_first_row_w_data"
                ELSE IF s1.span > 1 THEN "collate_header_row" ELSE "caller"
  BY <1>4, <1>5, SetCallbacksHandler
<1> HIDE DEF s1
<1>8. HasFields(s1)
  BY <1>7 DEF IsScanner
<1>9. /\ HasFields(s2)
      /\ \A f \in {"pc", "opts", "next", "ignore", "keep", "span", "fixed", "handler",
                   "orig", "cum", "stat", "dataRow", "abort", "asked"} : s2[f] = s1[f]
  BY <1>8 DEF HasFields
<1> HIDE DEF s2
<1>10. /\ HasFields(st)
       /\ \A f \in {"pc", "opts", "next", "ignore", "keep", "span", "fixed", "handler",
                   "orig", "cum", "stat", "dataRow", "abort", "asked"} : st[f] = s2[f]
  BY <1>6, <1>9 DEF HasFields
<1>11. IsScanner(st) /\ HandlerInv(st)
  BY <1>7, <1>9, <1>10 DEF IsScanner, HandlerInv
<1> QED
  BY <1>2, <1>7, <1>9, <1>10, <1>11 DEF ParserInv

\* The handler that st.handler names handles the row.
LEMMA RowHandled ==
    ASSUME ParserInv, NEW cells, NEW aborts \in BOOLEAN
    PROVE  Handled(st, ParserRowHandler(st, cells, aborts), aborts)
<1>1. CASE st.handler = "ignore_header_rows"
  BY <1>1, IgnoreHandled DEF ParserRowHandler, ParserInv
<1>2. CASE st.handler = "skip_to_first_row_w_data"
  BY <1>2, SkipHandled DEF ParserRowHandler, ParserInv
<1>3. CASE st.handler = "collate_header_row"
  BY <1>3, CollateHandled DEF ParserRowHandler, ParserInv
<1>4. CASE st.handler = "caller"
  BY <1>4, CallerCalled DEF ParserRowHandler, ParserInv
<1> QED
  BY <1>1, <1>2, <1>3, <1>4 DEF ParserInv, HandlerInv

\* What row_dl does to the scanner after the handler: it counts the row, asks
\* the progress callback and the row limit, and the scan loop goes on to the
\* next row.
CountedOn(s) == [s EXCEPT !.cum = @ + 1]
Advanced(s) == [s EXCEPT !.next = @ + 1, !.dataRow = IF s.stat = "ok" THEN @ + 1 ELSE @]
AfterRow(s, cancels) == Advanced(RowLimit(ProgressCallback(CountedOn(s), cancels)))

\* A row that the handler has taken goes on to the next one, or ends the parse.
LEMMA RowCounted ==
    ASSUME NEW s, IsScanner(s), NEW cancels \in BOOLEAN, s.stat = "ok"
    PROVE  LET n == AfterRow(s, cancels)
           IN  /\ IsScanner(n)
               /\ \A f \in {"pc", "opts", "table", "ignore", "keep", "span", "fixed", "handler",
                            "orig", "asked"} : n[f] = s[f]
               /\ n.stat \in {"ok", "cancelled", "max_rows_read"}
               /\ n.stat = "ok" => n.dataRow = s.dataRow + 1
               /\ s.opts.interval = 0 /\ s.abort => n.abort /\ n.stat # "ok"
<1> DEFINE k == CountedOn(s)
           p == ProgressCallback(k, cancels)
           c == RowLimit(p)
           d == IF c.stat = "ok" THEN c.dataRow + 1 ELSE c.dataRow
           n == [c EXCEPT !.next = @ + 1, !.dataRow = d]
<1>1. HasFields(s)
  BY DEF IsScanner
<1>2. /\ HasFields(k) /\ k.cum = s.cum + 1
      /\ \A f \in {"pc", "opts", "table", "ignore", "keep", "span", "fixed", "handler",
                   "orig", "asked", "dataRow", "stat", "abort", "next"} : k[f] = s[f]
  BY <1>1 DEF HasFields, CountedOn
<1> HIDE DEF k
<1>3. /\ HasFields(p) /\ p.abort \in BOOLEAN
      /\ s.opts.interval = 0 => p.abort = s.abort
      /\ \A f \in {"pc", "opts", "table", "ignore", "keep", "span", "fixed", "handler",
                   "orig", "asked", "dataRow", "stat", "cum", "next"} : p[f] = k[f]
  <2>1. p = [k EXCEPT !.abort = cancels] \/ p = k
    BY DEF ProgressCallback
  <2>2. s.opts.interval = 0 => p = k
    BY <1>2 DEF ProgressCallback
  <2> HIDE DEF p
  <2>3. CASE p = k
    BY <1>2, <2>3 DEF IsScanner
  <2>4. CASE p = [k EXCEPT !.abort = cancels]
    BY <1>2, <2>2, <2>4 DEF HasFields
  <2> QED
    BY <2>1, <2>3, <2>4
<1> HIDE DEF p
<1>4. /\ HasFields(c) /\ c.abort \in BOOLEAN
      /\ c.stat \in {"ok", "cancelled", "max_rows_read"}
      /\ p.abort => c.abort /\ c.stat # "ok"
      /\ \A f \in {"pc", "opts", "table", "ignore", "keep", "span", "fixed", "handler",
                   "orig", "asked", "dataRow", "cum", "next"} : c[f] = p[f]
  <2>1. \/ c = [p EXCEPT !.abort = TRUE, !.stat = "max_rows_read"]
        \/ p.abort /\ c = [p EXCEPT !.stat = "cancelled"]
        \/ ~p.abort /\ c = p
    BY DEF RowLimit
  <2>2. p.stat = "ok"
    BY <1>2, <1>3
  <2> HIDE DEF c
  <2>3. CASE c = [p EXCEPT !.abort = TRUE, !.stat = "max_rows_read"]
    BY <1>3, <2>3 DEF HasFields
  <2>4. CASE p.abort /\ c = [p EXCEPT !.stat = "cancelled"]
    BY <1>3, <2>4 DEF HasFields
  <2>5. CASE ~p.abort /\ c = p
    BY <1>3, <2>2, <2>5
  <2> QED
    BY <2>1, <2>3, <2>4, <2>5
<1> HIDE DEF c
<1>5. /\ HasFields(n) /\ n.dataRow = d
      /\ \A f \in {"pc", "opts", "table", "ignore", "keep", "span", "fixed", "handler",
                   "orig", "asked", "stat", "abort", "cum"} : n[f] = c[f]
  <2> DEFINE t == [c EXCEPT !.next = @ + 1]
  <2>1. n = [t EXCEPT !.dataRow = d]
    OBVIOUS
  <2>2. /\ HasFields(t)
        /\ \A f \in {"pc", "opts", "table", "ignore", "keep", "span", "fixed", "handler",
                     "orig", "asked", "stat", "abort", "cum"} : t[f] = c[f]
    BY <1>4 DEF HasFields
  <2> HIDE DEF d, t, n
  <2> QED
    BY <2>1, <2>2 DEF HasFields
<1>6. n = AfterRow(s, cancels)
  BY DEF AfterRow, Advanced, c, p, k
<1> HIDE DEF n
<1>7. IsScanner(n)
  BY <1>2, <1>3, <1>4, <1>5 DEF IsScanner
<1>8. \A f \in {"pc", "opts", "table", "ignore", "keep", "span", "fixed", "handler",
                "orig", "asked"} : n[f] = s[f]
  BY <1>2, <1>3, <1>4, <1>5
<1>9. /\ n.stat \in {"ok", "cancelled", "max_rows_read"}
      /\ n.stat = "ok" => n.dataRow = s.dataRow + 1
      /\ s.opts.interval = 0 /\ s.abort => n.abort /\ n.stat # "ok"
  BY <1>2, <1>3, <1>4, <1>5
<1> QED
  BY <1>6, <1>7, <1>8, <1>9

\* The invariant after a row, from what the handler did and what followed it.
LEMMA RowKeepsParserInv ==
    ASSUME ParserInv, st.stat = "ok", cmd' = cmd, NEW h, NEW aborts \in BOOLEAN,
           Handled(st, h, aborts), out' = h.out, IsScanner(st'),
           \A f \in {"pc", "opts", "table", "ignore", "keep", "span", "fixed", "handler",
                     "orig", "asked"} : st'[f] = h.s[f],
           st'.stat \in {"ok", "cancelled", "max_rows_read"},
           ~st.opts.fixed /\ st'.stat = "ok" => st'.dataRow = h.s.dataRow + 1,
           (st.opts.interval = 0 \/ st.opts.fixed) /\ h.s.abort => st'.abort /\ st'.stat # "ok",
           st.pc = "rows"
    PROVE  ParserInv'
<1>1. /\ IsScanner(h.s) /\ HandlerInv(h.s)
      /\ h.s.opts = st.opts /\ h.s.pc = st.pc
      /\ Kept(st, h) \/ Called(st, h, aborts)
  BY DEF Handled
<1>2. HandlerInv(st')
  BY <1>1 DEF HandlerInv
<1>a. IsSequence(out) /\ out' = h.out
  BY DEF ParserInv
<1>3. IsSequence(out') /\ Len(out) \in Nat
  <2>1. CASE Kept(st, h)
    BY <1>a, <2>1, AppendIsSequence DEF Kept
  <2>2. CASE Called(st, h, aborts)
    <3>1. PICK c : h.out = Append(out, [row |-> h.s.dataRow, cells |-> c])
      BY <2>2 DEF Called
    <3> QED
      BY <1>a, <3>1, AppendIsSequence
  <2> QED
    BY <1>1, <2>1, <2>2
<1>4. st'.asked # 0 /\ (st'.opts.interval = 0 \/ st'.opts.fixed) =>
        st'.abort /\ st'.stat # "ok" /\ Len(out') = st'.asked
  <2> SUFFICES ASSUME st'.asked # 0, st'.opts.interval = 0 \/ st'.opts.fixed
               PROVE  st'.abort /\ st'.stat # "ok" /\ Len(out') = st'.asked
    OBVIOUS
  <2>1. st.asked = 0
    BY <1>1 DEF ParserInv
  <2>2. Called(st, h, aborts) /\ aborts
    BY <1>1, <2>1 DEF Kept, Called
  <2>3. h.s.abort /\ h.s.asked = Len(out) + 1
    BY <2>1, <2>2 DEF Called
  <2>4. Len(out') = Len(out) + 1
    BY <2>2, AppendIsSequence DEF Called, ParserInv
  <2> QED
    BY <1>1, <2>3, <2>4
<1>5. Numbered(st'.opts) =>
         /\ \A k \in DOMAIN out' : out'[k].row = k - 1
         /\ st'.handler # "caller" => out' = <<>>
         /\ st'.stat = "ok" /\ st'.handler = "caller" => st'.dataRow = Len(out')
  <2> SUFFICES ASSUME Numbered(st.opts)
               PROVE  /\ \A k \in DOMAIN out' : out'[k].row = k - 1
                      /\ st'.handler # "caller" => out' = <<>>
                      /\ st'.stat = "ok" /\ st'.handler = "caller" => st'.dataRow = Len(out')
    BY <1>1
  <2>1. CASE Kept(st, h)
    BY <1>1, <2>1 DEF Kept, ParserInv, Numbered, IsScanner
  <2>2. CASE Called(st, h, aborts)
    <3>1. PICK c : h.out = Append(out, [row |-> h.s.dataRow, cells |-> c])
      BY <2>2 DEF Called
    <3>2. h.s.dataRow = Len(out) /\ st'.handler = "caller"
      BY <2>2, EmptyIsSequence DEF Called, ParserInv
    <3>3. /\ DOMAIN out = 1..Len(out) /\ DOMAIN out' = 1..(Len(out) + 1) /\ Len(out') = Len(out) + 1
          /\ \A k \in 1..Len(out) : out'[k] = out[k]
          /\ out'[Len(out) + 1].row = h.s.dataRow
      BY <3>1, AppendIsSequence DEF ParserInv
    <3>4. \A k \in 1..Len(out) : out[k].row = k - 1
      BY <3>3 DEF ParserInv
    <3>5. \A k \in DOMAIN out' : out'[k].row = k - 1
      <4> SUFFICES ASSUME NEW k \in 1..(Len(out) + 1) PROVE out'[k].row = k - 1
        BY <3>3
      <4>1. CASE k \in 1..Len(out)
        BY <3>3, <3>4, <4>1
      <4>2. CASE k = Len(out) + 1
        BY <1>3, <3>2, <3>3, <4>2
      <4> QED
        BY <1>3, <4>1, <4>2
    <3>6. ~st.opts.fixed
      BY DEF Numbered
    <3> QED
      BY <3>2, <3>3, <3>5, <3>6
  <2> QED
    BY <1>1, <2>1, <2>2
<1>6. st'.pc = "rows"
  BY <1>1
<1> QED
  BY <1>1, <1>2, <1>3, <1>4, <1>5, <1>6 DEF ParserInv

\* row_dl: a row of a delimited file.
LEMMA RowDlInv ==
    ASSUME ParserInv, st.stat = "ok", st.pc = "rows", cmd' = cmd, ~st.fixed,
           NEW cells, NEW aborts \in BOOLEAN, NEW cancels \in BOOLEAN, RowDl(cells, aborts, cancels)
    PROVE  ParserInv'
<1> DEFINE h == ParserRowHandler(st, cells, aborts)
           s == RowLimit(ProgressCallback([h.s EXCEPT !.cum = @ + 1], cancels))
<1>1. Handled(st, h, aborts)
  BY RowHandled
<1>2. out' = h.out /\ st' = [s EXCEPT !.next = @ + 1, !.dataRow = IF s.stat = "ok" THEN @ + 1 ELSE @]
  BY DEF RowDl
<1> HIDE DEF h
<1>3. IsScanner(h.s) /\ h.s.stat = "ok" /\ h.s.opts = st.opts
  BY <1>1 DEF Handled
<1>4. /\ IsScanner(st')
      /\ \A f \in {"pc", "opts", "table", "ignore", "keep", "span", "fixed", "handler",
                   "orig", "asked"} : st'[f] = h.s[f]
      /\ st'.stat \in {"ok", "cancelled", "max_rows_read"}
      /\ st'.stat = "ok" => st'.dataRow = h.s.dataRow + 1
      /\ h.s.opts.interval = 0 /\ h.s.abort => st'.abort /\ st'.stat # "ok"
  <2>1. st' = AfterRow(h.s, cancels)
    BY <1>2 DEF AfterRow, Advanced, CountedOn
  <2> QED
    BY <1>3, <2>1, RowCounted
<1>5. ~st.opts.fixed
  BY DEF ParserInv, IsScanner
<1> QED
  BY <1>1, <1>2, <1>3, <1>4, <1>5, RowKeepsParserInv

\* row_fx: a row of a fixed-width file.
LEMMA RowFxInv ==
    ASSUME ParserInv, st.stat = "ok", st.pc = "rows", cmd' = cmd, st.fixed,
           NEW cells, NEW aborts \in BOOLEAN, RowFx(cells, aborts)
    PROVE  ParserInv'
<1> DEFINE h == ParserRowHandler(st, cells, aborts)
           t == [h.s EXCEPT !.next = @ + 1]
           stat == IF h.s.abort THEN "cancelled" ELSE h.s.stat
<1>1. Handled(st, h, aborts)
  BY RowHandled
<1>2. out' = h.out /\ st' = [h.s EXCEPT !.next = @ + 1, !.stat = IF h.s.abort THEN "cancelled" ELSE @]
  BY DEF RowFx
<1> HIDE DEF h
<1>3. IsScanner(h.s) /\ h.s.stat = "ok" /\ h.s.opts = st.opts /\ HasFields(h.s)
  BY <1>1 DEF Handled, IsScanner
<1>4. st' = [t EXCEPT !.stat = stat]
  BY <1>2
<1>5. /\ HasFields(t)
      /\ \A f \in {"pc", "opts", "table", "ignore", "keep", "span", "fixed", "handler", "cum", "abort",
                   "orig", "asked", "dataRow", "stat"} : t[f] = h.s[f]
  BY <1>3 DEF HasFields
<1> HIDE DEF t
<1>6. stat \in {"ok", "cancelled"} /\ (h.s.abort => stat # "ok")
  BY <1>3
<1> HIDE DEF stat
<1>7. /\ HasFields(st') /\ st'.stat = stat
      /\ \A f \in {"pc", "opts", "table", "ignore", "keep", "span", "fixed", "handler", "cum", "abort",
                   "orig", "asked", "dataRow"} : st'[f] = h.s[f]
  BY <1>4, <1>5 DEF HasFields
<1>8. IsScanner(st')
  BY <1>3, <1>7 DEF IsScanner
<1>9. st.opts.fixed
  BY DEF ParserInv, IsScanner
<1> QED
  BY <1>1, <1>2, <1>3, <1>6, <1>7, <1>8, <1>9, RowKeepsParserInv

\* zsv_finish: an abort that stands is reported.
LEMMA FinishInv == ParserInv /\ ParserFinish => ParserInv'
<1> SUFFICES ASSUME ParserInv, ParserFinish PROVE ParserInv'
  OBVIOUS
<1> DEFINE stat == IF st.abort THEN "cancelled" ELSE st.stat
           t == [st EXCEPT !.pc = "done"]
<1>1. st' = [t EXCEPT !.stat = stat] /\ cmd' = cmd /\ out' = out
  BY DEF ParserFinish
<1>2. HasFields(st)
  BY DEF ParserInv, IsScanner
<1>3. /\ HasFields(t) /\ t.pc = "done"
      /\ \A f \in {"opts", "table", "ignore", "keep", "span", "fixed", "handler", "cum", "abort",
                   "orig", "asked", "dataRow", "stat"} : t[f] = st[f]
  BY <1>2 DEF HasFields
<1>4. stat \in {"ok", "cancelled", "max_rows_read"} /\ (st.abort => stat = "cancelled")
      /\ (stat = "ok" => st.stat = "ok")
  BY DEF ParserInv
<1> HIDE DEF t, stat
<1>5. /\ HasFields(st') /\ st'.pc = "done" /\ st'.stat = stat
      /\ \A f \in {"opts", "table", "ignore", "keep", "span", "fixed", "handler", "cum", "abort",
                   "orig", "asked", "dataRow"} : st'[f] = st[f]
  BY <1>1, <1>3 DEF HasFields
<1>6. IsScanner(st') /\ HandlerInv(st')
  BY <1>5 DEF ParserInv, IsScanner, HandlerInv
<1> QED
  BY <1>1, <1>4, <1>5, <1>6 DEF ParserInv

\* Every step of the parser keeps the invariant.
LEMMA ParserStepInv == ParserInv /\ [ParserNext \/ Finished]_procVars => ParserInv'
<1> SUFFICES ASSUME ParserInv, [ParserNext \/ Finished]_procVars PROVE ParserInv'
  OBVIOUS
<1>1. CASE ParseRow
  <2>1. PICK aborts \in BOOLEAN, cancels \in BOOLEAN :
           IF st.fixed THEN RowFx(st.table[st.next], aborts)
           ELSE RowDl(st.table[st.next], aborts, cancels)
    BY <1>1 DEF ParseRow
  <2>2. st.stat = "ok" /\ st.pc = "rows" /\ cmd' = cmd
    BY <1>1 DEF ParseRow
  <2> QED
    BY <2>1, <2>2, RowFxInv, RowDlInv
<1>2. CASE ParserFinish
  BY <1>2, FinishInv
<1>3. CASE Finished \/ UNCHANGED procVars
  BY <1>3 DEF Finished, procVars, ParserInv, IsScanner, HasFields, HandlerInv, Numbered
<1> QED
  BY <1>1, <1>2, <1>3 DEF ParserNext

\* Every state of the parser has the invariant.
LEMMA ParserInvariant == ParserSpec => []ParserInv
<1> QED
  BY ParserInitInv, ParserStepInv, PTL DEF ParserSpec

\* After zsv_abort() no row reaches the caller and zsv_finish() reports the
\* cancellation, unless a progress callback can take the abort back.
THEOREM AbortEndsTheParse == ParserSpec => []AbortIsFinal
<1>1. ParserInv => AbortIsFinal
  BY DEF ParserInv, AbortIsFinal, IsScanner
<1> QED
  BY <1>1, ParserInvariant, PTL

\* The rows the caller sees are numbered from 0, the header first, whatever
\* the rows of the header, the row limit and the progress callback were: the
\* number by which the overwrites of a row are found.
THEOREM CallerCountsItsRows == ParserSpec => []RowsAreNumbered
<1>1. ParserInv => RowsAreNumbered
  BY DEF ParserInv, RowsAreNumbered, Numbered
<1> QED
  BY <1>1, ParserInvariant, PTL

-----------------------------------------------------------------------------
(* The rows of the table as the caller should see them *)

\* The options under which the overwrites are laid over the cells.
Laying(o) == ~o.keep /\ ~o.fixed

\* The rows the header is made of.
HeaderRows(o) == IF o.span > 1 THEN o.span ELSE 1

\* The body starts behind row b of the table: behind the ignored rows and,
\* unless they are kept, the blank ones that follow.
BodyFrom(o, t, b) ==
    /\ o.ignore <= b
    /\ IF Laying(o)
       THEN b < Len(t) /\ ~IsBlank(t[b + 1]) /\ \A i \in (o.ignore + 1)..b : IsBlank(t[i])
       ELSE b = o.ignore

\* Cell i of the header that the first n rows of the body make.
Column(t, b, n, i) ==
    FlattenSeq([k \in 1..n |-> IF i \in DOMAIN t[b + k] THEN t[b + k][i] ELSE Blank])

\* That header.
Header(t, b, n) == [i \in DOMAIN t[b + 1] |-> Column(t, b, n, i)]

\* Row k that the caller should see.
BodyRow(o, t, b, k) ==
    IF k = 1 THEN Header(t, b, HeaderRows(o)) ELSE t[b + HeaderRows(o) + k - 1]

\* The overwrites of a cell (zero-based).
EntriesAt(ow, row, col) == {k \in DOMAIN ow : ow[k].row = row /\ ow[k].col = col}

\* A row with the overwrites laid over it.
Laid(cells, ow, row) ==
    [i \in DOMAIN cells |-> LET here == EntriesAt(ow, row, i - 1)
                            IN  IF here = {} THEN cells[i] ELSE ow[Min(here)].val]

\* What the caller sees as row k, of a row of these cells.
Shown(s, k, seen, cells) ==
    IF Laying(s.opts) THEN seen = Laid(cells, s.orig, k - 1)
                      ELSE s.orig = <<>> => seen = cells

\* The cursor over the overwrites has passed none of this row or a later one.
Cursor(over, ow, row) ==
    \E m \in 0..Len(ow) : /\ over = SubSeq(ow, m + 1, Len(ow))
                          /\ \A k \in 1..m : ow[k].row < row

\* Where the cursor stands between two rows, and what says that it does.
Overlaying(s, seen) ==
    /\ s.orig = <<>> => ~s.have /\ ~s.overwrites /\ s.over = <<>>
    /\ Laying(s.opts) =>
         IF s.handler = "caller"
         THEN Cursor(s.over, s.orig, Len(seen)) /\ s.overwrites = (s.over # <<>>)
              /\ s.have = (s.over # <<>>)
         ELSE s.over = s.orig /\ s.have = (s.orig # <<>>)

\* What the installed handler has made of the first p rows of the table: the
\* rows it still ignores, the blank ones it has passed over, the header as far
\* as it is made, or the rows the caller has seen.
TableAt(s, seen, p) ==
  LET o == s.opts
      t == s.table
      n == HeaderRows(o)
  IN  /\ IsTable(t) /\ IsOverwrites(s.orig) /\ p \in 0..Len(t)
      /\ s.handler = "ignore_header_rows" =>
           /\ p < o.ignore /\ s.ignore = o.ignore - p /\ s.span = o.span
           /\ seen = <<>> /\ s.collate = <<>>
      /\ s.handler = "skip_to_first_row_w_data" =>
           /\ o.ignore <= p /\ Laying(o) /\ s.span = o.span /\ seen = <<>> /\ s.collate = <<>>
           /\ \A i \in (o.ignore + 1)..p : IsBlank(t[i])
      /\ s.handler = "collate_header_row" =>
           \E b \in 0..p :
             /\ BodyFrom(o, t, b) /\ o.span > 1 /\ s.span = o.span - (p - b) /\ s.span >= 1
             /\ seen = <<>>
             /\ s.collate = IF p = b THEN <<>> ELSE <<Header(t, b, p - b)>>
      /\ s.handler = "caller" =>
           \E b \in 0..p :
             /\ BodyFrom(o, t, b) /\ p - b >= n - 1 /\ (n > 1 => p - b >= n)
             /\ Len(seen) = p - b - n + 1
             /\ \A k \in DOMAIN seen : Shown(s, k, seen[k].cells, BodyRow(o, t, b, k))
             /\ s.collate = <<>>
      /\ Overlaying(s, seen)

-----------------------------------------------------------------------------
(* The cursor over the overwrites *)

\* An entry before the cell.
Before(o, row, col) == o.row < row \/ (o.row = row /\ o.col < col)

\* zsv_have_overwrite moves the cursor to the first entry that is not before
\* the cell.
LEMMA AheadFinds ==
    ASSUME NEW ow, IsOverwrites(ow), NEW row \in Nat, NEW col \in Nat,
           NEW m \in Nat, m <= Len(ow), \A k \in 1..m : ow[k].row < row
    PROVE  \E j \in m..Len(ow) :
             /\ Ahead(SubSeq(ow, m + 1, Len(ow)), row, col) = SubSeq(ow, j + 1, Len(ow))
             /\ \A k \in 1..j : Before(ow[k], row, col)
             /\ j < Len(ow) => ~Before(ow[j + 1], row, col)
<1> DEFINE L == Len(ow)
           over == SubSeq(ow, m + 1, L)
           rest == {k \in DOMAIN over :
                      over[k].row > row \/ (over[k].row = row /\ over[k].col >= col)}
<1>1. /\ IsSequence(ow) /\ L \in Nat /\ DOMAIN ow = 1..L
      /\ \A k \in 1..L : ow[k].row \in Nat /\ ow[k].col \in Nat
  <2>1. ow \in Seq(Range(ow))
    BY DEF IsOverwrites
  <2>2. IsSequence(ow) /\ Len(ow) \in Nat /\ DOMAIN ow = 1..Len(ow)
    BY <2>1, SequenceOver
  <2> QED BY <2>2 DEF IsOverwrites
<1> HIDE DEF L
<1>2. /\ IsSequence(over) /\ Len(over) = L - m /\ DOMAIN over = 1..(L - m)
      /\ \A k \in 1..(L - m) : over[k] = ow[m + k]
  <2>1. L <= Len(ow) /\ m <= L
    BY <1>1 DEF L
  <2> QED BY <1>1, <2>1, PartOfSequence
<1>3. Ahead(over, row, col) = IF rest = {} THEN <<>> ELSE SubSeq(over, Min(rest), Len(over))
  BY DEF Ahead
<1> HIDE DEF over
<1>4. rest = {k \in 1..(L - m) : ~Before(ow[m + k], row, col)}
  <2>1. ASSUME NEW k \in 1..(L - m)
        PROVE  (over[k].row > row \/ (over[k].row = row /\ over[k].col >= col))
                 <=> ~Before(ow[m + k], row, col)
    <3>1. over[k] = ow[m + k] /\ m + k \in 1..L
      BY <1>1, <1>2
    <3>2. ow[m + k].row \in Nat /\ ow[m + k].col \in Nat
      BY <1>1, <3>1
    <3> QED BY <3>1, <3>2 DEF Before
  <2> QED BY <1>2, <2>1
<1> HIDE DEF rest
<1>5. m <= L
  BY DEF L
<1>6. ASSUME NEW k \in 1..m PROVE Before(ow[k], row, col)
  BY <1>6 DEF Before
<1>7. CASE rest = {}
  <2>1. ASSUME NEW k \in 1..L PROVE Before(ow[k], row, col)
    <3>1. CASE k <= m
      BY <1>6, <3>1
    <3>2. CASE k > m
      <4>1. k - m \in 1..(L - m) /\ m + (k - m) = k
        BY <1>1, <3>2
      <4> QED BY <1>4, <1>7, <4>1
    <3> QED BY <3>1, <3>2
  <2>2. SubSeq(ow, L + 1, L) = <<>>
    BY <1>1, SubSeqEmpty
  <2>3. L \in m..L /\ ~(L < L)
    BY <1>1, <1>5
  <2> QED BY <1>3, <1>7, <2>1, <2>2, <2>3 DEF over, L
<1>8. CASE rest # {}
  <2> DEFINE a == Min(rest)
             j == m + a - 1
  <2>1. a \in rest /\ \A k \in rest : a <= k
    <3>1. rest \subseteq Nat
      BY <1>4
    <3> QED BY <1>8, <3>1, MinIsLeast
  <2> HIDE DEF a
  <2>2. a \in 1..(L - m) /\ ~Before(ow[m + a], row, col)
    BY <1>4, <2>1
  <2>3. j \in m..L /\ j < L /\ j + 1 = m + a
    BY <1>1, <2>2
  <2>4. ASSUME NEW k \in 1..j PROVE Before(ow[k], row, col)
    <3>1. CASE k <= m
      BY <1>6, <3>1
    <3>2. CASE k > m
      <4>1. k - m \in 1..(L - m) /\ m + (k - m) = k /\ k - m < a
        BY <1>1, <2>2, <3>2
      <4>2. k - m \notin rest
        BY <2>1, <2>2, <4>1
      <4> QED BY <1>4, <4>1, <4>2
    <3> QED BY <3>1, <3>2
  <2>5. SubSeq(over, a, L - m) = SubSeq(ow, j + 1, L)
    <3> DEFINE x == SubSeq(over, a, L - m)
               y == SubSeq(ow, j + 1, L)
    <3>0. PICK q, z : q = a - 1 /\ z = L - m
      OBVIOUS
    <3>1. q \in Nat /\ z \in Nat /\ q <= z /\ q + 1 = a /\ z - q = L - j /\ z = Len(over)
      BY <1>1, <1>2, <1>5, <2>2, <3>0
    <3>2. /\ IsSequence(SubSeq(over, q + 1, z)) /\ Len(SubSeq(over, q + 1, z)) = z - q
          /\ \A k \in 1..(z - q) : SubSeq(over, q + 1, z)[k] = over[q + k]
      <4>1. z <= Len(over)
        BY <3>1
      <4> QED BY <1>2, <3>1, <4>1, PartOfSequence
    <3>3. IsSequence(x) /\ Len(x) = L - j /\ \A k \in 1..(L - j) : x[k] = over[q + k]
      BY <3>0, <3>1, <3>2
    <3>4. j \in Nat /\ j <= L
      BY <2>3
    <3>5. IsSequence(y) /\ Len(y) = L - j /\ \A k \in 1..(L - j) : y[k] = ow[j + k]
      <4>1. L <= Len(ow)
        BY <1>1 DEF L
      <4> QED BY <1>1, <3>4, <4>1, PartOfSequence
    <3> HIDE DEF x, y
    <3>6. ASSUME NEW k \in 1..(L - j) PROVE over[q + k] = ow[j + k]
      <4>1. q + k \in 1..(L - m) /\ m + (q + k) = j + k
        BY <1>1, <2>2, <3>0
      <4>2. over[q + k] = ow[m + (q + k)]
        BY <1>2, <4>1
      <4> QED BY <4>1, <4>2
    <3>7. \A k \in 1..Len(x) : x[k] = y[k]
      BY <3>3, <3>5, <3>6
    <3> QED BY <3>3, <3>5, <3>7, SamePlaces DEF x, y
  <2> HIDE DEF j
  <2>6. Ahead(over, row, col) = SubSeq(ow, j + 1, L)
    BY <1>2, <1>3, <1>8, <2>5 DEF a
  <2>7. j < L => ~Before(ow[j + 1], row, col)
    BY <2>2, <2>3
  <2> QED BY <2>3, <2>4, <2>6, <2>7 DEF over, L
<1> QED BY <1>7, <1>8

\* Where the cursor stands after it has moved, an entry for the cell is there
\* just when there is one, and it is the first one.
LEMMA CursorStands ==
    ASSUME NEW ow, IsOverwrites(ow), NEW row \in Nat, NEW col \in Nat, NEW over,
           Cursor(over, ow, row)
    PROVE  /\ Cursor(Ahead(over, row, col), ow, row + 1)
           /\ StandsAt(Ahead(over, row, col), row, col) <=> EntriesAt(ow, row, col) # {}
           /\ EntriesAt(ow, row, col) # {} =>
                Ahead(over, row, col)[1] = ow[Min(EntriesAt(ow, row, col))]
<1> DEFINE L == Len(ow)
           here == {k \in DOMAIN ow : ow[k].row = row /\ ow[k].col = col}
           ahead == Ahead(over, row, col)
<1>1. /\ IsSequence(ow) /\ L \in Nat /\ DOMAIN ow = 1..L
      /\ \A k \in 1..L : ow[k].row \in Nat /\ ow[k].col \in Nat
  <2>1. ow \in Seq(Range(ow))
    BY DEF IsOverwrites
  <2>2. IsSequence(ow) /\ Len(ow) \in Nat /\ DOMAIN ow = 1..Len(ow)
    BY <2>1, SequenceOver
  <2> QED BY <2>2 DEF IsOverwrites
<1>2. PICK m \in 0..L : /\ over = SubSeq(ow, m + 1, L)
                        /\ \A k \in 1..m : ow[k].row < row
  BY DEF Cursor
<1>3. m \in Nat /\ m <= L
  BY <1>1, <1>2
<1>4. PICK j \in m..L :
             /\ ahead = SubSeq(ow, j + 1, L)
             /\ \A k \in 1..j : Before(ow[k], row, col)
             /\ j < L => ~Before(ow[j + 1], row, col)
  BY <1>2, <1>3, AheadFinds
<1> HIDE DEF ahead, L
<1>5. j \in Nat /\ j <= L
  BY <1>1, <1>3, <1>4
<1>6. /\ IsSequence(ahead) /\ Len(ahead) = L - j
      /\ \A k \in 1..(L - j) : ahead[k] = ow[j + k]
  <2>1. L <= Len(ow)
    BY <1>1 DEF L
  <2>2. /\ IsSequence(SubSeq(ow, j + 1, L)) /\ Len(SubSeq(ow, j + 1, L)) = L - j
        /\ \A k \in 1..(L - j) : SubSeq(ow, j + 1, L)[k] = ow[j + k]
    BY <1>1, <1>5, <2>1, PartOfSequence
  <2> QED BY <1>4, <2>2
<1>7. Cursor(ahead, ow, row + 1)
  <2>1. ASSUME NEW k \in 1..j PROVE ow[k].row < row + 1
    <3>1. Before(ow[k], row, col) /\ k \in 1..L
      BY <1>1, <1>4, <1>5
    <3>2. ow[k].row \in Nat
      BY <1>1, <3>1
    <3> QED BY <3>1, <3>2 DEF Before
  <2>2. j \in 0..L
    BY <1>1, <1>5
  <2> QED BY <1>4, <2>1, <2>2 DEF Cursor, L
<1>8. ASSUME NEW h \in here PROVE h \in 1..L /\ j < h
  <2>1. h \in 1..L /\ ow[h].row = row /\ ow[h].col = col
    BY <1>1
  <2>2. ~Before(ow[h], row, col)
    BY <2>1 DEF Before
  <2> QED BY <1>4, <1>5, <2>1, <2>2
<1>9. CASE j = L
  <2>1. here = {}
    BY <1>1, <1>8, <1>9
  <2>2. ahead = <<>>
    <3>1. ahead = SubSeq(ow, L + 1, L)
      BY <1>4, <1>9
    <3> QED BY <1>1, <3>1, SubSeqEmpty
  <2> QED BY <1>7, <2>1, <2>2 DEF StandsAt, ahead, EntriesAt
<1>10. CASE j < L
  <2>1. ahead # <<>> /\ ahead[1] = ow[j + 1] /\ j + 1 \in 1..L
    <3>1. 1 \in 1..(L - j) /\ Len(ahead) > 0
      BY <1>1, <1>5, <1>6, <1>10
    <3>2. ahead # <<>>
      BY <3>1
    <3> QED BY <1>1, <1>5, <1>6, <1>10, <3>1, <3>2
  <2>2. StandsAt(ahead, row, col) <=> j + 1 \in here
    BY <1>1, <2>1 DEF StandsAt
  <2>3. here # {} => j + 1 \in here /\ Min(here) = j + 1
    <3> SUFFICES ASSUME here # {} PROVE j + 1 \in here /\ Min(here) = j + 1
      OBVIOUS
    <3>1. here \subseteq Nat
      BY <1>8
    <3> DEFINE h == Min(here)
    <3>2. h \in here /\ \A k \in here : h <= k
      BY <3>1, MinIsLeast
    <3> HIDE DEF h
    <3>3. h \in 1..L /\ j + 1 <= h /\ ow[h].row = row /\ ow[h].col = col
      BY <1>1, <1>5, <1>8, <3>2
    <3>4. ow[j + 1].row \in Nat /\ ow[j + 1].col \in Nat /\ ~Before(ow[j + 1], row, col)
      BY <1>1, <1>4, <1>10, <2>1
    <3>5. j + 1 \in here
      <4>1. CASE h = j + 1
        BY <3>2, <4>1
      <4>2. CASE j + 1 < h
        <5>1. \/ ow[j + 1].row < ow[h].row
              \/ ow[j + 1].row = ow[h].row /\ ow[j + 1].col <= ow[h].col
          BY <1>1, <2>1, <3>3, <4>2 DEF IsOverwrites
        <5>2. ow[j + 1].row = row /\ ow[j + 1].col = col
          BY <3>3, <3>4, <5>1 DEF Before
        <5> QED BY <1>1, <2>1, <5>2
      <4> QED BY <3>3, <1>5, <4>1, <4>2
    <3>6. h <= j + 1
      BY <3>2, <3>5
    <3> QED BY <1>5, <3>3, <3>5, <3>6 DEF h
  <2> HIDE DEF here
  <2> QED BY <1>7, <2>1, <2>2, <2>3 DEF here, ahead, EntriesAt
<1> QED BY <1>1, <1>5, <1>9, <1>10 DEF EntriesAt

-----------------------------------------------------------------------------
(* The cells the caller sees *)

\* A table, its rows and its cells are sequences.
LEMMA TableParts ==
    ASSUME NEW t, IsTable(t)
    PROVE  /\ IsSequence(t) /\ Len(t) \in Nat /\ DOMAIN t = 1..Len(t)
           /\ \A r \in DOMAIN t :
                /\ IsSequence(t[r]) /\ Len(t[r]) \in Nat /\ DOMAIN t[r] = 1..Len(t[r])
                /\ \A i \in DOMAIN t[r] : IsSequence(t[r][i])
<1>1. t \in Seq(Range(t))
  BY DEF IsTable
<1>2. IsSequence(t) /\ Len(t) \in Nat /\ DOMAIN t = 1..Len(t)
  BY <1>1, SequenceOver
<1>3. ASSUME NEW r \in DOMAIN t
      PROVE  /\ IsSequence(t[r]) /\ Len(t[r]) \in Nat /\ DOMAIN t[r] = 1..Len(t[r])
             /\ \A i \in DOMAIN t[r] : IsSequence(t[r][i])
  <2>1. t[r] \in Range(t)
    BY DEF Range
  <2> DEFINE row == t[r]
  <2>2. row \in Seq(Range(row)) /\ \A c \in Range(row) : c \in Seq(Range(c))
    BY <2>1 DEF IsTable
  <2> HIDE DEF row
  <2>3. IsSequence(row) /\ Len(row) \in Nat /\ DOMAIN row = 1..Len(row)
    BY <2>2, SequenceOver
  <2>4. ASSUME NEW i \in DOMAIN row PROVE IsSequence(row[i])
    <3>1. row[i] \in Range(row)
      BY DEF Range
    <3>2. row[i] \in Seq(Range(row[i]))
      BY <2>2, <3>1
    <3> QED BY <3>2, SequenceOver
  <2> QED BY <2>3, <2>4 DEF row
<1> QED BY <1>2, <1>3

\* A sequence is the function of its places.
LEMMA SequenceIsList ==
    ASSUME NEW s, IsSequence(s)
    PROVE  s = [k \in DOMAIN s |-> s[k]]
<1> DEFINE S == {s[k] : k \in DOMAIN s}
<1>1. s \in Seq(S)
  BY DEF IsSequence
<1> HIDE DEF S
<1>2. s \in [1..Len(s) -> S]
  BY <1>1, LenProperties
<1> QED BY <1>2

\* zsv_get_cell_with_overwrite: the cells of the row, with the overwrites laid
\* over them.
LEMMA CellsAreLaid ==
    ASSUME NEW s, NEW cells, IsSequence(cells), IsOverwrites(s.orig), s.dataRow \in Nat,
           Cursor(s.over, s.orig, s.dataRow), s.overwrites = (s.over # <<>>)
    PROVE  [i \in DOMAIN cells |-> GetCell(s, cells, i)] = Laid(cells, s.orig, s.dataRow)
<1>0. PICK row, ow, over : row = s.dataRow /\ ow = s.orig /\ over = s.over
  OBVIOUS
<1>a. IsOverwrites(ow) /\ row \in Nat /\ Cursor(over, ow, row) /\ s.overwrites = (over # <<>>)
  BY <1>0
<1> DEFINE here(i) == EntriesAt(ow, row, i - 1)
           laid(i) == IF here(i) = {} THEN cells[i] ELSE ow[Min(here(i))].val
<1>1. DOMAIN cells = 1..Len(cells) /\ Len(cells) \in Nat
  BY DEF IsSequence
<1>2. ASSUME NEW i \in DOMAIN cells PROVE GetCell(s, cells, i) = laid(i)
  <2> DEFINE col == i - 1
             ahead == Ahead(over, row, col)
             there == EntriesAt(ow, row, col)
  <2>1. col \in Nat
    BY <1>1
  <2> HIDE DEF col
  <2>5. /\ StandsAt(ahead, row, col) <=> there # {}
        /\ there # {} => ahead[1] = ow[Min(there)]
    BY <1>a, <2>1, CursorStands
  <2>2. /\ StandsAt(ahead, row, col) <=> here(i) # {}
        /\ here(i) # {} => ahead[1] = ow[Min(here(i))]
    BY <2>5 DEF col
  <2>3. GetCell(s, cells, i) =
          IF s.overwrites /\ StandsAt(ahead, row, col) THEN ahead[1].val ELSE cells[i]
    BY <1>0 DEF GetCell, col
  <2> HIDE DEF here
  <2>4. ~s.overwrites => ~StandsAt(ahead, row, col)
    <3> SUFFICES ASSUME over = <<>> PROVE ~StandsAt(ahead, row, col)
      BY <1>a
    <3>1. DOMAIN over = {}
      OBVIOUS
    <3>2. ahead = <<>>
      BY <3>1 DEF Ahead
    <3> QED BY <3>2 DEF StandsAt
  <2> HIDE DEF ahead
  <2> QED BY <2>2, <2>3, <2>4
<1>3. Laid(cells, ow, row) = [i \in DOMAIN cells |-> laid(i)]
  BY DEF Laid
<1> HIDE DEF laid
<1>4. [i \in DOMAIN cells |-> GetCell(s, cells, i)] = Laid(cells, ow, row)
  BY <1>2, <1>3
<1> QED BY <1>0, <1>4

\* zsv_get_cell_1: without overwrites, the cells of the row.
LEMMA CellsAreThose ==
    ASSUME NEW s, NEW cells, IsSequence(cells), ~s.overwrites
    PROVE  [i \in DOMAIN cells |-> GetCell(s, cells, i)] = cells
<1>1. \A i \in DOMAIN cells : GetCell(s, cells, i) = cells[i]
  BY DEF GetCell
<1>2. cells = [i \in DOMAIN cells |-> cells[i]]
  BY SequenceIsList
<1> QED BY <1>1, <1>2, Zenon

\* The rows of the body are sequences: the header has the width of its first
\* row.
LEMMA BodyRowIsRow ==
    ASSUME NEW o, NEW t, IsTable(t), NEW b \in Nat, NEW k \in Nat, k > 0, o.span \in Nat,
           b + HeaderRows(o) + k - 1 <= Len(t)
    PROVE  IsSequence(BodyRow(o, t, b, k))
<1> DEFINE n == HeaderRows(o)
<1>1. n \in Nat /\ n >= 1
  BY DEF HeaderRows
<1>2. IsSequence(t) /\ Len(t) \in Nat /\ DOMAIN t = 1..Len(t) /\ \A r \in DOMAIN t : IsSequence(t[r])
  BY TableParts
<1> HIDE DEF n
<1>a. b + n + k - 1 <= Len(t)
  BY DEF n
<1>3. CASE k = 1
  <2> DEFINE h == Header(t, b, n)
  <2>1. b + 1 \in DOMAIN t
    BY <1>1, <1>2, <1>3, <1>a
  <2>2. IsSequence(t[b + 1]) /\ DOMAIN t[b + 1] = 1..Len(t[b + 1]) /\ Len(t[b + 1]) \in Nat
    BY <2>1, TableParts
  <2>3. h = [i \in DOMAIN t[b + 1] |-> Column(t, b, n, i)]
    BY DEF Header
  <2> HIDE DEF h
  <2>4. DOMAIN h = 1..Len(t[b + 1])
    BY <2>2, <2>3
  <2>5. h = [i \in 1..Len(t[b + 1]) |-> h[i]]
    BY <2>2, <2>3
  <2>6. IsSequence(h)
    BY <2>2, <2>5, ListIsSequence
  <2> QED BY <1>3, <2>6 DEF BodyRow, h, n
<1>4. CASE k # 1
  <2>1. b + n + k - 1 \in DOMAIN t
    BY <1>1, <1>2, <1>4, <1>a
  <2> QED BY <1>2, <1>4, <2>1 DEF BodyRow, n
<1> QED BY <1>3, <1>4

\* A scanner whose next call of the caller's handler is with the right row:
\* p rows have been read before it, the body starts after row b.
CallIsDue(s, seen, p, b, cells) ==
  LET o == s.opts
      t == s.table
      n == HeaderRows(o)
  IN  /\ IsTable(t) /\ IsOverwrites(s.orig) /\ p \in Nat /\ p + 1 <= Len(t) /\ b \in 0..p
      /\ s.handler = "caller" /\ s.collate = <<>>
      /\ BodyFrom(o, t, b) /\ p - b >= n - 1 /\ Len(seen) = p - b - n + 1
      /\ \A k \in DOMAIN seen : Shown(s, k, seen[k].cells, BodyRow(o, t, b, k))
      /\ cells = BodyRow(o, t, b, Len(seen) + 1)
      /\ s.orig = <<>> => ~s.have /\ ~s.overwrites /\ s.over = <<>>
      /\ Laying(o) => /\ Cursor(s.over, s.orig, s.dataRow) /\ s.dataRow = Len(seen)
                      /\ s.overwrites = (s.over # <<>>) /\ s.have = (s.over # <<>>)

\* What the caller's handler leaves alone, and the cursor it leaves behind.
LEMMA CallerFields ==
    ASSUME NEW s, HasFields(s), NEW cells, NEW aborts
    PROVE  /\ \A f \in {"pc", "opts", "table", "next", "ignore", "keep", "span", "fixed", "collate",
                        "orig", "cum", "stat", "dataRow", "handler"} : Caller(s, cells, aborts)[f] = s[f]
           /\ Caller(s, cells, aborts).over =
                IF s.overwrites /\ cells # <<>> THEN Ahead(s.over, s.dataRow, Len(cells) - 1) ELSE s.over
           /\ Caller(s, cells, aborts).have = (s.have /\ Caller(s, cells, aborts).over # <<>>)
           /\ Caller(s, cells, aborts).overwrites =
                (s.overwrites /\ Caller(s, cells, aborts).over # <<>>)
<1> DEFINE over == IF s.overwrites /\ cells # <<>> THEN Ahead(s.over, s.dataRow, Len(cells) - 1) ELSE s.over
           have == s.have /\ over # <<>>
           overwrites == s.overwrites /\ over # <<>>
           abort == s.abort \/ aborts
           asked == IF aborts /\ s.asked = 0 THEN Len(out) + 1 ELSE s.asked
           s1 == Caller(s, cells, aborts)
<1>1. s1 = [s EXCEPT !.over = over, !.have = have, !.overwrites = overwrites, !.abort = abort, !.asked = asked]
  BY DEF Caller
<1> HIDE DEF over, have, overwrites, abort, asked, s1
<1>2. s1.over = over /\ s1.have = have /\ s1.overwrites = overwrites
  BY <1>1 DEF HasFields
<1>3. \A f \in {"pc", "opts", "table", "next", "ignore", "keep", "span", "fixed", "collate",
                "orig", "cum", "stat", "dataRow", "handler"} : s1[f] = s[f]
  BY <1>1 DEF HasFields
<1> QED BY <1>2, <1>3 DEF over, have, overwrites, s1

\* After a row without cells the cursor is where the next row needs it.
LEMMA CursorStays ==
    ASSUME NEW over, NEW ow, IsOverwrites(ow), NEW row \in Nat, Cursor(over, ow, row)
    PROVE  Cursor(over, ow, row + 1)
<1>1. PICK m \in 0..Len(ow) : over = SubSeq(ow, m + 1, Len(ow)) /\ \A k \in 1..m : ow[k].row < row
  BY DEF Cursor
<1>2. ow \in Seq(Range(ow))
  BY DEF IsOverwrites
<1>3. Len(ow) \in Nat /\ DOMAIN ow = 1..Len(ow)
  BY <1>2
<1>4. \A k \in 1..Len(ow) : ow[k].row \in Nat
  BY <1>3 DEF IsOverwrites
<1>5. \A k \in 1..m : ow[k].row < row + 1
  BY <1>1, <1>3, <1>4
<1> QED BY <1>1, <1>5 DEF Cursor

\* The caller's handler is called with the right row: the caller sees it with
\* its overwrites, and the next row is the next one's.
LEMMA CallerShows ==
    ASSUME NEW s, IsScanner(s), IsSequence(out), NEW p, NEW b, NEW cells,
           CallIsDue(s, out, p, b, cells), NEW aborts
    PROVE  TableAt(Caller(s, cells, aborts), CallerSaw(s, cells), p + 1)
<1> DEFINE s1 == Caller(s, cells, aborts)
           saw == CallerSaw(s, cells)
           c == [i \in DOMAIN cells |-> GetCell(s, cells, i)]
<1>0. PICK o, t, n, q : o = s.opts /\ t = s.table /\ n = HeaderRows(o) /\ q = Len(out) + 1
  OBVIOUS
<1>1. /\ IsTable(t) /\ IsOverwrites(s.orig) /\ p \in Nat /\ p + 1 <= Len(t) /\ b \in 0..p
      /\ s.handler = "caller" /\ s.collate = <<>>
      /\ BodyFrom(o, t, b) /\ p - b >= n - 1 /\ Len(out) = p - b - n + 1
      /\ \A k \in DOMAIN out : Shown(s, k, out[k].cells, BodyRow(o, t, b, k))
      /\ cells = BodyRow(o, t, b, q)
      /\ s.orig = <<>> => ~s.have /\ ~s.overwrites /\ s.over = <<>>
      /\ Laying(o) => /\ Cursor(s.over, s.orig, s.dataRow) /\ s.dataRow = Len(out)
                      /\ s.overwrites = (s.over # <<>>) /\ s.have = (s.over # <<>>)
  BY <1>0 DEF CallIsDue
<1>2. /\ HasFields(s) /\ s.dataRow \in Nat /\ o.span \in Nat /\ n \in Nat /\ n >= 1 /\ Len(out) \in Nat
      /\ q \in Nat /\ q > 0 /\ Len(t) \in Nat
  <2>1. HasFields(s) /\ s.dataRow \in Nat /\ o.span \in Nat
    BY <1>0 DEF IsScanner
  <2>2. n \in Nat /\ n >= 1
    BY <1>0, <2>1 DEF HeaderRows
  <2>3. Len(out) \in Nat /\ Len(t) \in Nat
    BY <1>1, TableParts, AppendIsSequence
  <2> QED BY <1>0, <2>1, <2>2, <2>3
<1>3. IsSequence(cells)
  <2>1. b + n + q - 1 <= Len(t) /\ b \in Nat
    BY <1>0, <1>1, <1>2
  <2>2. IsSequence(BodyRow(o, t, b, q))
    BY <1>0, <1>1, <1>2, <2>1, BodyRowIsRow
  <2> QED BY <1>1, <2>2
<1>4. /\ \A f \in {"opts", "table", "collate", "orig", "dataRow", "handler"} : s1[f] = s[f]
      /\ s1.over =
           IF s.overwrites /\ cells # <<>> THEN Ahead(s.over, s.dataRow, Len(cells) - 1) ELSE s.over
      /\ s1.have = (s.have /\ s1.over # <<>>)
      /\ s1.overwrites = (s.overwrites /\ s1.over # <<>>)
  BY <1>2, CallerFields
<1>5. Shown(s, q, c, cells)
  <2>1. CASE Laying(o)
    <3>1. c = Laid(cells, s.orig, s.dataRow)
      BY <1>1, <1>2, <1>3, <2>1, CellsAreLaid
    <3>2. s.dataRow = q - 1
      BY <1>0, <1>1, <1>2, <2>1
    <3> HIDE DEF c
    <3> QED BY <1>0, <2>1, <3>1, <3>2 DEF Shown
  <2>2. CASE ~Laying(o)
    <3>1. s.orig = <<>> => c = cells
      BY <1>1, <1>3, CellsAreThose
    <3> HIDE DEF c
    <3> QED BY <1>0, <2>2, <3>1 DEF Shown
  <2> QED BY <2>1, <2>2
<1> DEFINE e == [row |-> s.dataRow, cells |-> c]
<1>6. saw = Append(out, e) /\ e.cells = c
  BY DEF CallerSaw
<1> HIDE DEF c, e, s1, saw
<1>7. /\ Len(saw) = q /\ DOMAIN saw = 1..q /\ saw[q] = e
      /\ \A k \in DOMAIN out : saw[k] = out[k]
      /\ DOMAIN out = 1..(q - 1)
  BY <1>0, <1>2, <1>6, AppendIsSequence
<1>8. \A k \in DOMAIN saw : Shown(s1, k, saw[k].cells, BodyRow(o, t, b, k))
  <2> SUFFICES ASSUME NEW k \in 1..q PROVE Shown(s1, k, saw[k].cells, BodyRow(o, t, b, k))
    BY <1>7
  <2>1. Shown(s, k, saw[k].cells, BodyRow(o, t, b, k))
    <3>1. CASE k = q
      BY <1>1, <1>5, <1>6, <1>7, <3>1
    <3>2. CASE k # q
      <4>1. k \in DOMAIN out
        BY <1>2, <1>7, <3>2
      <4> QED BY <1>1, <1>7, <4>1
    <3> QED BY <3>1, <3>2
  <2>2. s1.opts = s.opts /\ s1.orig = s.orig
    BY <1>4
  <2> QED BY <2>1, <2>2 DEF Shown
<1>9. Overlaying(s1, saw)
  <2>1. s1.orig = <<>> => ~s1.have /\ ~s1.overwrites /\ s1.over = <<>>
    BY <1>1, <1>4
  <2>2. ASSUME Laying(o)
        PROVE  /\ Cursor(s1.over, s1.orig, q) /\ s1.overwrites = (s1.over # <<>>)
               /\ s1.have = (s1.over # <<>>)
    <3>1. /\ Cursor(s.over, s.orig, s.dataRow) /\ s.dataRow + 1 = q
          /\ s.overwrites = (s.over # <<>>) /\ s.have = (s.over # <<>>)
      BY <1>0, <1>1, <1>2, <2>2
    <3>2. CASE s.overwrites /\ cells # <<>>
      <4>1. PICK col : col = Len(cells) - 1
        OBVIOUS
      <4>2. col \in Nat
        <5>1. Len(cells) \in Nat /\ Len(cells) # 0
          BY <1>3, <3>2 DEF IsSequence
        <5> QED BY <4>1, <5>1
      <4>3. Cursor(Ahead(s.over, s.dataRow, col), s.orig, s.dataRow + 1)
        BY <1>1, <1>2, <3>1, <4>2, CursorStands
      <4>4. s1.over = Ahead(s.over, s.dataRow, col)
        BY <1>4, <3>2, <4>1
      <4>5. Cursor(s1.over, s1.orig, q)
        BY <1>4, <3>1, <4>3, <4>4
      <4> QED BY <1>4, <3>1, <3>2, <4>5
    <3>3. CASE ~(s.overwrites /\ cells # <<>>)
      <4>1. s1.over = s.over
        BY <1>4, <3>3
      <4>2. Cursor(s.over, s.orig, s.dataRow + 1)
        BY <1>1, <1>2, <3>1, CursorStays
      <4>3. Cursor(s1.over, s1.orig, q)
        BY <1>4, <3>1, <4>1, <4>2
      <4> QED BY <1>4, <3>1, <4>1, <4>3
    <3> QED BY <3>2, <3>3
  <2>3. s1.opts = o /\ s1.handler = "caller"
    BY <1>0, <1>1, <1>4
  <2> QED BY <1>7, <2>1, <2>2, <2>3 DEF Overlaying
<1>10. /\ s1.opts = o /\ s1.table = t /\ s1.orig = s.orig /\ s1.handler = "caller" /\ s1.collate = <<>>
  BY <1>0, <1>1, <1>4
<1>11. /\ p + 1 \in 0..Len(t) /\ b \in 0..(p + 1) /\ (p + 1) - b >= n - 1
       /\ n > 1 => (p + 1) - b >= n
       /\ Len(saw) = (p + 1) - b - n + 1
  <2>1. p \in Nat /\ p + 1 <= Len(t) /\ b \in 0..p /\ p - b >= n - 1 /\ Len(out) = p - b - n + 1
    BY <1>1
  <2>2. q = Len(out) + 1 /\ Len(saw) = q
    BY <1>0, <1>7
  <2>3. p + 1 \in 0..Len(t) /\ b \in 0..(p + 1) /\ (p + 1) - b >= n - 1 /\ (p + 1) - b >= n
    BY <1>2, <2>1
  <2>4. Len(saw) = (p + 1) - b - n + 1
    BY <1>2, <2>1, <2>2
  <2> QED BY <2>3, <2>4
<1>12. TableAt(s1, saw, p + 1)
  BY <1>0, <1>1, <1>8, <1>9, <1>10, <1>11 DEF TableAt
<1> QED BY <1>12 DEF s1, saw

-----------------------------------------------------------------------------
(* The header *)

\* set_callbacks: the overwrites are laid over the cells as soon as the
\* caller's handler is the next one, if there are any.
LEMMA SetCallbacksOverwrites ==
    ASSUME NEW s, IsScanner(s)
    PROVE  SetCallbacks(s).overwrites =
             IF SetCallbacks(s).handler = "caller" THEN s.have ELSE s.overwrites
BY DEF IsScanner, HasFields, SetCallbacks

\* The cursor before the first row of the caller.
LEMMA FreshCursor ==
    ASSUME NEW ow, IsOverwrites(ow)
    PROVE  Cursor(ow, ow, 0)
<1>1. ow \in Seq(Range(ow))
  BY DEF IsOverwrites
<1>2. SubSeq(ow, 1, Len(ow)) = ow
  BY <1>1, SubSeqFull
<1>3. Len(ow) \in Nat
  BY <1>1
<1>4. SubSeq(ow, 0 + 1, Len(ow)) = ow /\ 0 \in 0..Len(ow) /\ \A k \in 1..0 : ow[k].row < 0
  BY <1>2, <1>3
<1> QED BY <1>4, Zenon DEF Cursor

\* A column of the header has the cell of its first row.
LEMMA ColumnOfOne ==
    ASSUME NEW t, NEW b, NEW i \in DOMAIN t[b + 1]
    PROVE  Column(t, b, 1, i) = t[b + 1][i]
<1> DEFINE f == [k \in 1..1 |-> IF i \in DOMAIN t[b + k] THEN t[b + k][i] ELSE Blank]
<1>1. f = [k \in 1..1 |-> f[k]] /\ 1 \in Nat
  OBVIOUS
<1>2. f[1] = t[b + 1][i]
  OBVIOUS
<1>3. Column(t, b, 1, i) = FlattenSeq(f)
  BY DEF Column
<1> HIDE DEF f
<1>4. Len(f) = 1
  BY <1>1, ListIsSequence
<1>5. FlattenSeq(f) = f[1]
  BY <1>4, FlattenOne
<1> QED BY <1>2, <1>3, <1>5

\* With another row it has that row's cell too.
LEMMA ColumnOfMore ==
    ASSUME NEW t, NEW b, NEW m \in Nat, m > 0, NEW i
    PROVE  Column(t, b, m + 1, i) =
             Column(t, b, m, i) \o (IF i \in DOMAIN t[b + (m + 1)] THEN t[b + (m + 1)][i] ELSE Blank)
<1> DEFINE cell(k) == IF i \in DOMAIN t[b + k] THEN t[b + k][i] ELSE Blank
           f == [k \in 1..m |-> cell(k)]
           g == [k \in 1..(m + 1) |-> cell(k)]
<1>1. Column(t, b, m, i) = FlattenSeq(f) /\ Column(t, b, m + 1, i) = FlattenSeq(g)
  BY DEF Column
<1> HIDE DEF cell
<1>2. f = [k \in 1..m |-> f[k]] /\ g = [k \in 1..(m + 1) |-> g[k]] /\ m + 1 \in Nat
  OBVIOUS
<1>3. (\A k \in 1..m : g[k] = f[k]) /\ g[m + 1] = cell(m + 1)
  OBVIOUS
<1> HIDE DEF f, g
<1>4. Len(f) = m /\ Len(g) = m + 1
  BY <1>2, ListIsSequence
<1>5. FlattenSeq(g) = FlattenSeq(f) \o g[m + 1]
  BY <1>3, <1>4, FlattenMore
<1> QED BY <1>1, <1>3, <1>5 DEF cell

\* collate_header_append: one row more in the header.
LEMMA HeaderGrows ==
    ASSUME NEW t, IsTable(t), NEW b \in Nat, NEW m \in Nat, b + (m + 1) <= Len(t)
    PROVE  Collate(IF m = 0 THEN <<>> ELSE <<Header(t, b, m)>>, t[b + (m + 1)]) =
             <<Header(t, b, m + 1)>>
<1>1. /\ \A r \in DOMAIN t : IsSequence(t[r])
      /\ b + 1 \in DOMAIN t /\ b + (m + 1) \in DOMAIN t
  BY TableParts
<1>2. CASE m = 0
  <2>1. b + (m + 1) = b + 1 /\ m + 1 = 1
    BY <1>2
  <2>2. Collate(<<>>, t[b + 1]) = <<t[b + 1]>>
    BY DEF Collate
  <2>3. t[b + 1] = [i \in DOMAIN t[b + 1] |-> t[b + 1][i]]
    BY <1>1, SequenceIsList
  <2>4. Header(t, b, 1) = [i \in DOMAIN t[b + 1] |-> t[b + 1][i]]
    BY ColumnOfOne DEF Header
  <2>5. Header(t, b, 1) = t[b + 1]
    BY <2>3, <2>4, Zenon
  <2> QED BY <1>2, <2>1, <2>2, <2>5
<1>3. CASE m > 0
  <2> DEFINE h == Header(t, b, m)
             cells == t[b + (m + 1)]
             more(i) == IF i \in DOMAIN cells THEN cells[i] ELSE Blank
  <2>1. h = [i \in DOMAIN t[b + 1] |-> Column(t, b, m, i)]
    BY DEF Header
  <2>2. Header(t, b, m + 1) = [i \in DOMAIN t[b + 1] |-> Column(t, b, m + 1, i)]
    BY DEF Header
  <2>3. \A i : Column(t, b, m + 1, i) = Column(t, b, m, i) \o more(i)
    BY <1>3, ColumnOfMore
  <2>4. Collate(<<h>>, cells) = <<[i \in DOMAIN h |-> h[i] \o more(i)]>>
    <3> HIDE DEF h
    <3>1. <<h>> # <<>> /\ <<h>>[1] = h
      OBVIOUS
    <3> QED BY <3>1 DEF Collate
  <2> HIDE DEF h, more
  <2>5. DOMAIN h = DOMAIN t[b + 1] /\ \A i \in DOMAIN h : h[i] = Column(t, b, m, i)
    BY <2>1
  <2>6. [i \in DOMAIN h |-> h[i] \o more(i)] = Header(t, b, m + 1)
    BY <2>2, <2>3, <2>5
  <2>7. m # 0
    BY <1>3
  <2> QED BY <2>4, <2>6, <2>7 DEF h
<1> QED BY <1>2, <1>3

\* collate_header_row: the row joins the header, or completes it and the caller
\* sees it.
LEMMA CollateTakes ==
    ASSUME NEW s, IsScanner(s), HandlerInv(s), s.handler = "collate_header_row", IsSequence(out),
           NEW p \in Nat, TableAt(s, out, p), p + 1 <= Len(s.table), NEW aborts
    PROVE  TableAt(CollateHeaderRow(s, s.table[p + 1], aborts).s,
                   CollateHeaderRow(s, s.table[p + 1], aborts).out, p + 1)
<1>0. PICK o, t, n, cells, collate :
        /\ o = s.opts /\ t = s.table /\ n = HeaderRows(o) /\ cells = t[p + 1]
        /\ collate = Collate(s.collate, cells)
  OBVIOUS
<1>1. /\ IsTable(t) /\ IsOverwrites(s.orig) /\ p \in 0..Len(t) /\ Overlaying(s, out)
      /\ \E b \in 0..p :
           /\ BodyFrom(o, t, b) /\ o.span > 1 /\ s.span = o.span - (p - b) /\ s.span >= 1
           /\ out = <<>>
           /\ s.collate = IF p = b THEN <<>> ELSE <<Header(t, b, p - b)>>
  BY <1>0 DEF TableAt
<1>2. PICK b \in 0..p :
           /\ BodyFrom(o, t, b) /\ o.span > 1 /\ s.span = o.span - (p - b) /\ s.span >= 1
           /\ out = <<>>
           /\ s.collate = IF p = b THEN <<>> ELSE <<Header(t, b, p - b)>>
  BY <1>1
<1>3. PICK m : m = p - b
  OBVIOUS
<1>4. m \in Nat /\ b \in Nat /\ b + (m + 1) = p + 1 /\ (m = 0 <=> p = b)
  BY <1>2, <1>3
<1>5. HasFields(s) /\ o.span \in Nat /\ n = o.span /\ Len(t) \in Nat /\ p + 1 <= Len(t)
  <2>1. HasFields(s) /\ o.span \in Nat
    BY <1>0 DEF IsScanner
  <2>2. n = o.span
    BY <1>0, <1>2 DEF HeaderRows
  <2> QED BY <1>0, <1>1, <2>1, <2>2, TableParts
<1>6. collate = <<Header(t, b, m + 1)>>
  <2>1. s.collate = IF m = 0 THEN <<>> ELSE <<Header(t, b, m)>>
    BY <1>2, <1>3, <1>4
  <2>2. cells = t[b + (m + 1)] /\ b + (m + 1) <= Len(t)
    BY <1>0, <1>4, <1>5
  <2>3. Collate(IF m = 0 THEN <<>> ELSE <<Header(t, b, m)>>, t[b + (m + 1)]) = <<Header(t, b, m + 1)>>
    BY <1>1, <1>4, <2>2, HeaderGrows
  <2> QED BY <1>0, <2>1, <2>2, <2>3
<1> DEFINE x == [s EXCEPT !.span = @ - 1]
           s1 == [s EXCEPT !.span = @ - 1, !.collate = collate]
           s2 == [SetCallbacks(s1) EXCEPT !.collate = <<>>]
<1>7. /\ HasFields(s1) /\ s1.span = s.span - 1 /\ s1.collate = collate
      /\ \A f \in {"pc", "opts", "table", "next", "ignore", "keep", "fixed", "handler", "have", "over",
                   "overwrites", "orig", "cum", "stat", "dataRow", "abort", "asked"} : s1[f] = s[f]
  <2>1. /\ HasFields(x) /\ x.span = s.span - 1
        /\ \A f \in {"pc", "opts", "table", "next", "ignore", "keep", "fixed", "handler", "have", "over",
                     "overwrites", "orig", "cum", "stat", "dataRow", "abort", "asked"} : x[f] = s[f]
    BY <1>5 DEF HasFields
  <2>2. s1 = [x EXCEPT !.collate = collate]
    OBVIOUS
  <2> HIDE DEF x, s1
  <2>3. /\ HasFields(s1) /\ s1.collate = collate
        /\ \A f \in {"pc", "opts", "table", "next", "ignore", "keep", "fixed", "handler", "have", "over",
                     "overwrites", "orig", "cum", "stat", "dataRow", "abort", "asked", "span"} :
             s1[f] = x[f]
    BY <2>1, <2>2 DEF HasFields
  <2> QED BY <2>1, <2>3
<1>8. CollateHeaderRow(s, s.table[p + 1], aborts) =
        IF s1.span > 0 THEN [s |-> s1, out |-> out] ELSE CallCaller(s2, s1.collate[1], aborts)
  BY <1>0 DEF CollateHeaderRow
<1> HIDE DEF s1
<1>9. IsScanner(s1)
  <2>1. /\ s.opts \in [ignore : Nat, keep : BOOLEAN, span : Nat, fixed : BOOLEAN, max : Nat, interval : Nat]
        /\ s.ignore \in Int /\ s.span \in Int /\ s.keep \in BOOLEAN /\ s.fixed = s.opts.fixed
        /\ s.abort \in BOOLEAN /\ s.dataRow \in Nat /\ s.cum \in Nat /\ s.asked \in Nat
    BY DEF IsScanner
  <2>2. s1.span \in Int
    BY <1>7, <2>1
  <2> QED BY <1>7, <2>1, <2>2 DEF IsScanner
<1>10. CASE s1.span > 0
  <2>1. Overlaying(s1, out)
    BY <1>1, <1>7 DEF Overlaying
  <2>2. /\ b \in 0..(p + 1) /\ s1.span = o.span - ((p + 1) - b) /\ s1.span >= 1
        /\ s1.collate = IF p + 1 = b THEN <<>> ELSE <<Header(t, b, (p + 1) - b)>>
    <3>1. s1.span = s.span - 1 /\ s.span = o.span - (p - b) /\ s1.collate = collate
      BY <1>2, <1>7
    <3>2. (p + 1) - b = m + 1 /\ p + 1 # b
      BY <1>2, <1>3, <1>4
    <3>3. s1.span = o.span - ((p + 1) - b)
      BY <1>2, <1>5, <3>1
    <3>4. s1.span >= 1 /\ b \in 0..(p + 1)
      BY <1>2, <1>5, <1>10, <3>3
    <3> QED BY <1>6, <3>1, <3>2, <3>3, <3>4
  <2>3. /\ s1.opts = o /\ s1.table = t /\ s1.orig = s.orig /\ s1.handler = "collate_header_row"
        /\ p + 1 \in 0..Len(t)
    BY <1>0, <1>5, <1>7
  <2>4. TableAt(s1, out, p + 1)
    BY <1>0, <1>1, <1>2, <2>1, <2>2, <2>3 DEF TableAt
  <2> QED BY <1>8, <1>10, <2>4
<1>11. CASE ~(s1.span > 0)
  <2> DEFINE y == SetCallbacks(s1)
  <2>1. /\ IsScanner(y) /\ y.handler = "caller" /\ y.dataRow = 0 /\ y.overwrites = s.have
        /\ \A f \in {"opts", "table", "have", "over", "orig"} : y[f] = s[f]
    <3>1. ~(s1.ignore > 0) /\ (s1.fixed \/ s1.keep) /\ ~(s1.span > 1)
      BY <1>7, <1>9, <1>11 DEF HandlerInv, IsScanner
    <3>2. y.handler = "caller"
      BY <1>9, <3>1, SetCallbacksHandler
    <3>3. y.overwrites = s1.have
      BY <1>9, <3>2, SetCallbacksOverwrites
    <3> QED BY <1>7, <1>9, <3>2, <3>3, SetCallbacksHandler
  <2> HIDE DEF y
  <2>2. s2 = [y EXCEPT !.collate = <<>>]
    BY DEF y
  <2> HIDE DEF s2
  <2>3. /\ HasFields(s2) /\ s2.collate = <<>>
        /\ \A f \in {"pc", "opts", "table", "next", "ignore", "keep", "fixed", "handler", "have", "over",
                     "overwrites", "orig", "cum", "stat", "dataRow", "abort", "asked", "span"} :
             s2[f] = y[f]
    BY <2>1, <2>2 DEF HasFields, IsScanner
  <2>4. IsScanner(s2)
    BY <2>1, <2>3 DEF IsScanner
  <2>5. p - b = n - 1 /\ m + 1 = n
    <3>1. s1.span = s.span - 1 /\ s1.span \in Int /\ s.span \in Int
      BY <1>7, <1>9 DEF IsScanner
    <3>2. s.span = 1
      BY <1>2, <1>11, <3>1
    <3> QED BY <1>2, <1>3, <1>5, <3>2
  <2>6. s1.collate[1] = BodyRow(o, t, b, 1)
    <3>1. s1.collate[1] = Header(t, b, n)
      BY <1>6, <1>7, <2>5
    <3> QED BY <1>0, <3>1 DEF BodyRow
  <2>7. Len(out) = 0 /\ DOMAIN out = {}
    BY <1>2
  <2>8. /\ s.orig = <<>> => ~s.have /\ s.over = <<>>
        /\ Laying(o) => s.over = s.orig /\ s.have = (s.orig # <<>>)
    BY <1>0, <1>1 DEF Overlaying
  <2>9. /\ s2.opts = o /\ s2.table = t /\ s2.orig = s.orig /\ s2.handler = "caller" /\ s2.dataRow = 0
        /\ s2.overwrites = s.have /\ s2.have = s.have /\ s2.over = s.over
    BY <1>0, <2>1, <2>3
  <2>10. Laying(o) => /\ Cursor(s2.over, s2.orig, s2.dataRow) /\ s2.dataRow = Len(out)
                      /\ s2.overwrites = (s2.over # <<>>) /\ s2.have = (s2.over # <<>>)
    <3> SUFFICES ASSUME Laying(o)
                 PROVE  /\ Cursor(s2.over, s2.orig, s2.dataRow) /\ s2.dataRow = Len(out)
                        /\ s2.overwrites = (s2.over # <<>>) /\ s2.have = (s2.over # <<>>)
      OBVIOUS
    <3>1. Cursor(s.orig, s.orig, 0)
      BY <1>1, FreshCursor
    <3>2. Cursor(s2.over, s2.orig, s2.dataRow)
      BY <2>8, <2>9, <3>1
    <3> QED BY <2>7, <2>8, <2>9, <3>2
  <2>11. CallIsDue(s2, out, p, b, s1.collate[1])
    <3>1. p - b >= n - 1 /\ Len(out) = p - b - n + 1 /\ Len(out) + 1 = 1
      <4>1. p - b \in Int /\ n \in Int
        BY <1>2, <1>5
      <4> QED BY <2>5, <2>7, <4>1
    <3>2. \A k \in DOMAIN out : Shown(s2, k, out[k].cells, BodyRow(o, t, b, k))
      BY <2>7
    <3>3. s2.orig = <<>> => ~s2.have /\ ~s2.overwrites /\ s2.over = <<>>
      BY <2>8, <2>9
    <3> QED BY <1>0, <1>1, <1>2, <1>5, <2>3, <2>6, <2>9, <2>10, <3>1, <3>2, <3>3 DEF CallIsDue
  <2>12. TableAt(Caller(s2, s1.collate[1], aborts), CallerSaw(s2, s1.collate[1]), p + 1)
    BY <2>4, <2>11, CallerShows
  <2> QED BY <1>8, <1>11, <2>12 DEF CallCaller
<1> QED BY <1>10, <1>11

\* A header of one row is that row.
LEMMA HeaderOfOne ==
    ASSUME NEW t, IsTable(t), NEW b \in Nat, b + 1 <= Len(t)
    PROVE  Header(t, b, 1) = t[b + 1]
<1>1. b + 1 \in DOMAIN t
  BY TableParts
<1>2. t[b + 1] = [i \in DOMAIN t[b + 1] |-> t[b + 1][i]]
  BY <1>1, TableParts, SequenceIsList
<1>3. Header(t, b, 1) = [i \in DOMAIN t[b + 1] |-> t[b + 1][i]]
  BY ColumnOfOne DEF Header
<1> QED BY <1>2, <1>3, Zenon

\* skip_to_first_row_w_data: a blank row is passed over; the first row with
\* data is the first of the body.
LEMMA SkipTakes ==
    ASSUME NEW s, IsScanner(s), HandlerInv(s), s.handler = "skip_to_first_row_w_data",
           IsSequence(out), NEW p \in Nat, TableAt(s, out, p), p + 1 <= Len(s.table), NEW aborts
    PROVE  TableAt(SkipToFirstRowWithData(s, s.table[p + 1], aborts).s,
                   SkipToFirstRowWithData(s, s.table[p + 1], aborts).out, p + 1)
<1>0. PICK o, t, n, cells :
        o = s.opts /\ t = s.table /\ n = HeaderRows(o) /\ cells = t[p + 1]
  OBVIOUS
<1>1. /\ IsTable(t) /\ IsOverwrites(s.orig) /\ p \in 0..Len(t) /\ Overlaying(s, out)
      /\ o.ignore <= p /\ Laying(o) /\ s.span = o.span /\ out = <<>> /\ s.collate = <<>>
      /\ \A i \in (o.ignore + 1)..p : IsBlank(t[i])
  BY <1>0 DEF TableAt
<1>2. /\ HasFields(s) /\ o.span \in Nat /\ o.ignore \in Nat /\ Len(t) \in Nat /\ p + 1 <= Len(t)
      /\ Len(out) = 0 /\ DOMAIN out = {}
  <2>1. HasFields(s) /\ o.span \in Nat /\ o.ignore \in Nat
    BY <1>0 DEF IsScanner
  <2> QED BY <1>0, <1>1, <2>1, TableParts
<1> DEFINE x == [s EXCEPT !.keep = TRUE]
           y == SetCallbacks(x)
<1>3. SkipToFirstRowWithData(s, cells, aborts) =
        IF IsBlank(cells) THEN [s |-> s, out |-> out]
        ELSE IF y.handler = "collate_header_row" THEN CollateHeaderRow(y, cells, aborts)
        ELSE CallCaller(y, cells, aborts)
  BY DEF SkipToFirstRowWithData
<1>4. /\ HasFields(x) /\ x.keep = TRUE
      /\ \A f \in {"pc", "opts", "table", "next", "ignore", "span", "fixed", "handler", "have", "over",
                   "overwrites", "orig", "cum", "stat", "dataRow", "abort", "asked", "collate"} :
           x[f] = s[f]
  <2>1. \A v : LET w == [s EXCEPT !.keep = v] IN HasFields(w) /\ w.keep = v
    BY <1>2 DEF HasFields
  <2>2. \A f \in {"pc", "opts", "table", "next", "ignore", "span", "fixed", "handler", "have", "over",
                   "overwrites", "orig", "cum", "stat", "dataRow", "abort", "asked", "collate"} :
           x[f] = s[f]
    BY <1>2 DEF HasFields
  <2> QED BY <2>1, <2>2
<1> HIDE DEF x
<1>5. IsScanner(x)
  BY <1>4 DEF IsScanner
<1>6. /\ IsScanner(y)
      /\ y.handler = IF s.span > 1 THEN "collate_header_row" ELSE "caller"
      /\ \A f \in {"opts", "table", "collate", "have", "over", "orig", "span", "ignore", "fixed"} :
           y[f] = s[f]
      /\ y.keep = TRUE
      /\ y.handler = "caller" => y.dataRow = 0 /\ y.overwrites = s.have
      /\ y.handler # "caller" => y.overwrites = s.overwrites
  <2>1. ~(x.ignore > 0)
    <3>1. s.ignore <= 0 /\ s.ignore \in Int
      BY DEF HandlerInv, IsScanner
    <3> QED BY <1>4, <3>1
  <2>2. y.handler = IF s.span > 1 THEN "collate_header_row" ELSE "caller"
    BY <1>4, <1>5, <2>1, SetCallbacksHandler
  <2>3. /\ IsScanner(y) /\ y.handler = "caller" => y.dataRow = 0
        /\ \A f \in {"opts", "table", "collate", "have", "over", "orig", "span", "ignore", "fixed", "keep"} :
             y[f] = x[f]
    BY <1>5, SetCallbacksHandler
  <2>4. y.overwrites = IF y.handler = "caller" THEN x.have ELSE x.overwrites
    BY <1>5, SetCallbacksOverwrites
  <2>5. IsScanner(y)
    BY <1>5, SetCallbacksHandler
  <2> HIDE DEF y
  <2> QED BY <1>4, <2>2, <2>3, <2>4, <2>5
<1> HIDE DEF y
<1>7. s.table[p + 1] = cells
  BY <1>0
<1>8. /\ s.orig = <<>> => ~s.have /\ ~s.overwrites /\ s.over = <<>>
      /\ s.over = s.orig /\ s.have = (s.orig # <<>>)
  BY <1>0, <1>1 DEF Overlaying
<1>9. CASE IsBlank(cells)
  <2>1. ASSUME NEW i \in (o.ignore + 1)..(p + 1) PROVE IsBlank(t[i])
    <3>1. i = p + 1 \/ i \in (o.ignore + 1)..p
      BY <1>2
    <3> QED BY <1>0, <1>1, <1>9, <3>1
  <2>2. p + 1 \in 0..Len(t) /\ o.ignore <= p + 1
    BY <1>1, <1>2
  <2>3. TableAt(s, out, p + 1)
    BY <1>0, <1>1, <2>1, <2>2 DEF TableAt
  <2> QED BY <1>3, <1>7, <1>9, <2>3
<1>10. CASE ~IsBlank(cells)
  <2>1. BodyFrom(o, t, p)
    BY <1>0, <1>1, <1>2, <1>10 DEF BodyFrom
  <2>2. /\ y.opts = o /\ y.table = t /\ y.orig = s.orig /\ y.collate = <<>> /\ y.span = o.span
        /\ y.over = s.over /\ y.have = s.have
    BY <1>0, <1>1, <1>6
  <2>3. CASE y.handler = "collate_header_row"
    <3>1. o.span > 1
      BY <1>1, <1>6, <2>3
    <3>2. HandlerInv(y)
      BY <1>6, <2>3 DEF HandlerInv
    <3>3. Overlaying(y, out)
      <4>1. ~(y.handler = "caller") /\ y.overwrites = s.overwrites
        BY <1>6, <2>3
      <4> QED BY <1>8, <2>2, <4>1 DEF Overlaying
    <3>4. /\ p \in 0..p /\ y.span = o.span - (p - p) /\ y.span >= 1
          /\ y.collate = IF p = p THEN <<>> ELSE <<Header(t, p, p - p)>>
      BY <1>2, <2>2, <3>1
    <3>5. TableAt(y, out, p)
      BY <1>1, <2>1, <2>2, <2>3, <3>1, <3>3, <3>4 DEF TableAt
    <3>6. TableAt(CollateHeaderRow(y, y.table[p + 1], aborts).s,
                  CollateHeaderRow(y, y.table[p + 1], aborts).out, p + 1)
      BY <1>2, <1>6, <2>2, <2>3, <3>2, <3>5, CollateTakes
    <3>7. y.table[p + 1] = cells
      BY <1>0, <2>2
    <3> QED BY <1>3, <1>7, <1>10, <2>3, <3>6, <3>7
  <2>4. CASE y.handler # "collate_header_row"
    <3>1. y.handler = "caller" /\ n = 1 /\ y.dataRow = 0 /\ y.overwrites = s.have
      <4>1. y.handler = "caller" /\ ~(o.span > 1)
        BY <1>1, <1>6, <2>4
      <4> QED BY <1>0, <1>6, <4>1 DEF HeaderRows
    <3>2. cells = BodyRow(o, t, p, 1)
      <4>1. Header(t, p, 1) = cells
        BY <1>0, <1>1, <1>2, HeaderOfOne
      <4> QED BY <1>0, <3>1, <4>1 DEF BodyRow
    <3>3. /\ Cursor(y.over, y.orig, y.dataRow) /\ y.dataRow = Len(out)
          /\ y.overwrites = (y.over # <<>>) /\ y.have = (y.over # <<>>)
      <4>1. Cursor(s.orig, s.orig, 0)
        BY <1>1, FreshCursor
      <4>2. Cursor(y.over, y.orig, y.dataRow)
        BY <1>8, <2>2, <3>1, <4>1
      <4> QED BY <1>2, <1>8, <2>2, <3>1, <4>2
    <3>4. CallIsDue(y, out, p, p, cells)
      <4>1. p \in 0..p /\ p - p >= n - 1 /\ Len(out) = p - p - n + 1 /\ Len(out) + 1 = 1
        BY <1>2, <3>1
      <4>2. \A k \in DOMAIN out : Shown(y, k, out[k].cells, BodyRow(o, t, p, k))
        BY <1>2
      <4>3. y.orig = <<>> => ~y.have /\ ~y.overwrites /\ y.over = <<>>
        BY <1>8, <2>2, <3>1
      <4> QED BY <1>0, <1>1, <1>2, <2>1, <2>2, <3>1, <3>2, <3>3, <4>1, <4>2, <4>3 DEF CallIsDue
    <3>5. TableAt(Caller(y, cells, aborts), CallerSaw(y, cells), p + 1)
      BY <1>6, <3>4, CallerShows
    <3> QED BY <1>3, <1>7, <1>10, <2>4, <3>5 DEF CallCaller
  <2> QED BY <2>3, <2>4
<1> QED BY <1>9, <1>10

\* ignore_header_rows: the row is one of the rows to pass over, or the last.
LEMMA IgnoreTakes ==
    ASSUME NEW s, IsScanner(s), HandlerInv(s), s.handler = "ignore_header_rows",
           NEW p \in Nat, TableAt(s, out, p), p + 1 <= Len(s.table)
    PROVE  TableAt(IgnoreHeaderRows(s).s, IgnoreHeaderRows(s).out, p + 1)
<1>0. PICK o, t, n : o = s.opts /\ t = s.table /\ n = HeaderRows(o)
  OBVIOUS
<1>1. /\ IsTable(t) /\ IsOverwrites(s.orig) /\ p \in 0..Len(t) /\ Overlaying(s, out)
      /\ p < o.ignore /\ s.ignore = o.ignore - p /\ s.span = o.span /\ out = <<>> /\ s.collate = <<>>
  BY <1>0 DEF TableAt
<1>2. /\ HasFields(s) /\ o.span \in Nat /\ o.ignore \in Nat /\ Len(t) \in Nat /\ p + 1 <= Len(t)
      /\ Len(out) = 0 /\ DOMAIN out = {} /\ p + 1 \in 0..Len(t)
      /\ s.keep = o.keep /\ s.fixed = o.fixed
  <2>1. HasFields(s) /\ o.span \in Nat /\ o.ignore \in Nat /\ s.fixed = o.fixed
    BY <1>0 DEF IsScanner
  <2>2. s.keep = o.keep
    BY <1>0 DEF HandlerInv
  <2> QED BY <1>0, <1>1, <2>1, <2>2, TableParts
<1> DEFINE x == [s EXCEPT !.ignore = @ - 1]
           y == SetCallbacks(x)
<1>3. IgnoreHeaderRows(s) = [s |-> IF x.ignore = 0 THEN y ELSE x, out |-> out]
  BY DEF IgnoreHeaderRows
<1>4. /\ HasFields(x) /\ x.ignore = s.ignore - 1
      /\ \A f \in {"pc", "opts", "table", "next", "keep", "span", "fixed", "handler", "have", "over",
                   "overwrites", "orig", "cum", "stat", "dataRow", "abort", "asked", "collate"} :
           x[f] = s[f]
  BY <1>2 DEF HasFields
<1> HIDE DEF x
<1>5. IsScanner(x)
  <2>1. /\ s.opts \in [ignore : Nat, keep : BOOLEAN, span : Nat, fixed : BOOLEAN, max : Nat, interval : Nat]
        /\ s.ignore \in Int /\ s.span \in Int /\ s.keep \in BOOLEAN /\ s.fixed = s.opts.fixed
        /\ s.abort \in BOOLEAN /\ s.dataRow \in Nat /\ s.cum \in Nat /\ s.asked \in Nat
    BY DEF IsScanner
  <2>2. x.ignore \in Int
    BY <1>4, <2>1
  <2> QED BY <1>4, <2>1, <2>2 DEF IsScanner
<1>6. /\ s.orig = <<>> => ~s.have /\ ~s.overwrites /\ s.over = <<>>
      /\ Laying(o) => s.over = s.orig /\ s.have = (s.orig # <<>>)
  BY <1>0, <1>1 DEF Overlaying
<1>7. CASE x.ignore # 0
  <2>1. p + 1 < o.ignore /\ x.ignore = o.ignore - (p + 1)
    BY <1>1, <1>2, <1>4, <1>7
  <2>2. Overlaying(x, out)
    BY <1>1, <1>4 DEF Overlaying
  <2>3. x.opts = o /\ x.table = t /\ x.orig = s.orig /\ x.collate = <<>> /\ x.span = o.span
        /\ x.handler = "ignore_header_rows"
    BY <1>0, <1>1, <1>4
  <2>4. TableAt(x, out, p + 1)
    BY <1>1, <1>2, <2>1, <2>2, <2>3 DEF TableAt
  <2> QED BY <1>3, <1>7, <2>4
<1>8. CASE x.ignore = 0
  <2>1. p + 1 = o.ignore /\ ~(x.ignore > 0)
    BY <1>1, <1>2, <1>4, <1>8
  <2>2. y.handler = IF Laying(o) THEN "skip_to_first_row_w_data"
                    ELSE IF o.span > 1 THEN "collate_header_row" ELSE "caller"
    <3>1. y.handler = IF ~x.fixed /\ ~x.keep THEN "skip_to_first_row_w_data"
                      ELSE IF x.span > 1 THEN "collate_header_row" ELSE "caller"
      BY <1>5, <2>1, SetCallbacksHandler
    <3>2. x.fixed = o.fixed /\ x.keep = o.keep /\ x.span = o.span
      BY <1>1, <1>2, <1>4
    <3> HIDE DEF y
    <3> QED BY <3>1, <3>2 DEF Laying
  <2>3. \A f \in {"opts", "table", "collate", "have", "over", "orig", "span"} : y[f] = s[f]
    <3>1. \A f \in {"opts", "table", "collate", "have", "over", "orig", "span"} : y[f] = x[f]
      BY <1>5, SetCallbacksHandler
    <3> HIDE DEF y
    <3> QED BY <1>4, <3>1
  <2>4. y.overwrites = IF y.handler = "caller" THEN s.have ELSE s.overwrites
    <3>1. y.overwrites = IF y.handler = "caller" THEN x.have ELSE x.overwrites
      BY <1>5, SetCallbacksOverwrites
    <3> HIDE DEF y
    <3> QED BY <1>4, <3>1
  <2> HIDE DEF y
  <2>5. /\ y.opts = o /\ y.table = t /\ y.orig = s.orig /\ y.collate = <<>> /\ y.span = o.span
        /\ y.over = s.over /\ y.have = s.have
    BY <1>0, <1>1, <2>3
  <2>6. Overlaying(y, out)
    <3>1. Laying(o) => y.handler # "caller"
      BY <2>2
    <3>2. y.orig = <<>> => ~y.have /\ ~y.overwrites /\ y.over = <<>>
      BY <1>6, <2>4, <2>5
    <3> QED BY <1>6, <2>5, <3>1, <3>2 DEF Overlaying
  <2>7. TableAt(y, out, p + 1)
    <3>1. CASE Laying(o)
      <4>1. y.handler = "skip_to_first_row_w_data" /\ o.ignore <= p + 1
            /\ \A i \in (o.ignore + 1)..(p + 1) : IsBlank(t[i])
        BY <1>2, <2>1, <2>2, <3>1
      <4> QED BY <1>1, <1>2, <2>5, <2>6, <3>1, <4>1 DEF TableAt
    <3>2. CASE ~Laying(o)
      <4>1. BodyFrom(o, t, p + 1)
        BY <1>2, <2>1, <3>2 DEF BodyFrom
      <4>2. p + 1 \in 0..(p + 1) /\ (p + 1) - (p + 1) = 0
        OBVIOUS
      <4>3. CASE o.span > 1
        <5>1. y.handler = "collate_header_row" /\ y.span = o.span - ((p + 1) - (p + 1)) /\ y.span >= 1
          BY <1>2, <2>2, <2>5, <3>2, <4>2, <4>3
        <5>2. y.collate = IF p + 1 = p + 1 THEN <<>> ELSE <<Header(t, p + 1, (p + 1) - (p + 1))>>
          BY <2>5
        <5>3. \E b \in 0..(p + 1) :
                /\ BodyFrom(o, t, b) /\ o.span > 1 /\ y.span = o.span - ((p + 1) - b) /\ y.span >= 1
                /\ out = <<>>
                /\ y.collate = IF p + 1 = b THEN <<>> ELSE <<Header(t, b, (p + 1) - b)>>
          BY <1>1, <4>1, <4>2, <4>3, <5>1, <5>2
        <5> QED BY <1>1, <1>2, <2>5, <2>6, <5>1, <5>3 DEF TableAt
      <4>4. CASE ~(o.span > 1)
        <5>1. y.handler = "caller" /\ n = 1
          BY <1>0, <2>2, <3>2, <4>4 DEF HeaderRows
        <5>2. \E b \in 0..(p + 1) :
                /\ BodyFrom(o, t, b) /\ (p + 1) - b >= n - 1 /\ (n > 1 => (p + 1) - b >= n)
                /\ Len(out) = (p + 1) - b - n + 1
                /\ \A k \in DOMAIN out : Shown(y, k, out[k].cells, BodyRow(o, t, b, k))
                /\ y.collate = <<>>
          <6>1. (p + 1) - (p + 1) >= n - 1 /\ ~(n > 1) /\ Len(out) = (p + 1) - (p + 1) - n + 1
            BY <1>2, <4>2, <5>1
          <6> QED BY <1>2, <2>5, <4>1, <4>2, <6>1
        <5> QED BY <1>0, <1>1, <1>2, <2>5, <2>6, <5>1, <5>2 DEF TableAt
      <4> QED BY <4>3, <4>4
    <3> QED BY <3>1, <3>2
  <2> QED BY <1>3, <1>8, <2>7
<1> QED BY <1>7, <1>8

\* A row for the caller's handler is the next of the body.
LEMMA CallerTakes ==
    ASSUME NEW s, IsScanner(s), s.handler = "caller", IsSequence(out),
           Laying(s.opts) => s.dataRow = Len(out),
           NEW p \in Nat, TableAt(s, out, p), p + 1 <= Len(s.table), NEW aborts
    PROVE  TableAt(Caller(s, s.table[p + 1], aborts), CallerSaw(s, s.table[p + 1]), p + 1)
<1>0. PICK o, t, n, cells :
        o = s.opts /\ t = s.table /\ n = HeaderRows(o) /\ cells = t[p + 1]
  OBVIOUS
<1>1. /\ IsTable(t) /\ IsOverwrites(s.orig) /\ p \in 0..Len(t) /\ Overlaying(s, out)
      /\ \E b \in 0..p :
             /\ BodyFrom(o, t, b) /\ p - b >= n - 1 /\ (n > 1 => p - b >= n)
             /\ Len(out) = p - b - n + 1
             /\ \A k \in DOMAIN out : Shown(s, k, out[k].cells, BodyRow(o, t, b, k))
             /\ s.collate = <<>>
  BY <1>0 DEF TableAt
<1>2. PICK b \in 0..p :
             /\ BodyFrom(o, t, b) /\ p - b >= n - 1 /\ (n > 1 => p - b >= n)
             /\ Len(out) = p - b - n + 1
             /\ \A k \in DOMAIN out : Shown(s, k, out[k].cells, BodyRow(o, t, b, k))
             /\ s.collate = <<>>
  BY <1>1
<1>3. /\ n \in Nat /\ n >= 1 /\ Len(t) \in Nat /\ p + 1 <= Len(t)
  <2>1. o.span \in Nat
    BY <1>0 DEF IsScanner
  <2> QED BY <1>0, <1>1, <2>1, TableParts DEF HeaderRows
<1>4. PICK q : q = Len(out) + 1
  OBVIOUS
<1>5. cells = BodyRow(o, t, b, q)
  <2>1. CASE q = 1
    <3>1. n = 1 /\ b = p
      <4>1. b \in 0..p /\ p - b >= n - 1 /\ (n > 1 => p - b >= n) /\ Len(out) = p - b - n + 1
        BY <1>2
      <4>2. p - b - n + 1 = 0
        <5>1. p - b - n + 1 \in Int
          BY <1>3, <4>1
        <5> QED BY <1>4, <2>1, <4>1, <5>1
      <4> QED BY <1>3, <4>1, <4>2
    <3>2. Header(t, b, 1) = t[b + 1]
      BY <1>1, <1>3, <3>1, HeaderOfOne
    <3> QED BY <1>0, <2>1, <3>1, <3>2 DEF BodyRow
  <2>2. CASE q # 1
    <3>1. b + n + q - 1 = p + 1
      BY <1>2, <1>3, <1>4
    <3> QED BY <1>0, <2>2, <3>1 DEF BodyRow
  <2> QED BY <2>1, <2>2
<1>6. /\ s.orig = <<>> => ~s.have /\ ~s.overwrites /\ s.over = <<>>
      /\ Laying(o) => /\ Cursor(s.over, s.orig, Len(out))
                      /\ s.overwrites = (s.over # <<>>) /\ s.have = (s.over # <<>>)
  BY <1>0, <1>1 DEF Overlaying
<1>7. Laying(o) => /\ Cursor(s.over, s.orig, s.dataRow) /\ s.dataRow = Len(out)
                   /\ s.overwrites = (s.over # <<>>) /\ s.have = (s.over # <<>>)
  BY <1>0, <1>6
<1>8. CallIsDue(s, out, p, b, cells)
  BY <1>0, <1>1, <1>2, <1>3, <1>4, <1>5, <1>6, <1>7 DEF CallIsDue
<1>9. TableAt(Caller(s, cells, aborts), CallerSaw(s, cells), p + 1)
  BY <1>8, CallerShows
<1> QED BY <1>0, <1>9

\* Whichever handler the row goes to, what the caller has seen then is what the
\* table up to this row gives.
LEMMA RowIsTaken ==
    ASSUME ParserInv, st.stat = "ok", NEW p \in Nat, TableAt(st, out, p), p + 1 <= Len(st.table),
           NEW aborts
    PROVE  TableAt(ParserRowHandler(st, st.table[p + 1], aborts).s,
                   ParserRowHandler(st, st.table[p + 1], aborts).out, p + 1)
<1>1. IsScanner(st) /\ HandlerInv(st) /\ IsSequence(out)
  BY DEF ParserInv
<1>2. CASE st.handler = "ignore_header_rows"
  BY <1>1, <1>2, IgnoreTakes DEF ParserRowHandler
<1>3. CASE st.handler = "skip_to_first_row_w_data"
  BY <1>1, <1>3, SkipTakes DEF ParserRowHandler
<1>4. CASE st.handler = "collate_header_row"
  BY <1>1, <1>4, CollateTakes DEF ParserRowHandler
<1>5. CASE st.handler = "caller"
  <2>1. Laying(st.opts) => st.dataRow = Len(out)
    BY <1>5 DEF Laying, ParserInv, Numbered
  <2>2. TableAt(Caller(st, st.table[p + 1], aborts), CallerSaw(st, st.table[p + 1]), p + 1)
    BY <1>1, <1>5, <2>1, CallerTakes
  <2> QED BY <1>5, <2>2 DEF ParserRowHandler, CallCaller
<1> QED BY <1>1, <1>2, <1>3, <1>4, <1>5 DEF HandlerInv

-----------------------------------------------------------------------------
(* Every state of the parser *)

\* What the caller has seen is what the rows read so far give; the row limit
\* stops the parse at its row, and a parse that nothing stops reads every row.
TableInv ==
    /\ ParserInv
    /\ st.next \in Nat /\ st.next > 0 /\ TableAt(st, out, st.next - 1)
    /\ ~st.opts.fixed =>
         /\ st.cum = st.next - 1
         /\ st.opts.max > 0 => st.cum <= st.opts.max /\ (st.stat = "ok" => st.cum < st.opts.max)
    /\ st.pc = "done" /\ st.stat = "ok" => st.next > Len(st.table)

\* The fields it looks at.
TableFields == {"opts", "table", "handler", "ignore", "span", "collate", "orig", "over", "have", "overwrites"}

\* A state with the same fields is at the same place of the table.
LEMMA TableAtSame ==
    ASSUME NEW r, NEW s, NEW seen, NEW p, TableAt(s, seen, p), \A f \in TableFields : r[f] = s[f]
    PROVE  TableAt(r, seen, p)
<1>1. /\ r.opts = s.opts /\ r.table = s.table /\ r.handler = s.handler /\ r.ignore = s.ignore
      /\ r.span = s.span /\ r.collate = s.collate /\ r.orig = s.orig /\ r.over = s.over
      /\ r.have = s.have /\ r.overwrites = s.overwrites
  BY DEF TableFields
<1>2. Overlaying(s, seen) => Overlaying(r, seen)
  BY <1>1 DEF Overlaying
<1>3. \A k, a, c : Shown(s, k, a, c) = Shown(r, k, a, c)
  BY <1>1 DEF Shown
<1>4. IsTable(r.table) /\ IsOverwrites(r.orig) /\ p \in 0..Len(r.table) /\ Overlaying(r, seen)
  BY <1>1, <1>2 DEF TableAt
<1>5. r.handler = "ignore_header_rows" =>
        /\ p < r.opts.ignore /\ r.ignore = r.opts.ignore - p /\ r.span = r.opts.span
        /\ seen = <<>> /\ r.collate = <<>>
  BY <1>1 DEF TableAt
<1>6. r.handler = "skip_to_first_row_w_data" =>
        /\ r.opts.ignore <= p /\ Laying(r.opts) /\ r.span = r.opts.span
        /\ seen = <<>> /\ r.collate = <<>>
        /\ \A i \in (r.opts.ignore + 1)..p : IsBlank(r.table[i])
  BY <1>1 DEF TableAt
<1>7. r.handler = "collate_header_row" =>
        \E b \in 0..p :
          /\ BodyFrom(r.opts, r.table, b) /\ r.opts.span > 1
          /\ r.span = r.opts.span - (p - b) /\ r.span >= 1
          /\ seen = <<>>
          /\ r.collate = IF p = b THEN <<>> ELSE <<Header(r.table, b, p - b)>>
  BY <1>1 DEF TableAt
<1>8. r.handler = "caller" =>
        \E b \in 0..p :
          /\ BodyFrom(r.opts, r.table, b)
          /\ p - b >= HeaderRows(r.opts) - 1
          /\ HeaderRows(r.opts) > 1 => p - b >= HeaderRows(r.opts)
          /\ Len(seen) = p - b - HeaderRows(r.opts) + 1
          /\ \A k \in DOMAIN seen : Shown(r, k, seen[k].cells, BodyRow(r.opts, r.table, b, k))
          /\ r.collate = <<>>
  BY <1>1, <1>3 DEF TableAt
<1> QED BY <1>4, <1>5, <1>6, <1>7, <1>8, Zenon DEF TableAt

\* zsv_scanner_init leaves the scanner so.
LEMMA TableInit == ParserInit => TableInv
<1> SUFFICES ASSUME ParserInit PROVE TableInv
  OBVIOUS
<1>1. PICK o \in PcOptions, t \in PcTables, ow \in PcOverwrites :
         st = [ScannerInit(o, ow) EXCEPT !.table = t]
  BY DEF ParserInit
<1>2. out = <<>> /\ Len(out) = 0 /\ DOMAIN out = {}
  BY DEF ParserInit
<1> DEFINE s0 == [pc |-> "rows", opts |-> o, table |-> <<>>, next |-> 1,
               ignore |-> o.ignore, keep |-> o.keep, span |-> o.span,
               fixed |-> o.fixed, handler |-> "", collate |-> <<>>,
               have |-> FALSE, over |-> ow, orig |-> ow, overwrites |-> FALSE,
               dataRow |-> 0, cum |-> 0, abort |-> FALSE,
               asked |-> 0, stat |-> "ok"]
           s1 == SetCallbacks(s0)
           have == ow # <<>>
           s2 == [s1 EXCEPT !.have = have]
<1>3. st = [s2 EXCEPT !.table = t]
  BY <1>1 DEF ScannerInit
<1>4. /\ IsTable(t) /\ IsOverwrites(ow) /\ Len(t) \in Nat
      /\ o.ignore \in Nat /\ o.span \in Nat /\ o.keep \in BOOLEAN /\ o.fixed \in BOOLEAN /\ o.max \in Nat
      /\ o \in [ignore : Nat, keep : BOOLEAN, span : Nat, fixed : BOOLEAN, max : Nat, interval : Nat]
  <2>1. /\ o \in [ignore : Nat, keep : BOOLEAN, span : Nat, fixed : BOOLEAN, max : Nat, interval : Nat]
        /\ IsTable(t) /\ IsOverwrites(ow)
    BY PcAssumption
  <2> QED BY <2>1, TableParts
<1>5. /\ HasFields(s0) /\ s0.opts = o /\ s0.next = 1 /\ s0.ignore = o.ignore /\ s0.keep = o.keep
      /\ s0.span = o.span /\ s0.fixed = o.fixed /\ s0.collate = <<>> /\ ~s0.have /\ s0.over = ow
      /\ s0.orig = ow /\ ~s0.overwrites /\ s0.cum = 0 /\ s0.stat = "ok" /\ s0.pc = "rows"
      /\ s0.dataRow = 0 /\ s0.abort = FALSE /\ s0.asked = 0
  BY DEF HasFields
<1> HIDE DEF s0
<1>6. IsScanner(s0)
  <2>1. s0.ignore \in Int /\ s0.span \in Int /\ s0.keep \in BOOLEAN
    BY <1>4, <1>5
  <2>2. s0.abort \in BOOLEAN
    <3>1. s0.abort = FALSE
      BY <1>5
    <3> QED BY <3>1
  <2>3. s0.dataRow \in Nat /\ s0.cum \in Nat /\ s0.asked \in Nat
    BY <1>5
  <2> QED BY <1>4, <1>5, <2>1, <2>2, <2>3 DEF IsScanner
<1>7. /\ IsScanner(s1) /\ s1.opts = o /\ s1.next = 1 /\ s1.ignore = o.ignore /\ s1.span = o.span
      /\ s1.collate = <<>> /\ s1.over = ow /\ s1.orig = ow /\ s1.cum = 0 /\ s1.stat = "ok" /\ s1.pc = "rows"
      /\ ~s1.overwrites
      /\ s1.handler = IF o.ignore > 0 THEN "ignore_header_rows"
                ELSE IF ~o.fixed /\ ~o.keep THEN "skip_to_first_row_w_data"
                ELSE IF o.span > 1 THEN "collate_header_row" ELSE "caller"
  <2>1. s1.overwrites = IF s1.handler = "caller" THEN s0.have ELSE s0.overwrites
    BY <1>6, SetCallbacksOverwrites
  <2>2. ~s1.overwrites
    <3> HIDE DEF s1
    <3> QED BY <1>5, <2>1
  <2>3. /\ IsScanner(s1)
        /\ s1.handler = IF s0.ignore > 0 THEN "ignore_header_rows"
                ELSE IF ~s0.fixed /\ ~s0.keep THEN "skip_to_first_row_w_data"
                ELSE IF s0.span > 1 THEN "collate_header_row" ELSE "caller"
        /\ \A f \in {"pc", "opts", "next", "ignore", "span", "collate", "over", "orig", "cum", "stat"} :
             s1[f] = s0[f]
    BY <1>6, SetCallbacksHandler
  <2> HIDE DEF s1
  <2> QED BY <1>5, <2>2, <2>3
<1> HIDE DEF s1, have
<1>8. /\ HasFields(s2) /\ s2.have = have
      /\ \A f \in {"pc", "opts", "next", "ignore", "span", "collate", "over", "orig", "cum", "stat", "handler",
                   "overwrites"} : s2[f] = s1[f]
  BY <1>7 DEF HasFields, IsScanner
<1> HIDE DEF s2
<1>9. /\ st.table = t
      /\ \A f \in {"pc", "opts", "next", "ignore", "span", "collate", "over", "orig", "cum", "stat", "handler",
                   "overwrites", "have"} : st[f] = s2[f]
  BY <1>3, <1>8 DEF HasFields
<1>10. /\ st.opts = o /\ st.table = t /\ st.next = 1 /\ st.ignore = o.ignore /\ st.span = o.span
       /\ st.collate = <<>> /\ st.over = ow /\ st.orig = ow /\ st.cum = 0 /\ st.stat = "ok"
       /\ st.pc = "rows" /\ ~st.overwrites /\ st.have = (ow # <<>>)
       /\ st.handler = IF o.ignore > 0 THEN "ignore_header_rows"
                ELSE IF ~o.fixed /\ ~o.keep THEN "skip_to_first_row_w_data"
                ELSE IF o.span > 1 THEN "collate_header_row" ELSE "caller"
  BY <1>7, <1>8, <1>9 DEF have
<1>11. Overlaying(st, out)
  <2>1. Laying(o) => st.handler # "caller"
    BY <1>10 DEF Laying
  <2> QED BY <1>10, <2>1 DEF Overlaying
<1>12. TableAt(st, out, 0)
  <2>1. 0 \in 0..Len(t)
    BY <1>4
  <2>2. CASE o.ignore > 0
    <3>1. st.handler = "ignore_header_rows" /\ 0 < o.ignore /\ st.ignore = o.ignore - 0
      BY <1>4, <1>10, <2>2
    <3> QED BY <1>2, <1>4, <1>10, <1>11, <2>1, <3>1 DEF TableAt
  <2>3. CASE o.ignore = 0 /\ Laying(o)
    <3>1. st.handler = "skip_to_first_row_w_data" /\ o.ignore <= 0
          /\ \A i \in (o.ignore + 1)..0 : IsBlank(t[i])
      BY <1>10, <2>3 DEF Laying
    <3> QED BY <1>2, <1>4, <1>10, <1>11, <2>1, <2>3, <3>1 DEF TableAt
  <2>4. CASE o.ignore = 0 /\ ~Laying(o)
    <3>1. BodyFrom(o, t, 0) /\ 0 \in 0..0
      BY <2>4 DEF BodyFrom
    <3>2. CASE o.span > 1
      <4>1. st.handler = "collate_header_row" /\ st.span = o.span - (0 - 0) /\ st.span >= 1
        BY <1>4, <1>10, <2>4, <3>2 DEF Laying
      <4>2. st.collate = IF 0 = 0 THEN <<>> ELSE <<Header(t, 0, 0 - 0)>>
        BY <1>10
      <4>3. \E b \in 0..0 :
                /\ BodyFrom(o, t, b) /\ o.span > 1 /\ st.span = o.span - (0 - b) /\ st.span >= 1
                /\ out = <<>>
                /\ st.collate = IF 0 = b THEN <<>> ELSE <<Header(t, b, 0 - b)>>
        BY <1>2, <3>1, <3>2, <4>1, <4>2
      <4> QED BY <1>4, <1>10, <1>11, <2>1, <4>1, <4>3 DEF TableAt
    <3>3. CASE ~(o.span > 1)
      <4>1. st.handler = "caller" /\ HeaderRows(o) = 1
        BY <1>4, <1>10, <2>4, <3>3 DEF Laying, HeaderRows
      <4>2. PICK n : n = HeaderRows(o)
        OBVIOUS
      <4>3. 0 - 0 >= n - 1 /\ ~(n > 1) /\ Len(out) = 0 - 0 - n + 1
        BY <1>2, <4>1, <4>2
      <4>4. \E b \in 0..0 :
                /\ BodyFrom(o, t, b) /\ 0 - b >= n - 1 /\ (n > 1 => 0 - b >= n)
                /\ Len(out) = 0 - b - n + 1
                /\ \A k \in DOMAIN out : Shown(st, k, out[k].cells, BodyRow(o, t, b, k))
                /\ st.collate = <<>>
        BY <1>2, <1>10, <3>1, <4>3
      <4> QED BY <1>4, <1>10, <1>11, <2>1, <4>1, <4>2, <4>4 DEF TableAt
    <3> QED BY <3>2, <3>3
  <2> QED BY <1>4, <2>2, <2>3, <2>4
<1>13. st.next - 1 = 0 /\ st.next \in Nat /\ st.next > 0
  BY <1>10
<1>14. st.opts.max > 0 => st.cum <= st.opts.max /\ st.cum < st.opts.max
  BY <1>4, <1>10
<1> QED BY <1>10, <1>12, <1>13, <1>14, ParserInitInv DEF TableInv

\* What row_dl does behind the handler changes none of these fields; the row
\* that reaches the limit stops the parse.
LEMMA RowCountedLimit ==
    ASSUME NEW s, IsScanner(s), NEW cancels
    PROVE  /\ \A f \in TableFields : AfterRow(s, cancels)[f] = s[f]
           /\ AfterRow(s, cancels).next = s.next + 1
           /\ AfterRow(s, cancels).cum = s.cum + 1
           /\ AfterRow(s, cancels).stat = "ok" => ~(s.opts.max > 0 /\ s.cum + 1 = s.opts.max)
<1> DEFINE F == TableFields \cup {"next"}
           k == CountedOn(s)
           p == ProgressCallback(k, cancels)
           c == RowLimit(p)
           d == IF c.stat = "ok" THEN c.dataRow + 1 ELSE c.dataRow
           n == [c EXCEPT !.next = @ + 1, !.dataRow = d]
<1>1. HasFields(s)
  BY DEF IsScanner
<1>2. HasFields(k) /\ k.cum = s.cum + 1 /\ \A f \in F : k[f] = s[f]
  BY <1>1 DEF HasFields, CountedOn, TableFields
<1> HIDE DEF k
<1>3. HasFields(p) /\ p.cum = k.cum /\ \A f \in F : p[f] = k[f]
  <2>1. p = [k EXCEPT !.abort = cancels] \/ p = k
    BY DEF ProgressCallback
  <2> HIDE DEF p
  <2>2. CASE p = k
    BY <1>2, <2>2
  <2>3. CASE p = [k EXCEPT !.abort = cancels]
    BY <1>2, <2>3 DEF HasFields, TableFields
  <2> QED BY <2>1, <2>2, <2>3
<1> HIDE DEF p
<1>4. /\ HasFields(c) /\ c.cum = p.cum /\ \A f \in F : c[f] = p[f]
      /\ c.stat = "ok" => ~(p.opts.max > 0 /\ p.cum = p.opts.max)
  <2>1. \/ c = [p EXCEPT !.abort = TRUE, !.stat = "max_rows_read"]
        \/ ~(p.opts.max > 0 /\ p.cum = p.opts.max) /\ c = [p EXCEPT !.stat = "cancelled"]
        \/ ~(p.opts.max > 0 /\ p.cum = p.opts.max) /\ c = p
    BY DEF RowLimit
  <2> HIDE DEF c
  <2>2. CASE c = [p EXCEPT !.abort = TRUE, !.stat = "max_rows_read"]
    <3>0. PICK v : v = TRUE
      OBVIOUS
    <3> DEFINE x == [p EXCEPT !.abort = v]
    <3>1. HasFields(x) /\ x.cum = p.cum
      BY <1>3 DEF HasFields
    <3>3. c = [x EXCEPT !.stat = "max_rows_read"]
      BY <2>2, <3>0
    <3> HIDE DEF x
    <3>4. HasFields(c) /\ c.cum = x.cum /\ c.stat = "max_rows_read"
      BY <3>1, <3>3 DEF HasFields
    <3>2. \A f \in F : c[f] = p[f]
      BY <1>3, <2>2 DEF HasFields, TableFields
    <3> QED BY <3>1, <3>2, <3>4
  <2>3. CASE ~(p.opts.max > 0 /\ p.cum = p.opts.max) /\ c = [p EXCEPT !.stat = "cancelled"]
    BY <1>3, <2>3 DEF HasFields, TableFields
  <2>4. CASE ~(p.opts.max > 0 /\ p.cum = p.opts.max) /\ c = p
    BY <1>3, <2>4
  <2> QED BY <2>1, <2>2, <2>3, <2>4
<1> HIDE DEF c
<1>5. n.next = c.next + 1 /\ n.cum = c.cum /\ n.stat = c.stat /\ \A f \in TableFields : n[f] = c[f]
  <2> HIDE DEF d
  <2> QED BY <1>4 DEF HasFields, TableFields
<1>6. n = AfterRow(s, cancels)
  BY DEF AfterRow, Advanced, c, p, k
<1> HIDE DEF n
<1>7. \A f \in TableFields : n[f] = s[f]
  <2>1. \A f \in TableFields : k[f] = s[f] /\ p[f] = k[f] /\ c[f] = p[f]
    BY <1>2, <1>3, <1>4
  <2> QED BY <1>5, <2>1
<1>8. n.next = s.next + 1 /\ n.cum = s.cum + 1
  BY <1>2, <1>3, <1>4, <1>5
<1>9. n.stat = "ok" => ~(s.opts.max > 0 /\ s.cum + 1 = s.opts.max)
  <2>1. p.opts = s.opts /\ p.cum = s.cum + 1
    BY <1>2, <1>3 DEF TableFields
  <2> QED BY <1>4, <1>5, <2>1
<1> QED BY <1>6, <1>7, <1>8, <1>9

\* A row: the handler takes it, and it is counted.
LEMMA TableRow == TableInv /\ ParseRow => TableInv'
<1> SUFFICES ASSUME TableInv, ParseRow PROVE TableInv'
  OBVIOUS
<1>1. /\ st.pc = "rows" /\ st.stat = "ok" /\ st.next <= Len(st.table) /\ cmd' = cmd
      /\ ParserInv /\ st.next \in Nat /\ st.next > 0 /\ TableAt(st, out, st.next - 1)
  BY DEF ParseRow, TableInv
<1>2. PICK aborts \in BOOLEAN, cancels \in BOOLEAN :
         IF st.fixed THEN RowFx(st.table[st.next], aborts)
         ELSE RowDl(st.table[st.next], aborts, cancels)
  BY DEF ParseRow
<1>3. PICK p : p = st.next - 1
  OBVIOUS
<1>4. p \in Nat /\ st.next = p + 1 /\ TableAt(st, out, p) /\ p + 1 <= Len(st.table)
  BY <1>1, <1>3
<1> DEFINE h == ParserRowHandler(st, st.table[p + 1], aborts)
<1>5. TableAt(h.s, h.out, p + 1)
  BY <1>1, <1>4, RowIsTaken
<1>6. Handled(st, h, aborts)
  BY <1>1, RowHandled
<1> HIDE DEF h
<1>7. /\ IsScanner(h.s) /\ HasFields(h.s) /\ h.s.opts = st.opts /\ h.s.cum = st.cum
      /\ h.s.stat = "ok" /\ h.s.pc = "rows" /\ h.s.next = st.next
  BY <1>1, <1>6 DEF Handled, IsScanner
<1>8. st.fixed = st.opts.fixed
  BY <1>1 DEF ParserInv, IsScanner
<1>9. CASE ~st.fixed
  <2>1. RowDl(st.table[p + 1], aborts, cancels)
    BY <1>2, <1>4, <1>9
  <2>2. out' = h.out /\ st' = AfterRow(h.s, cancels)
    BY <2>1 DEF RowDl, h, AfterRow, Advanced, CountedOn
  <2>3. /\ \A f \in TableFields : st'[f] = h.s[f]
        /\ st'.next = h.s.next + 1 /\ st'.cum = h.s.cum + 1
        /\ st'.stat = "ok" => ~(h.s.opts.max > 0 /\ h.s.cum + 1 = h.s.opts.max)
    BY <1>7, <2>2, RowCountedLimit
  <2>4. TableAt(st', out', p + 1)
    <3>1. TableAt(st', h.out, p + 1)
      BY <1>5, <2>3, TableAtSame
    <3>2. out' = h.out
      BY <2>2
    <3> QED BY <3>1, <3>2, Zenon
  <2>5. st'.next \in Nat /\ st'.next > 0 /\ st'.next - 1 = p + 1 /\ st'.opts = st.opts
    <3>1. st'.opts = h.s.opts
      BY <2>3 DEF TableFields
    <3> QED BY <1>4, <1>7, <2>3, <3>1
  <2>6. /\ st'.cum = st'.next - 1
        /\ st.opts.max > 0 => st'.cum <= st.opts.max /\ (st'.stat = "ok" => st'.cum < st.opts.max)
    <3>1. /\ st.cum = st.next - 1 /\ st.opts.max \in Nat
          /\ st.opts.max > 0 => st.cum < st.opts.max
      BY <1>1, <1>8, <1>9 DEF TableInv, ParserInv, IsScanner
    <3>2. st'.cum = p + 1 /\ st'.stat = "ok" => ~(st.opts.max > 0 /\ p + 1 = st.opts.max)
      BY <1>4, <1>7, <2>3, <3>1
    <3>3. st'.cum = p + 1
      BY <1>4, <1>7, <2>3, <3>1
    <3>4. st.cum = p
      BY <1>3, <3>1
    <3> QED BY <1>4, <2>5, <3>1, <3>2, <3>3, <3>4
  <2>7. ParserInv'
    BY <1>1, <1>9, <2>1, RowDlInv
  <2>8. st'.pc = "rows"
    <3>1. \A f \in {"pc"} : AfterRow(h.s, cancels)[f] = h.s[f]
      BY <1>7, RowCounted
    <3> QED BY <1>7, <2>2, <3>1
  <2> QED BY <1>8, <1>9, <2>4, <2>5, <2>6, <2>7, <2>8 DEF TableInv
<1>10. CASE st.fixed
  <2>1. RowFx(st.table[p + 1], aborts)
    BY <1>2, <1>4, <1>10
  <2> DEFINE x == [h.s EXCEPT !.next = @ + 1]
             stat == IF h.s.abort THEN "cancelled" ELSE h.s.stat
  <2>2. out' = h.out /\ st' = [h.s EXCEPT !.next = @ + 1, !.stat = IF h.s.abort THEN "cancelled" ELSE @]
    BY <2>1 DEF RowFx, h
  <2>3. st' = [x EXCEPT !.stat = stat]
    BY <2>2
  <2>4. /\ HasFields(x) /\ x.next = h.s.next + 1 /\ x.pc = h.s.pc
        /\ \A f \in TableFields : x[f] = h.s[f]
    BY <1>7 DEF HasFields, TableFields
  <2> HIDE DEF x, stat
  <2>5. /\ st'.next = x.next /\ st'.pc = x.pc
        /\ \A f \in TableFields : st'[f] = x[f]
    BY <2>3, <2>4 DEF HasFields, TableFields
  <2>6. \A f \in TableFields : st'[f] = h.s[f]
    BY <2>4, <2>5
  <2>7. TableAt(st', out', p + 1)
    <3>1. TableAt(st', h.out, p + 1)
      BY <1>5, <2>6, TableAtSame
    <3>2. out' = h.out
      BY <2>2
    <3> QED BY <3>1, <3>2, Zenon
  <2>8. st'.next \in Nat /\ st'.next > 0 /\ st'.next - 1 = p + 1 /\ st'.opts = st.opts
        /\ st'.pc = "rows"
    <3>1. st'.opts = h.s.opts
      BY <2>6 DEF TableFields
    <3> QED BY <1>4, <1>7, <2>4, <2>5, <3>1
  <2>9. ParserInv'
    BY <1>1, <1>10, <2>1, RowFxInv
  <2> QED BY <1>8, <1>10, <2>7, <2>8, <2>9 DEF TableInv
<1> QED BY <1>9, <1>10

\* zsv_finish: a parse that reports success has read every row.
LEMMA TableFinish == TableInv /\ ParserFinish => TableInv'
<1> SUFFICES ASSUME TableInv, ParserFinish PROVE TableInv'
  OBVIOUS
<1> DEFINE stat == IF st.abort THEN "cancelled" ELSE st.stat
           x == [st EXCEPT !.pc = "done"]
<1>1. st' = [x EXCEPT !.stat = stat] /\ out' = out
  BY DEF ParserFinish
<1>2. HasFields(st) /\ ParserInv
  BY DEF TableInv, ParserInv, IsScanner
<1>3. /\ HasFields(x) /\ x.next = st.next /\ x.cum = st.cum
      /\ \A f \in TableFields : x[f] = st[f]
  BY <1>2 DEF HasFields, TableFields
<1>4. stat = "ok" => st.stat = "ok"
  OBVIOUS
<1> HIDE DEF x, stat
<1>5. /\ st'.next = x.next /\ st'.cum = x.cum /\ st'.stat = stat
      /\ \A f \in TableFields : st'[f] = x[f]
  BY <1>1, <1>3 DEF HasFields, TableFields
<1>6. \A f \in TableFields : st'[f] = st[f]
  BY <1>3, <1>5
<1>7. st'.opts = st.opts /\ st'.table = st.table /\ st'.next = st.next /\ st'.cum = st.cum
  BY <1>3, <1>5, <1>6 DEF TableFields
<1>8. TableAt(st', out', st.next - 1)
  <2>1. TableAt(st, out, st.next - 1)
    BY DEF TableInv
  <2> QED BY <1>1, <1>6, <2>1, TableAtSame
<1>9. st'.stat = "ok" => st.stat = "ok" /\ st.next > Len(st.table)
  <2>1. st'.stat = "ok" => st.stat = "ok"
    BY <1>4, <1>5
  <2>2. st.stat # "ok" \/ st.next > Len(st.table)
    BY DEF ParserFinish
  <2> QED BY <2>1, <2>2
<1>10. ParserInv'
  BY <1>2, FinishInv
<1> QED BY <1>7, <1>8, <1>9, <1>10 DEF TableInv

\* Every step keeps it.
LEMMA TableStep == TableInv /\ [ParserNext \/ Finished]_procVars => TableInv'
<1> SUFFICES ASSUME TableInv, [ParserNext \/ Finished]_procVars PROVE TableInv'
  OBVIOUS
<1>1. CASE ParseRow
  BY <1>1, TableRow
<1>2. CASE ParserFinish
  BY <1>2, TableFinish
<1>3. CASE Finished \/ UNCHANGED procVars
  <2>1. st' = st /\ out' = out /\ cmd' = cmd
    BY <1>3 DEF Finished, procVars
  <2>2. ParserInv'
    <3>1. ParserInv
      BY DEF TableInv
    <3> QED BY <1>3, <3>1, ParserStepInv
  <2>3. TableAt(st', out', st'.next - 1)
    BY <2>1 DEF TableInv
  <2> QED BY <2>1, <2>2, <2>3 DEF TableInv
<1> QED BY <1>1, <1>2, <1>3 DEF ParserNext

\* Every state of the parser has it.
LEMMA TableInvariant == ParserSpec => []TableInv
<1> QED BY TableInit, TableStep, PTL DEF ParserSpec

-----------------------------------------------------------------------------
(* What the caller should see *)

\* The rows of the table that are looked at.
LEMMA FirstRows ==
    ASSUME NEW t, IsTable(t), NEW m \in Nat, m <= Len(t)
    PROVE  /\ IsSequence(SubSeq(t, 1, m)) /\ Len(SubSeq(t, 1, m)) = m
           /\ DOMAIN SubSeq(t, 1, m) = 1..m
           /\ \A k \in 1..m : SubSeq(t, 1, m)[k] = t[k]
<1>1. IsSequence(t)
  BY TableParts
<1>2. /\ IsSequence(SubSeq(t, 0 + 1, m)) /\ Len(SubSeq(t, 0 + 1, m)) = m - 0
      /\ DOMAIN SubSeq(t, 0 + 1, m) = 1..(m - 0)
      /\ \A k \in 1..(m - 0) : SubSeq(t, 0 + 1, m)[k] = t[0 + k]
  BY <1>1, PartOfSequence
<1>3. 0 + 1 = 1 /\ m - 0 = m /\ \A k \in 1..m : 0 + k = k
  OBVIOUS
<1> QED BY <1>2, <1>3

\* The rows behind the ignored ones.
LEMMA RestRows ==
    ASSUME NEW t, IsTable(t), NEW m \in Nat, m <= Len(t), NEW g \in Nat
    PROVE  LET rest == SubSeq(SubSeq(t, 1, m), g + 1, Len(SubSeq(t, 1, m)))
           IN  /\ g > m => rest = <<>>
               /\ g <= m => /\ IsSequence(rest) /\ Len(rest) = m - g /\ DOMAIN rest = 1..(m - g)
                            /\ \A k \in 1..(m - g) : rest[k] = t[g + k]
<1>1. PICK w : w = SubSeq(t, 1, m)
  OBVIOUS
<1>2. IsSequence(w) /\ Len(w) = m /\ DOMAIN w = 1..m /\ \A k \in 1..m : w[k] = t[k]
  BY <1>1, FirstRows
<1>3. PICK rest : rest = SubSeq(w, g + 1, m)
  OBVIOUS
<1>4. g > m => rest = <<>>
  BY <1>3, SubSeqEmpty
<1>5. ASSUME g <= m
      PROVE  /\ IsSequence(rest) /\ Len(rest) = m - g /\ DOMAIN rest = 1..(m - g)
             /\ \A k \in 1..(m - g) : rest[k] = t[g + k]
  <2>1. /\ IsSequence(SubSeq(w, g + 1, m)) /\ Len(SubSeq(w, g + 1, m)) = m - g
        /\ DOMAIN SubSeq(w, g + 1, m) = 1..(m - g)
        /\ \A k \in 1..(m - g) : SubSeq(w, g + 1, m)[k] = w[g + k]
    BY <1>2, <1>5, PartOfSequence
  <2>2. ASSUME NEW k \in 1..(m - g) PROVE rest[k] = t[g + k]
    <3>1. g + k \in 1..m
      BY <1>5
    <3> QED BY <1>2, <1>3, <2>1, <3>1
  <2> QED BY <1>3, <2>1, <2>2
<1> QED BY <1>1, <1>2, <1>3, <1>4, <1>5

\* The l rows of the table behind row b.
RowsBehind(rows, t, b, l) ==
    IsSequence(rows) /\ Len(rows) = l /\ \A k \in 1..l : rows[k] = t[b + k]

\* The body, from the row it starts at.
LEMMA BodyIs ==
    ASSUME NEW o, o.ignore \in Nat, NEW t, IsTable(t), NEW m \in Nat, m <= Len(t),
           NEW b \in Nat, b <= m, BodyFrom(o, t, b), Laying(o) => b < m
    PROVE  RowsBehind(ParserBody(o, SubSeq(t, 1, m)), t, b, m - b)
<1> SUFFICES /\ IsSequence(ParserBody(o, SubSeq(t, 1, m)))
             /\ Len(ParserBody(o, SubSeq(t, 1, m))) = m - b
             /\ \A k \in 1..(m - b) : ParserBody(o, SubSeq(t, 1, m))[k] = t[b + k]
  BY DEF RowsBehind
<1>1. PICK w, g : w = SubSeq(t, 1, m) /\ g = o.ignore
  OBVIOUS
<1>2. PICK rest : rest = SubSeq(w, g + 1, Len(w))
  OBVIOUS
<1>3. g \in Nat /\ g <= b /\ g <= m
  BY <1>1 DEF BodyFrom
<1>4. /\ IsSequence(rest) /\ Len(rest) = m - g /\ DOMAIN rest = 1..(m - g)
      /\ \A k \in 1..(m - g) : rest[k] = t[g + k]
  <2>1. rest = SubSeq(SubSeq(t, 1, m), g + 1, Len(SubSeq(t, 1, m)))
    BY <1>1, <1>2
  <2>2. LET z == SubSeq(SubSeq(t, 1, m), g + 1, Len(SubSeq(t, 1, m)))
        IN  /\ IsSequence(z) /\ Len(z) = m - g /\ DOMAIN z = 1..(m - g)
            /\ \A k \in 1..(m - g) : z[k] = t[g + k]
    <3>1. g \in Nat /\ g <= m
      BY <1>3
    <3> QED BY <3>1, RestRows
  <2> QED BY <2>1, <2>2
<1> DEFINE data == {i \in DOMAIN rest : ~IsBlank(rest[i])}
<1>5. ParserBody(o, w) = IF o.keep \/ o.fixed THEN rest
                         ELSE IF data = {} THEN <<>> ELSE SubSeq(rest, Min(data), Len(rest))
  BY <1>1, <1>2 DEF ParserBody
<1> HIDE DEF data
<1>6. CASE ~Laying(o)
  <2>1. ParserBody(o, w) = rest /\ b = g
    BY <1>1, <1>5, <1>6 DEF Laying, BodyFrom
  <2> QED BY <1>1, <1>4, <2>1
<1>7. CASE Laying(o)
  <2>1. b < m /\ ~IsBlank(t[b + 1]) /\ \A i \in (g + 1)..b : IsBlank(t[i])
    BY <1>1, <1>7 DEF BodyFrom
  <2>2. PICK c : c = b - g
    OBVIOUS
  <2>3. c \in Nat /\ c + 1 \in 1..(m - g) /\ c <= m - g /\ (m - g) - c = m - b /\ m - g \in Nat
        /\ g + (c + 1) = b + 1
    BY <1>3, <2>1, <2>2
  <2>4. c + 1 \in data
    <3>1. rest[c + 1] = t[b + 1]
      <4>1. rest[c + 1] = t[g + (c + 1)]
        BY <1>4, <2>3
      <4> QED BY <2>3, <4>1
    <3> QED BY <1>4, <2>1, <2>3, <3>1 DEF data
  <2>5. ASSUME NEW i \in data PROVE c + 1 <= i
    <3>1. i \in 1..(m - g) /\ ~IsBlank(rest[i])
      BY <1>4 DEF data
    <3>2. rest[i] = t[g + i]
      BY <1>4, <3>1
    <3>3. g + i \notin (g + 1)..b
      BY <2>1, <3>1, <3>2
    <3> QED BY <1>3, <2>2, <2>3, <3>1, <3>3
  <2>6. Min(data) = c + 1
    <3>1. data \subseteq Nat /\ data # {}
      BY <1>4, <2>4 DEF data
    <3>2. PICK a : a = Min(data)
      OBVIOUS
    <3>3. a \in data /\ a <= c + 1
      BY <2>4, <3>1, <3>2, MinIsLeast
    <3>4. c + 1 <= a /\ a \in Nat
      BY <2>5, <3>1, <3>3
    <3> QED BY <2>3, <3>2, <3>3, <3>4
  <2>7. ParserBody(o, w) = SubSeq(rest, c + 1, m - g)
    <3>1. ParserBody(o, w) = SubSeq(rest, Min(data), Len(rest))
      BY <1>5, <1>7, <2>4 DEF Laying
    <3> QED BY <1>4, <2>6, <3>1
  <2>8. PICK z : z = m - g
    OBVIOUS
  <2>9. /\ IsSequence(SubSeq(rest, c + 1, z)) /\ Len(SubSeq(rest, c + 1, z)) = z - c
        /\ \A k \in 1..(z - c) : SubSeq(rest, c + 1, z)[k] = rest[c + k]
    <3>1. z \in Nat /\ c <= z /\ z <= Len(rest)
      BY <1>4, <2>3, <2>8
    <3> QED BY <1>4, <2>3, <3>1, PartOfSequence
  <2>10. PICK body : body = ParserBody(o, w)
    OBVIOUS
  <2>11. IsSequence(body) /\ Len(body) = m - b /\ \A k \in 1..(m - b) : body[k] = rest[c + k]
    BY <2>3, <2>7, <2>8, <2>9, <2>10
  <2>12. ASSUME NEW k \in 1..(m - b) PROVE body[k] = t[b + k]
    <3>1. c + k \in 1..(m - g) /\ g + (c + k) = b + k
      BY <1>3, <2>2, <2>3
    <3>2. rest[c + k] = t[g + (c + k)]
      BY <1>4, <3>1
    <3> QED BY <2>11, <3>1, <3>2
  <2> QED BY <1>1, <2>10, <2>11, <2>12
<1> QED BY <1>6, <1>7

\* No body when every row is ignored, or blank.
LEMMA NoBody ==
    ASSUME NEW o, o.ignore \in Nat, NEW t, IsTable(t), NEW m \in Nat, m <= Len(t),
           \/ o.ignore >= m
           \/ Laying(o) /\ \A i \in (o.ignore + 1)..m : IsBlank(t[i])
    PROVE  ParserBody(o, SubSeq(t, 1, m)) = <<>>
<1>1. PICK w, g : w = SubSeq(t, 1, m) /\ g = o.ignore
  OBVIOUS
<1>2. PICK rest : rest = SubSeq(w, g + 1, Len(w))
  OBVIOUS
<1> DEFINE data == {i \in DOMAIN rest : ~IsBlank(rest[i])}
<1>3. ParserBody(o, w) = IF o.keep \/ o.fixed THEN rest
                         ELSE IF data = {} THEN <<>> ELSE SubSeq(rest, Min(data), Len(rest))
  BY <1>1, <1>2 DEF ParserBody
<1>4. CASE g >= m
  <2>1. rest = <<>>
    <3>1. Len(w) = m
      BY <1>1, FirstRows
    <3>2. SubSeq(w, g + 1, m) = <<>>
      BY <1>1, <1>4, SubSeqEmpty
    <3> QED BY <1>2, <3>1, <3>2
  <2>2. data = {}
    BY <2>1
  <2> QED BY <1>1, <1>3, <2>1, <2>2
<1>5. CASE ~(g >= m)
  <2>1. Laying(o) /\ \A i \in (g + 1)..m : IsBlank(t[i])
    BY <1>1, <1>5
  <2>2. DOMAIN rest = 1..(m - g) /\ \A k \in 1..(m - g) : rest[k] = t[g + k]
    <3>1. g \in Nat /\ g <= m
      BY <1>1, <1>5
    <3>2. rest = SubSeq(SubSeq(t, 1, m), g + 1, Len(SubSeq(t, 1, m)))
      BY <1>1, <1>2
    <3> QED BY <3>1, <3>2, RestRows
  <2>3. data = {}
    <3> SUFFICES ASSUME NEW i \in DOMAIN rest PROVE IsBlank(rest[i])
      OBVIOUS
    <3>1. i \in 1..(m - g) /\ g + i \in (g + 1)..m
      BY <1>1, <2>2
    <3> QED BY <2>1, <2>2, <3>1
  <2> QED BY <1>1, <1>3, <2>1, <2>3 DEF Laying
<1> QED BY <1>4, <1>5

\* There is a body or there is none.
LEMMA BodyCases ==
    ASSUME NEW o, o.ignore \in Nat, NEW t, IsTable(t), NEW m \in Nat, m <= Len(t)
    PROVE  \/ ParserBody(o, SubSeq(t, 1, m)) = <<>>
           \/ \E b \in Nat : b <= m /\ BodyFrom(o, t, b) /\ (Laying(o) => b < m)
<1>0. PICK g : g = o.ignore
  OBVIOUS
<1>1. CASE g >= m
  BY <1>0, <1>1, NoBody
<1>2. CASE g < m /\ ~Laying(o)
  <2>1. BodyFrom(o, t, g)
    BY <1>0, <1>2 DEF BodyFrom
  <2> QED BY <1>0, <1>2, <2>1
<1>3. CASE g < m /\ Laying(o)
  <2> DEFINE data == {i \in (g + 1)..m : ~IsBlank(t[i])}
  <2>1. CASE data = {}
    BY <1>0, <1>3, <2>1, NoBody
  <2>2. CASE data # {}
    <3>1. data \subseteq Nat
      BY <1>0
    <3>2. PICK i \in data : \A j \in data : i <= j
      BY <2>2, <3>1, LeastNatural
    <3>3. PICK b : b = i - 1
      OBVIOUS
    <3>4. b \in Nat /\ b < m /\ g <= b /\ b + 1 = i /\ Len(t) \in Nat
      BY <1>0, <1>3, <3>2, <3>3, TableParts
    <3>5. \A j \in (g + 1)..b : IsBlank(t[j])
      BY <1>0, <3>2, <3>4
    <3>6. ~IsBlank(t[b + 1])
      BY <3>2, <3>4
    <3>7. BodyFrom(o, t, b)
      BY <1>0, <1>3, <3>4, <3>5, <3>6 DEF BodyFrom
    <3> QED BY <3>4, <3>7
  <2> QED BY <2>1, <2>2
<1> QED BY <1>0, <1>1, <1>2, <1>3

\* The rows of a body of l rows behind row b: the header from its first rows,
\* then the others.
Delivered(o, t, b, l, rows) ==
    LET n == HeaderRows(o)
    IN  /\ l < n => rows = <<>>
        /\ l >= n => /\ IsSequence(rows) /\ Len(rows) = l - n + 1
                    /\ \A k \in 1..(l - n + 1) : rows[k] = BodyRow(o, t, b, k)

\* The rows the caller should see: the header from the first rows of the body,
\* then the others.
LEMMA ExpectedIs ==
    ASSUME NEW o, o.span \in Nat, NEW t, IsTable(t), NEW w, NEW b \in Nat, NEW l \in Nat, b + l <= Len(t),
           RowsBehind(ParserBody(o, w), t, b, l)
    PROVE  Delivered(o, t, b, l, ParserExpected(o, w))
<1>0. PICK n, body : n = HeaderRows(o) /\ body = ParserBody(o, w)
  OBVIOUS
<1>1. n \in Nat /\ n >= 1 /\ n = IF o.span > 1 THEN o.span ELSE 1
  BY <1>0 DEF HeaderRows
<1>2. /\ IsSequence(body) /\ Len(body) = l /\ DOMAIN body = 1..l
      /\ \A k \in 1..l : body[k] = t[b + k]
  <2>1. IsSequence(body) /\ Len(body) = l /\ \A k \in 1..l : body[k] = t[b + k]
    BY <1>0 DEF RowsBehind
  <2>2. DOMAIN body = 1..Len(body)
    BY <2>1 DEF IsSequence
  <2> QED BY <2>1, <2>2
<1> DEFINE column(i) == FlattenSeq([k \in 1..n |-> IF i \in DOMAIN body[k] THEN body[k][i] ELSE Blank])
           header == [i \in DOMAIN body[1] |-> column(i)]
           others == SubSeq(body, n + 1, l)
           rows == ParserExpected(o, w)
<1>3. rows = IF l < n THEN <<>> ELSE <<header>> \o others
  BY <1>0, <1>1, <1>2, Zenon DEF ParserExpected
<1>4. CASE l < n
  <2>1. rows = <<>>
    BY <1>3, <1>4
  <2>2. ~(l >= n)
    BY <1>1, <1>4
  <2> HIDE DEF rows
  <2>3. Delivered(o, t, b, l, rows)
    BY <1>0, <2>1, <2>2, Zenon DEF Delivered
  <2> QED BY <2>3 DEF rows
<1>5. CASE ~(l < n)
  <2>1. header = Header(t, b, n)
    <3>1. ASSUME NEW i PROVE column(i) = Column(t, b, n, i)
      <4> DEFINE f == [k \in 1..n |-> IF i \in DOMAIN body[k] THEN body[k][i] ELSE Blank]
                 g == [k \in 1..n |-> IF i \in DOMAIN t[b + k] THEN t[b + k][i] ELSE Blank]
      <4>1. \A k \in 1..n : body[k] = t[b + k]
        BY <1>1, <1>2, <1>5
      <4>2. f = g
        BY <4>1
      <4>3. column(i) = FlattenSeq(f) /\ Column(t, b, n, i) = FlattenSeq(g)
        BY Zenon DEF Column
      <4> QED BY <4>2, <4>3, Zenon
    <3>2. body[1] = t[b + 1]
      BY <1>1, <1>2, <1>5
    <3>3. Header(t, b, n) = [i \in DOMAIN t[b + 1] |-> Column(t, b, n, i)]
      BY DEF Header
    <3> HIDE DEF column
    <3> QED BY <3>1, <3>2, <3>3
  <2> HIDE DEF header
  <2>2. IsSequence(others) /\ Len(others) = l - n /\ \A k \in 1..(l - n) : others[k] = body[n + k]
    <3>1. n <= l /\ l <= Len(body)
      BY <1>1, <1>2, <1>5
    <3>2. /\ IsSequence(SubSeq(body, n + 1, l)) /\ Len(SubSeq(body, n + 1, l)) = l - n
          /\ \A k \in 1..(l - n) : SubSeq(body, n + 1, l)[k] = body[n + k]
      <4>1. IsSequence(body) /\ n \in Nat /\ l \in Nat /\ n <= l /\ l <= Len(body)
        BY <1>1, <1>2, <3>1
      <4> HIDE DEF others, rows
      <4> QED BY <4>1, PartOfSequence
    <3> QED BY <3>2
  <2> HIDE DEF others
  <2>3. IsSequence(<<header>>) /\ Len(<<header>>) = 1 /\ <<header>>[1] = header
    <3>1. <<header>> \in Seq({header})
      OBVIOUS
    <3> QED BY <3>1, SequenceOver
  <2>4. PICK one, all : one = <<header>> /\ all = one \o others
    OBVIOUS
  <2>5. /\ IsSequence(all) /\ DOMAIN all = 1..(1 + (l - n))
        /\ \A k \in 1..1 : all[k] = one[k]
        /\ \A k \in 1..(l - n) : all[1 + k] = others[k]
    BY <2>2, <2>3, <2>4, ConcatElements
  <2>6. Len(all) = l - n + 1
    <3>1. Len(all) \in Nat /\ DOMAIN all = 1..Len(all)
      BY <2>5 DEF IsSequence
    <3>2. 1..Len(all) = 1..(1 + (l - n)) /\ 1 + (l - n) \in Nat
      BY <1>1, <1>5, <2>5, <3>1
    <3>3. Len(all) = 1 + (l - n)
      BY <3>1, <3>2, SameBound
    <3> QED BY <1>1, <3>3
  <2>7. ASSUME NEW k \in 1..(l - n + 1) PROVE all[k] = BodyRow(o, t, b, k)
    <3>1. CASE k = 1
      <4>1. all[1] = header
        BY <2>3, <2>4, <2>5
      <4> QED BY <1>0, <2>1, <3>1, <4>1 DEF BodyRow
    <3>2. CASE k # 1
      <4>1. k - 1 \in 1..(l - n) /\ 1 + (k - 1) = k /\ n + (k - 1) \in 1..l
            /\ b + (n + (k - 1)) = b + n + k - 1
        <5>1. k \in Nat /\ k >= 1 /\ k <= l - n + 1
          BY <1>1
        <5>2. n \in Nat /\ n <= l
          BY <1>1, <1>5
        <5> QED BY <3>2, <5>1, <5>2
      <4>2. all[k] = others[k - 1]
        <5>1. all[1 + (k - 1)] = others[k - 1]
          BY <2>5, <4>1
        <5> QED BY <4>1, <5>1
      <4>3. others[k - 1] = body[n + (k - 1)]
        BY <2>2, <4>1
      <4>4. body[n + (k - 1)] = t[b + (n + (k - 1))]
        BY <1>2, <4>1
      <4>5. all[k] = t[b + n + k - 1]
        BY <4>1, <4>2, <4>3, <4>4
      <4> QED BY <1>0, <3>2, <4>5 DEF BodyRow
    <3> QED BY <3>1, <3>2
  <2>8. rows = all
    BY <1>3, <1>5, <2>4
  <2> HIDE DEF rows
  <2>9. IsSequence(rows) /\ Len(rows) = l - n + 1
        /\ \A k \in 1..(l - n + 1) : rows[k] = BodyRow(o, t, b, k)
    BY <2>5, <2>6, <2>7, <2>8
  <2>10. Delivered(o, t, b, l, rows)
    BY <1>0, <1>5, <2>9, Zenon DEF Delivered
  <2> QED BY <2>10 DEF rows
<1> QED BY <1>4, <1>5

\* Without a body, nothing.
LEMMA ExpectedNothing ==
    ASSUME NEW o, o.span \in Nat, NEW w, ParserBody(o, w) = <<>>
    PROVE  ParserExpected(o, w) = <<>>
<1>1. PICK n : n = IF o.span > 1 THEN o.span ELSE 1
  OBVIOUS
<1>2. n \in Nat /\ n >= 1
  BY <1>1
<1>3. 0 < n /\ Len(<<>>) = 0
  BY <1>2
<1>4. ParserExpected(o, w) = IF Len(ParserBody(o, w)) < n THEN <<>> ELSE ParserExpected(o, w)
  BY <1>1, Zenon DEF ParserExpected
<1> QED BY <1>3, <1>4

\* The rows expected of the first m rows of the table, when the body starts
\* behind row b.
LEMMA ExpectedFrom ==
    ASSUME NEW o, o.ignore \in Nat, o.span \in Nat, NEW t, IsTable(t), NEW m \in Nat, m <= Len(t),
           NEW b \in Nat, b <= m, BodyFrom(o, t, b), Laying(o) => b < m
    PROVE  Delivered(o, t, b, m - b, ParserExpected(o, SubSeq(t, 1, m)))
<1>1. PICK w, l : w = SubSeq(t, 1, m) /\ l = m - b
  OBVIOUS
<1>2. RowsBehind(ParserBody(o, w), t, b, l)
  <2>1. RowsBehind(ParserBody(o, SubSeq(t, 1, m)), t, b, m - b)
    BY BodyIs
  <2> QED BY <1>1, <2>1
<1>3. l \in Nat /\ b + l <= Len(t)
  BY <1>1, TableParts
<1>4. Delivered(o, t, b, l, ParserExpected(o, w))
  BY <1>2, <1>3, ExpectedIs
<1> QED BY <1>1, <1>4

\* What the caller has seen, of the rows it should see: the first p of the m
\* rows that are looked at are read.
Sees(s, seen, p, m, rows) ==
    /\ IsSequence(rows) /\ Len(seen) <= Len(rows)
    /\ p = m => Len(seen) = Len(rows)
    /\ \A k \in DOMAIN seen : Shown(s, k, seen[k].cells, rows[k])

\* The rows the row limit lets through are the first ones.
LEMMA WithinIs ==
    ASSUME NEW o, o.max \in Nat, NEW t, IsTable(t)
    PROVE  \E m \in Nat : /\ m <= Len(t) /\ Within(o, t) = SubSeq(t, 1, m)
                          /\ \/ m = Len(t)
                             \/ o.max > 0 /\ ~o.fixed /\ m = o.max
<1>1. IsSequence(t) /\ Len(t) \in Nat
  BY TableParts
<1>2. SubSeq(t, 1, Len(t)) = t
  BY <1>1, SubSeqFull DEF IsSequence
<1>3. CASE o.max = 0 \/ o.fixed
  <2>1. Within(o, t) = SubSeq(t, 1, Len(t))
    BY <1>2, <1>3 DEF Within
  <2> QED BY <1>1, <2>1
<1>4. CASE ~(o.max = 0 \/ o.fixed)
  <2>1. PICK m : m = Min({o.max, Len(t)})
    OBVIOUS
  <2>2. Within(o, t) = SubSeq(t, 1, m)
    BY <1>4, <2>1 DEF Within
  <2>3. m \in {o.max, Len(t)} /\ \A y \in {o.max, Len(t)} : m <= y
    <3>1. {o.max, Len(t)} \subseteq Nat /\ {o.max, Len(t)} # {}
      BY <1>1
    <3> QED BY <2>1, <3>1, MinIsLeast
  <2> QED BY <1>1, <1>4, <2>2, <2>3
<1> QED BY <1>3, <1>4

\* What the caller should see is a sequence of rows.
LEMMA ExpectedIsSequence ==
    ASSUME NEW o, o.ignore \in Nat, o.span \in Nat, NEW t, IsTable(t), NEW m \in Nat, m <= Len(t)
    PROVE  IsSequence(ParserExpected(o, SubSeq(t, 1, m)))
<1>1. CASE ParserBody(o, SubSeq(t, 1, m)) = <<>>
  BY <1>1, ExpectedNothing, EmptyIsSequence
<1>2. CASE \E b \in Nat : b <= m /\ BodyFrom(o, t, b) /\ (Laying(o) => b < m)
  <2>1. PICK b \in Nat : b <= m /\ BodyFrom(o, t, b) /\ (Laying(o) => b < m)
    BY <1>2
  <2>2. PICK rows : rows = ParserExpected(o, SubSeq(t, 1, m))
    OBVIOUS
  <2>3. Delivered(o, t, b, m - b, rows)
    BY <2>1, <2>2, ExpectedFrom
  <2>4. HeaderRows(o) \in Nat /\ m - b \in Nat
    BY <2>1 DEF HeaderRows
  <2>5. rows = <<>> \/ IsSequence(rows)
    BY <2>3, <2>4 DEF Delivered
  <2> QED BY <2>2, <2>5, EmptyIsSequence
<1> QED BY <1>1, <1>2, BodyCases

\* Behind the first row of the body, or where there is none: the rows expected.
LEMMA ExpectedBehind ==
    ASSUME NEW o, o.ignore \in Nat, o.span \in Nat, NEW t, IsTable(t), NEW m \in Nat, m <= Len(t),
           NEW b \in Nat, b <= m, BodyFrom(o, t, b)
    PROVE  \/ Delivered(o, t, b, m - b, ParserExpected(o, SubSeq(t, 1, m)))
           \/ b = m /\ ParserExpected(o, SubSeq(t, 1, m)) = <<>>
<1>1. CASE Laying(o) => b < m
  BY <1>1, ExpectedFrom
<1>2. CASE Laying(o) /\ ~(b < m)
  <2>1. b = m /\ \A i \in (o.ignore + 1)..m : IsBlank(t[i])
    BY <1>2 DEF BodyFrom
  <2>2. ParserBody(o, SubSeq(t, 1, m)) = <<>>
    BY <1>2, <2>1, NoBody
  <2> QED BY <2>1, <2>2, ExpectedNothing
<1> QED BY <1>1, <1>2

\* In every state of the handlers, the caller has seen the first rows it should.
LEMMA SeesTheFirstRows ==
    ASSUME NEW s, NEW seen, NEW p \in Nat, TableAt(s, seen, p), HandlerInv(s), IsSequence(seen),
           s.opts.ignore \in Nat, s.opts.span \in Nat, NEW m \in Nat, m <= Len(s.table), p <= m
    PROVE  Sees(s, seen, p, m, ParserExpected(s.opts, SubSeq(s.table, 1, m)))
<1>1. PICK o, t, n : o = s.opts /\ t = s.table /\ n = HeaderRows(o)
  OBVIOUS
<1>2. PICK rows : rows = ParserExpected(o, SubSeq(t, 1, m))
  OBVIOUS
<1>3. IsTable(t) /\ o.ignore \in Nat /\ o.span \in Nat /\ m <= Len(t)
  BY <1>1 DEF TableAt
<1>4. n \in Nat /\ n >= 1 /\ (o.span > 1 => n = o.span)
  BY <1>1, <1>3 DEF HeaderRows
<1>5. IsSequence(rows) /\ Len(rows) \in Nat /\ Len(seen) \in Nat /\ DOMAIN seen = 1..Len(seen)
  <2>1. IsSequence(rows)
    BY <1>2, <1>3, ExpectedIsSequence
  <2> QED BY <2>1 DEF IsSequence
<1> SUFFICES Sees(s, seen, p, m, rows)
  BY <1>1, <1>2
<1>6. ASSUME seen = <<>>, p = m => rows = <<>>
      PROVE  Sees(s, seen, p, m, rows)
  <2>1. Len(seen) = 0 /\ DOMAIN seen = {} /\ (p = m => Len(rows) = 0)
    BY <1>6
  <2> QED BY <1>5, <2>1 DEF Sees
<1>7. CASE s.handler = "ignore_header_rows"
  <2>1. p < o.ignore /\ seen = <<>>
    BY <1>1, <1>7, Zenon DEF TableAt
  <2>2. p = m => rows = <<>>
    <3> SUFFICES ASSUME p = m PROVE rows = <<>>
      OBVIOUS
    <3>1. o.ignore >= m
      BY <1>3, <2>1
    <3>2. ParserBody(o, SubSeq(t, 1, m)) = <<>>
      BY <1>3, <3>1, NoBody
    <3> QED BY <1>2, <1>3, <3>2, ExpectedNothing
  <2> QED BY <1>6, <2>1, <2>2
<1>8. CASE s.handler = "skip_to_first_row_w_data"
  <2>1. Laying(o) /\ seen = <<>> /\ \A i \in (o.ignore + 1)..p : IsBlank(t[i])
    BY <1>1, <1>8, Zenon DEF TableAt
  <2>2. p = m => rows = <<>>
    <3> SUFFICES ASSUME p = m PROVE rows = <<>>
      OBVIOUS
    <3>1. \A i \in (o.ignore + 1)..m : IsBlank(t[i])
      BY <2>1
    <3>2. ParserBody(o, SubSeq(t, 1, m)) = <<>>
      BY <1>3, <2>1, <3>1, NoBody
    <3> QED BY <1>2, <1>3, <3>2, ExpectedNothing
  <2> QED BY <1>6, <2>1, <2>2
<1>9. CASE s.handler = "collate_header_row"
  <2>1. PICK b \in 0..p : /\ BodyFrom(o, t, b) /\ o.span > 1 /\ s.span = o.span - (p - b) /\ s.span >= 1
                          /\ seen = <<>>
    BY <1>1, <1>9, Zenon DEF TableAt
  <2>2. p = m => rows = <<>>
    <3> SUFFICES ASSUME p = m PROVE rows = <<>>
      OBVIOUS
    <3>1. b \in Nat /\ b <= m /\ m - b < n
      BY <1>3, <1>4, <2>1
    <3>2. Delivered(o, t, b, m - b, rows) \/ rows = <<>>
      BY <1>2, <1>3, <2>1, <3>1, ExpectedBehind
    <3> QED BY <1>1, <3>1, <3>2 DEF Delivered
  <2> QED BY <1>6, <2>1, <2>2
<1>10. CASE s.handler = "caller"
  <2>1. PICK b \in 0..p :
          /\ BodyFrom(o, t, b) /\ p - b >= n - 1 /\ (n > 1 => p - b >= n)
          /\ Len(seen) = p - b - n + 1
          /\ \A k \in DOMAIN seen : Shown(s, k, seen[k].cells, BodyRow(o, t, b, k))
    BY <1>1, <1>10, Zenon DEF TableAt
  <2>2. b \in Nat /\ b <= m /\ b <= p /\ m - b \in Nat
    BY <2>1
  <2>3. Delivered(o, t, b, m - b, rows) \/ (b = m /\ rows = <<>>)
    BY <1>2, <1>3, <2>1, <2>2, ExpectedBehind
  <2>4. CASE rows = <<>> /\ (b = m \/ m - b < n)
    <3>1. Len(seen) = 0
      BY <1>4, <2>1, <2>2, <2>4
    <3>2. seen = <<>>
      BY <1>5, <3>1, EmptySeq DEF IsSequence
    <3> QED BY <1>6, <2>4, <3>2
  <2>5. CASE Delivered(o, t, b, m - b, rows) /\ m - b >= n
    <3>1. Len(rows) = m - b - n + 1 /\ \A k \in 1..(m - b - n + 1) : rows[k] = BodyRow(o, t, b, k)
      BY <1>1, <2>5, Zenon DEF Delivered
    <3>2. Len(seen) <= Len(rows) /\ (p = m => Len(seen) = Len(rows))
      BY <1>4, <2>1, <2>2, <3>1
    <3>3. \A k \in DOMAIN seen : rows[k] = BodyRow(o, t, b, k)
      BY <1>5, <3>1, <3>2
    <3>4. \A k \in DOMAIN seen : Shown(s, k, seen[k].cells, rows[k])
      BY <2>1, <3>3
    <3> QED BY <1>5, <3>2, <3>4 DEF Sees
  <2>6. Delivered(o, t, b, m - b, rows) /\ ~(m - b >= n) => rows = <<>> /\ m - b < n
    <3>1. ~(m - b >= n) => m - b < n
      BY <1>4, <2>2
    <3> QED BY <1>1, <3>1, Zenon DEF Delivered
  <2> QED BY <2>3, <2>4, <2>5, <2>6
<1> QED BY <1>7, <1>8, <1>9, <1>10 DEF HandlerInv

\* That is what CallerSeesTheTable asks.
LEMMA TableIsSeen == TableInv => CallerSeesTheTable
<1> SUFFICES ASSUME TableInv PROVE CallerSeesTheTable
  OBVIOUS
<1>1. PICK p : p = st.next - 1
  OBVIOUS
<1>2. PICK o, t, ow : o = st.opts /\ t = st.table /\ ow = st.orig
  OBVIOUS
<1>3. /\ p \in Nat /\ TableAt(st, out, p) /\ HandlerInv(st) /\ IsSequence(out)
      /\ o \in [ignore : Nat, keep : BOOLEAN, span : Nat, fixed : BOOLEAN, max : Nat, interval : Nat]
  BY <1>1, <1>2 DEF TableInv, ParserInv, IsScanner
<1>4. /\ o.ignore \in Nat /\ o.span \in Nat /\ o.max \in Nat /\ IsTable(t) /\ p <= Len(t)
      /\ Len(t) \in Nat
  <2>1. o.ignore \in Nat /\ o.span \in Nat /\ o.max \in Nat
    BY <1>3
  <2>2. IsTable(t) /\ p \in 0..Len(t)
    BY <1>2, <1>3, Zenon DEF TableAt
  <2>3. Len(t) \in Nat
    BY <2>2, TableParts
  <2> QED BY <2>1, <2>2, <2>3
<1>5. PICK m \in Nat : /\ m <= Len(t) /\ Within(o, t) = SubSeq(t, 1, m)
                       /\ m = Len(t) \/ (o.max > 0 /\ ~o.fixed /\ m = o.max)
  BY <1>4, WithinIs
<1>6. p <= m
  <2>1. ~o.fixed /\ o.max > 0 => p <= o.max
    BY <1>1, <1>2 DEF TableInv
  <2> QED BY <1>4, <1>5, <2>1
<1>7. PICK rows : rows = ParserExpected(o, Within(o, t))
  OBVIOUS
<1>8. Sees(st, out, p, m, rows)
  BY <1>2, <1>3, <1>4, <1>5, <1>6, <1>7, SeesTheFirstRows
<1>9. /\ IsSequence(rows) /\ Len(rows) \in Nat /\ DOMAIN rows = 1..Len(rows)
      /\ Len(out) \in Nat /\ DOMAIN out = 1..Len(out)
      /\ Len(out) <= Len(rows) /\ (p = m => Len(out) = Len(rows))
      /\ \A k \in DOMAIN out : Shown(st, k, out[k].cells, rows[k])
  <2>1. IsSequence(rows) /\ Len(out) <= Len(rows) /\ (p = m => Len(out) = Len(rows))
        /\ \A k \in DOMAIN out : Shown(st, k, out[k].cells, rows[k])
    BY <1>8 DEF Sees
  <2> QED BY <1>3, <2>1 DEF IsSequence
<1>10. st.pc = "done" /\ st.stat = "ok" => p = m
  <2>1. st.pc = "done" /\ st.stat = "ok" => st.next > Len(t) /\ st.next \in Nat
    BY <1>2 DEF TableInv
  <2> QED BY <1>1, <1>3, <1>4, <1>5, <1>6, <2>1
<1> DEFINE laid == Overlaid(rows, ow)
           want == IF o.keep \/ o.fixed THEN rows ELSE laid
           seen == [k \in DOMAIN out |-> out[k].cells]
<1>11. Len(seen) = Len(out) /\ DOMAIN seen = DOMAIN out /\ \A k \in DOMAIN out : seen[k] = out[k].cells
  <2>1. seen = [k \in 1..Len(out) |-> out[k].cells]
    BY <1>9
  <2>2. DOMAIN seen = 1..Len(out) /\ \A k \in DOMAIN out : seen[k] = out[k].cells
    BY <1>9
  <2> HIDE DEF seen
  <2>3. seen = [k \in 1..Len(out) |-> seen[k]]
    BY <1>9, <2>1, <2>2
  <2>4. Len(seen) = Len(out)
    BY <1>9, <2>3, ListIsSequence
  <2> QED BY <1>9, <2>2, <2>4
<1>12. Len(laid) = Len(rows) /\ \A k \in DOMAIN rows : laid[k] = Laid(rows[k], ow, k - 1)
  <2>1. laid = [r \in DOMAIN rows |-> Laid(rows[r], ow, r - 1)]
    BY Zenon DEF Overlaid, Laid, EntriesAt
  <2>2. laid = [r \in 1..Len(rows) |-> Laid(rows[r], ow, r - 1)]
    BY <1>9, <2>1
  <2> HIDE DEF laid
  <2>3. DOMAIN laid = 1..Len(rows) /\ \A k \in DOMAIN rows : laid[k] = Laid(rows[k], ow, k - 1)
    BY <1>9, <2>2
  <2>4. laid = [k \in 1..Len(rows) |-> laid[k]]
    BY <2>2, <2>3
  <2>5. Len(laid) = Len(rows)
    BY <1>9, <2>4, ListIsSequence
  <2> QED BY <2>3, <2>5
<1> HIDE DEF laid, seen
<1>13. Len(want) = Len(rows)
  BY <1>12
<1>14. ASSUME NEW k \in DOMAIN seen
       PROVE  seen[k] = want[k] \/ (ow # <<>> /\ (o.keep \/ o.fixed))
  <2>1. k \in DOMAIN out /\ seen[k] = out[k].cells /\ k \in DOMAIN rows
    <3>1. k \in DOMAIN out
      BY <1>11, <1>14
    <3>2. k \in 1..Len(out) /\ DOMAIN rows = 1..Len(rows) /\ Len(out) <= Len(rows)
          /\ Len(out) \in Nat /\ Len(rows) \in Nat
      BY <1>9, <3>1
    <3>3. k \in DOMAIN rows
      BY <3>2
    <3> QED BY <1>11, <3>1, <3>3
  <2>2. Shown(st, k, seen[k], rows[k])
    BY <1>9, <2>1
  <2>3. CASE Laying(o)
    <3>1. seen[k] = Laid(rows[k], ow, k - 1)
      BY <1>2, <2>2, <2>3, Zenon DEF Shown
    <3>2. want = laid
      BY <2>3 DEF Laying
    <3> QED BY <1>12, <2>1, <3>1, <3>2
  <2>4. CASE ~Laying(o)
    <3>1. ow = <<>> => seen[k] = rows[k]
      BY <1>2, <2>2, <2>4, Zenon DEF Shown
    <3>2. (o.keep \/ o.fixed) /\ want = rows
      BY <2>4 DEF Laying
    <3> QED BY <3>1, <3>2
  <2> QED BY <2>3, <2>4
<1> HIDE DEF want
<1>15. /\ Len(seen) <= Len(want)
       /\ \A k \in DOMAIN seen : seen[k] = want[k] \/ (ow # <<>> /\ (o.keep \/ o.fixed))
       /\ st.pc = "done" /\ st.stat = "ok" => Len(seen) = Len(want)
  BY <1>9, <1>10, <1>11, <1>13, <1>14
<1> QED BY <1>2, <1>7, <1>15, Zenon DEF CallerSeesTheTable, want, laid, seen

\* The caller sees the header and then the rows of the table, in order and none
\* twice, with the overwrites in the cells they name, and all of them when
\* nothing stopped the parse (set_callbacks, collate_header_row,
\* zsv_get_cell_with_overwrite): of any table, for any overwrites in order and
\* any options.
THEOREM CallerSeesTheRightRows == ParserSpec => []CallerSeesTheTable
<1> QED BY TableInvariant, TableIsSeen, PTL

-----------------------------------------------------------------------------
(* Fixed width: the rows are the lines, however the input is read          *)

\* The greatest element of a set of numbers that has a bound.
LEMMA MaxIsGreatest ==
    ASSUME NEW n \in Nat, NEW S, S \subseteq 0..n, S # {}
    PROVE  Max(S) \in S /\ \A y \in S : Max(S) >= y
<1> DEFINE T == {n - y : y \in S}
<1>0. \A y \in S : n - y \in Nat
  OBVIOUS
<1>1. T \subseteq Nat /\ T # {}
  BY <1>0
<1>2. PICK t \in T : \A x \in T : t <= x
  BY <1>1, LeastNatural
<1>3. PICK m \in S : t = n - m
  BY <1>2
<1>4. \A y \in S : m >= y
  <2> SUFFICES ASSUME NEW y \in S PROVE m >= y
    OBVIOUS
  <2>1. t <= n - y
    BY <1>2
  <2> QED BY <1>3, <2>1
<1>5. \E x \in S : \A y \in S : x >= y
  BY <1>4
<1> QED BY <1>5, Zenon DEF Max

\* What is meant by the last line end of the first n bytes.
IsLastEnd(input, n, z) ==
    /\ z \in 0..n /\ (z > 0 => input[z] \in LineEnds)
    /\ \A j \in (z + 1)..n : input[j] \notin LineEnds

\* LastEnd is that.
LEMMA LastEndIs ==
    ASSUME NEW input, NEW n \in Nat
    PROVE  IsLastEnd(input, n, LastEnd(input, n))
<1> DEFINE S == {0} \cup {j \in 1..n : input[j] \in LineEnds}
<1>1. S \subseteq 0..n /\ S # {}
  OBVIOUS
<1>2. Max(S) \in S /\ \A y \in S : Max(S) >= y
  BY <1>1, MaxIsGreatest
<1>3. PICK z : z = Max(S)
  OBVIOUS
<1>4. z \in S /\ \A y \in S : z >= y
  BY <1>2, <1>3
<1>5. z \in 0..n /\ (z > 0 => input[z] \in LineEnds)
  BY <1>4
<1>6. \A j \in (z + 1)..n : input[j] \notin LineEnds
  <2> SUFFICES ASSUME NEW j \in (z + 1)..n, input[j] \in LineEnds PROVE FALSE
    OBVIOUS
  <2>1. j \in 1..n
    BY <1>5
  <2>2. j \in S
    BY <2>1
  <2> QED BY <1>4, <1>5, <2>2
<1>7. LastEnd(input, n) = z
  BY <1>3, Zenon DEF LastEnd
<1> QED BY <1>5, <1>6, <1>7 DEF IsLastEnd

\* And nothing else is.
LEMMA LastEndIsOne ==
    ASSUME NEW input, NEW n \in Nat, NEW z, IsLastEnd(input, n, z)
    PROVE  LastEnd(input, n) = z
<1>1. PICK y : y = LastEnd(input, n)
  OBVIOUS
<1>2. IsLastEnd(input, n, y)
  BY <1>1, LastEndIs
<1>3. y \in Nat /\ z \in Nat
  BY <1>2 DEF IsLastEnd
<1>4. ~(y < z)
  <2> SUFFICES ASSUME y < z PROVE FALSE
    OBVIOUS
  <2>1. z \in (y + 1)..n /\ input[z] \in LineEnds
    BY <1>3 DEF IsLastEnd
  <2> QED BY <1>2, <2>1 DEF IsLastEnd
<1>5. ~(z < y)
  <2> SUFFICES ASSUME z < y PROVE FALSE
    OBVIOUS
  <2>1. y \in (z + 1)..n /\ input[y] \in LineEnds
    BY <1>2, <1>3 DEF IsLastEnd
  <2> QED BY <2>1 DEF IsLastEnd
<1> QED BY <1>1, <1>3, <1>4, <1>5

\* One byte more.
LEMMA LastEndNext ==
    ASSUME NEW input, NEW n \in Nat
    PROVE  /\ input[n + 1] \in LineEnds => LastEnd(input, n + 1) = n + 1
           /\ input[n + 1] \notin LineEnds => LastEnd(input, n + 1) = LastEnd(input, n)
<1>0. n + 1 \in Nat
  OBVIOUS
<1>1. ASSUME input[n + 1] \in LineEnds PROVE LastEnd(input, n + 1) = n + 1
  <2>1. IsLastEnd(input, n + 1, n + 1)
    BY <1>1 DEF IsLastEnd
  <2> QED BY <1>0, <2>1, LastEndIsOne
<1>2. ASSUME input[n + 1] \notin LineEnds PROVE LastEnd(input, n + 1) = LastEnd(input, n)
  <2>1. PICK z : z = LastEnd(input, n)
    OBVIOUS
  <2>2. IsLastEnd(input, n, z)
    BY <2>1, LastEndIs
  <2>3. z \in 0..(n + 1) /\ (z > 0 => input[z] \in LineEnds)
    BY <2>2 DEF IsLastEnd
  <2>4. \A j \in (z + 1)..(n + 1) : input[j] \notin LineEnds
    <3> SUFFICES ASSUME NEW j \in (z + 1)..(n + 1) PROVE input[j] \notin LineEnds
      OBVIOUS
    <3>1. CASE j = n + 1
      BY <1>2, <3>1
    <3>2. CASE j # n + 1
      <4>1. j \in (z + 1)..n
        BY <2>3, <3>2
      <4> QED BY <2>2, <4>1 DEF IsLastEnd
    <3> QED BY <3>1, <3>2
  <2>5. IsLastEnd(input, n + 1, z)
    BY <2>3, <2>4 DEF IsLastEnd
  <2> QED BY <1>0, <2>1, <2>5, LastEndIsOne
<1> QED BY <1>1, <1>2

\* The bytes among the first n that end a line.
EndedIn(input, n) == {e \in 1..n : EndsLine(input, e)}

\* They are counted one by one.
LEMMA EndedNext ==
    ASSUME NEW input, NEW n \in Nat
    PROVE  /\ IsFiniteSet(EndedIn(input, n)) /\ Cardinality(EndedIn(input, n)) \in Nat
           /\ \A e \in EndedIn(input, n) :
                Cardinality(EndedIn(input, e)) \in 1..Cardinality(EndedIn(input, n))
           /\ EndsLine(input, n + 1) =>
                /\ EndedIn(input, n + 1) = EndedIn(input, n) \cup {n + 1}
                /\ Cardinality(EndedIn(input, n + 1)) = Cardinality(EndedIn(input, n)) + 1
           /\ ~EndsLine(input, n + 1) => EndedIn(input, n + 1) = EndedIn(input, n)
<1>1. ASSUME NEW m \in Nat
      PROVE  IsFiniteSet(EndedIn(input, m)) /\ Cardinality(EndedIn(input, m)) \in Nat
  <2>1. IsFiniteSet(1..m)
    BY FS_Interval
  <2>2. EndedIn(input, m) \subseteq 1..m
    BY DEF EndedIn
  <2>3. IsFiniteSet(EndedIn(input, m))
    BY <2>1, <2>2, FS_Subset
  <2> QED BY <2>3, FS_CardinalityType
<1>2. ASSUME NEW e \in EndedIn(input, n)
      PROVE  Cardinality(EndedIn(input, e)) \in 1..Cardinality(EndedIn(input, n))
  <2>1. e \in 1..n /\ e \in Nat
    BY DEF EndedIn
  <2>2. e \in EndedIn(input, e) /\ EndedIn(input, e) \subseteq EndedIn(input, n)
    BY <2>1 DEF EndedIn
  <2>3. /\ IsFiniteSet(EndedIn(input, e)) /\ Cardinality(EndedIn(input, e)) \in Nat
        /\ IsFiniteSet(EndedIn(input, n)) /\ Cardinality(EndedIn(input, n)) \in Nat
    BY <1>1, <2>1
  <2>4. Cardinality(EndedIn(input, e)) <= Cardinality(EndedIn(input, n))
    BY <2>2, <2>3, FS_Subset
  <2>5. Cardinality(EndedIn(input, e)) # 0
    BY <2>2, <2>3, FS_EmptySet
  <2> QED BY <2>3, <2>4, <2>5
<1>3. ASSUME EndsLine(input, n + 1)
      PROVE  /\ EndedIn(input, n + 1) = EndedIn(input, n) \cup {n + 1}
             /\ Cardinality(EndedIn(input, n + 1)) = Cardinality(EndedIn(input, n)) + 1
  <2>0. 1..(n + 1) = 1..n \cup {n + 1}
    OBVIOUS
  <2>1. EndedIn(input, n + 1) = EndedIn(input, n) \cup {n + 1}
    BY <1>3, <2>0 DEF EndedIn
  <2>2. n + 1 \notin EndedIn(input, n)
    BY DEF EndedIn
  <2>3. IsFiniteSet(EndedIn(input, n))
    BY <1>1
  <2> QED BY <2>1, <2>2, <2>3, FS_AddElement
<1>4. ASSUME ~EndsLine(input, n + 1) PROVE EndedIn(input, n + 1) = EndedIn(input, n)
  <2>0. 1..(n + 1) = 1..n \cup {n + 1}
    OBVIOUS
  <2> QED BY <1>4, <2>0 DEF EndedIn
<1> QED BY <1>1, <1>2, <1>3, <1>4

\* A part of a part.
LEMMA PartOfPart ==
    ASSUME NEW s, IsSequence(s), NEW k \in Nat, NEW m \in Nat, k <= m, m <= Len(s),
           NEW a \in Nat, NEW b \in Nat, a <= b, b <= m - k
    PROVE  SubSeq(SubSeq(s, k + 1, m), a + 1, b) = SubSeq(s, k + a + 1, k + b)
<1> DEFINE t == SubSeq(s, k + 1, m)
           u == SubSeq(t, a + 1, b)
           v == SubSeq(s, (k + a) + 1, k + b)
<1>1. IsSequence(t) /\ Len(t) = m - k /\ \A i \in 1..(m - k) : t[i] = s[k + i]
  BY PartOfSequence
<1> HIDE DEF t
<1>2. IsSequence(u) /\ Len(u) = b - a /\ \A i \in 1..(b - a) : u[i] = t[a + i]
  <2>1. IsSequence(t) /\ a \in Nat /\ b \in Nat /\ a <= b /\ b <= Len(t)
    BY <1>1
  <2>2. LET w == SubSeq(t, a + 1, b)
        IN  /\ IsSequence(w) /\ Len(w) = b - a /\ DOMAIN w = 1..(b - a)
            /\ \A i \in 1..(b - a) : w[i] = t[a + i]
    BY <2>1, PartOfSequence, Zenon
  <2> QED BY <2>2
<1>3. k + a \in Nat /\ k + b \in Nat /\ k + a <= k + b /\ k + b <= Len(s)
      /\ (k + b) - (k + a) = b - a
  <2>1. Len(s) \in Nat
    BY DEF IsSequence
  <2> QED BY <2>1
<1>4. IsSequence(v) /\ Len(v) = b - a /\ \A i \in 1..(b - a) : v[i] = s[k + a + i]
  <2>1. PICK p, q : p = k + a /\ q = k + b
    OBVIOUS
  <2>2. IsSequence(s) /\ p \in Nat /\ q \in Nat /\ p <= q /\ q <= Len(s)
    BY <1>3, <2>1
  <2>3. LET w == SubSeq(s, p + 1, q)
        IN  /\ IsSequence(w) /\ Len(w) = q - p /\ DOMAIN w = 1..(q - p)
            /\ \A i \in 1..(q - p) : w[i] = s[p + i]
    BY <2>2, PartOfSequence, Zenon
  <2> QED BY <1>3, <2>1, <2>3
<1> HIDE DEF u, v
<1>5. \A i \in 1..Len(u) : u[i] = v[i]
  <2> SUFFICES ASSUME NEW i \in 1..(b - a) PROVE u[i] = v[i]
    BY <1>2
  <2>1. a + i \in 1..(m - k) /\ k + (a + i) = k + a + i
    OBVIOUS
  <2>2. t[a + i] = s[k + a + i]
    BY <1>1, <2>1
  <2> QED BY <1>2, <1>4, <2>2
<1>6. u = v
  BY <1>2, <1>4, <1>5, SamePlaces
<1> QED BY <1>6 DEF u, v, t

\* A line that the buffer can hold keeps all its bytes.
LEMMA ShortLine ==
    ASSUME NEW offsets, NEW line, IsSequence(line), Len(line) <= FxBuffer
    PROVE  LineCells(offsets, line) = RowCells(offsets, line)
<1>1. Len(line) \in Nat /\ FxBuffer \in Nat
  BY FxAssumption DEF IsSequence
<1>2. Min({FxBuffer, Len(line)}) = Len(line)
  <2>1. {FxBuffer, Len(line)} \subseteq Nat
    BY <1>1
  <2>2. PICK m : m = Min({FxBuffer, Len(line)})
    OBVIOUS
  <2>3. m \in {FxBuffer, Len(line)} /\ \A y \in {FxBuffer, Len(line)} : m <= y
    BY <2>1, <2>2, MinIsLeast
  <2> QED BY <1>1, <2>2, <2>3
<1>3. SubSeq(line, 1, Len(line)) = line
  <2> DEFINE t == SubSeq(line, 0 + 1, Len(line))
  <2>1. IsSequence(t) /\ Len(t) = Len(line) - 0 /\ \A k \in 1..(Len(line) - 0) : t[k] = line[0 + k]
    BY <1>1, PartOfSequence
  <2> HIDE DEF t
  <2>2. t = line
    BY <1>1, <2>1, SamePlaces
  <2> QED BY <2>2 DEF t
<1> QED BY <1>2, <1>3 DEF LineCells

\* Of a longer one it is the first bytes that count.
LEMMA LongLine ==
    ASSUME NEW offsets, NEW input, IsSequence(input), NEW z \in Nat, NEW m \in Nat, NEW n \in Nat,
           z + FxBuffer <= m, m <= n, n <= Len(input)
    PROVE  LineCells(offsets, SubSeq(input, z + 1, m)) = LineCells(offsets, SubSeq(input, z + 1, n))
<1>0. FxBuffer \in Nat /\ Len(input) \in Nat
  BY FxAssumption DEF IsSequence
<1>1. ASSUME NEW i \in Nat, z + FxBuffer <= i, i <= Len(input)
      PROVE  LineCells(offsets, SubSeq(input, z + 1, i))
               = RowCells(offsets, SubSeq(input, z + 1, z + FxBuffer))
  <2> DEFINE t == SubSeq(input, z + 1, i)
  <2>1. z <= i /\ FxBuffer <= i - z /\ i - z \in Nat
    BY <1>0, <1>1
  <2>2. Len(t) = i - z
    BY <1>1, <2>1, PartOfSequence
  <2>3. Min({FxBuffer, Len(t)}) = FxBuffer
    <3> HIDE DEF t
    <3>1. {FxBuffer, Len(t)} \subseteq Nat
      BY <1>0, <2>1, <2>2
    <3>2. PICK x : x = Min({FxBuffer, Len(t)})
      OBVIOUS
    <3>3. x \in {FxBuffer, Len(t)} /\ \A y \in {FxBuffer, Len(t)} : x <= y
      BY <3>1, <3>2, MinIsLeast
    <3> QED BY <1>0, <2>1, <2>2, <3>2, <3>3
  <2>4. PICK a : a = 0
    OBVIOUS
  <2>5. a \in Nat /\ a <= FxBuffer /\ a + 1 = 1 /\ z + a + 1 = z + 1
    BY <1>0, <2>4
  <2>6. SubSeq(SubSeq(input, z + 1, i), a + 1, FxBuffer) = SubSeq(input, z + a + 1, z + FxBuffer)
    BY <1>0, <1>1, <2>1, <2>5, PartOfPart
  <2>7. SubSeq(t, 1, FxBuffer) = SubSeq(input, z + 1, z + FxBuffer)
    BY <2>5, <2>6
  <2> HIDE DEF t
  <2>8. LineCells(offsets, t) = RowCells(offsets, SubSeq(input, z + 1, z + FxBuffer))
    BY <2>3, <2>7 DEF LineCells
  <2> QED BY <2>8 DEF t
<1>2. z + FxBuffer <= n /\ m <= Len(input)
  BY <1>0
<1> QED BY <1>1, <1>2

\* The rows handed over and what the buffer holds are those of the first n
\* bytes: a row for each line that has ended and, once the line that is open has
\* been cut off, its row as well; the buffer holds the rest of that line.
FxTracks(input, offsets, rows, buff, throwaway, n) ==
    LET open == n - LastEnd(input, n)
        ended == EndedIn(input, n)
    IN  /\ IsSequence(rows) /\ throwaway \in BOOLEAN
        /\ Len(buff) \in 0..open /\ buff = SubSeq(input, n - Len(buff) + 1, n)
        /\ Len(rows) = Cardinality(ended) + (IF throwaway THEN 1 ELSE 0)
        /\ \A e \in ended :
             rows[Cardinality(EndedIn(input, e))] = LineCells(offsets, LineBefore(input, e))
        /\ IF throwaway
           THEN /\ Len(buff) + FxBuffer <= open
                /\ rows[Len(rows)]
                     = LineCells(offsets, SubSeq(input, LastEnd(input, n) + 1, n))
           ELSE Len(buff) = open

\* A part without anything.
LEMMA EmptyPart ==
    ASSUME NEW input, IsSequence(input), NEW n \in Nat, n <= Len(input)
    PROVE  Len(<<>>) = 0 /\ <<>> = SubSeq(input, n - Len(<<>>) + 1, n)
<1> DEFINE t == SubSeq(input, n + 1, n)
<1>1. IsSequence(t) /\ Len(t) = n - n
  BY PartOfSequence
<1> HIDE DEF t
<1>2. t = <<>>
  <2>1. Len(t) = 0
    BY <1>1
  <2> QED BY <1>1, <2>1 DEF IsSequence
<1>3. n - Len(<<>>) + 1 = n + 1
  OBVIOUS
<1> QED BY <1>2, <1>3 DEF t

\* A byte that is no line end.
LEMMA PlainByteTracked ==
    ASSUME NEW input, IsSequence(input), NEW offsets, NEW rows, NEW buff, NEW throwaway,
           NEW n \in Nat, n < Len(input), FxTracks(input, offsets, rows, buff, throwaway, n),
           input[n + 1] \notin LineEnds
    PROVE  FxTracks(input, offsets, rows, SubSeq(input, n - Len(buff) + 1, n + 1), throwaway, n + 1)
<1>0. PICK z, w, t : z = LastEnd(input, n) /\ w = Len(buff)
                     /\ t = SubSeq(input, n - Len(buff) + 1, n + 1)
  OBVIOUS
<1>1. LastEnd(input, n + 1) = z /\ z \in 0..n
  BY <1>0, LastEndNext, LastEndIs DEF IsLastEnd
<1>2. EndedIn(input, n + 1) = EndedIn(input, n)
  <2>1. ~EndsLine(input, n + 1)
    BY DEF EndsLine
  <2> QED BY <2>1, EndedNext
<1>3. w \in 0..(n - z) /\ Len(input) \in Nat
  BY <1>0 DEF FxTracks, IsSequence
<1>4. Len(t) = w + 1
  <2>1. n - w \in Nat /\ n + 1 \in Nat /\ n - w <= n + 1 /\ n + 1 <= Len(input)
        /\ (n + 1) - (n - w) = w + 1
    BY <1>1, <1>3
  <2> QED BY <1>0, <2>1, PartOfSequence
<1>5. t = SubSeq(input, (n + 1) - Len(t) + 1, n + 1)
  <2>1. (n + 1) - Len(t) + 1 = n - w + 1
    BY <1>1, <1>3, <1>4
  <2> QED BY <1>0, <2>1
<1>6. Len(t) \in 0..((n + 1) - z)
  BY <1>1, <1>3, <1>4
<1>7. /\ IsSequence(rows) /\ throwaway \in BOOLEAN
      /\ Len(rows) = Cardinality(EndedIn(input, n)) + (IF throwaway THEN 1 ELSE 0)
      /\ \A e \in EndedIn(input, n) :
           rows[Cardinality(EndedIn(input, e))] = LineCells(offsets, LineBefore(input, e))
  BY DEF FxTracks
<1>8. ASSUME throwaway
      PROVE  /\ Len(t) + FxBuffer <= (n + 1) - z
             /\ rows[Len(rows)] = LineCells(offsets, SubSeq(input, z + 1, n + 1))
  <2>1. w + FxBuffer <= n - z /\ rows[Len(rows)] = LineCells(offsets, SubSeq(input, z + 1, n))
    BY <1>0, <1>8 DEF FxTracks
  <2>2. FxBuffer \in Nat
    BY FxAssumption
  <2>3. z + FxBuffer <= n /\ n <= n + 1 /\ n + 1 <= Len(input) /\ n + 1 \in Nat /\ z \in Nat
    BY <1>1, <1>3, <2>1, <2>2
  <2>4. LineCells(offsets, SubSeq(input, z + 1, n)) = LineCells(offsets, SubSeq(input, z + 1, n + 1))
    BY <2>3, LongLine
  <2>5. Len(t) + FxBuffer <= (n + 1) - z
    BY <1>1, <1>3, <1>4, <2>1, <2>2
  <2> QED BY <2>1, <2>4, <2>5
<1>9. ASSUME ~throwaway PROVE Len(t) = (n + 1) - z
  <2>1. w = n - z
    BY <1>0, <1>9 DEF FxTracks
  <2> QED BY <1>1, <1>4, <2>1
<1>10. FxTracks(input, offsets, rows, t, throwaway, n + 1)
  BY <1>1, <1>2, <1>5, <1>6, <1>7, <1>8, <1>9, Zenon DEF FxTracks
<1> QED BY <1>0, <1>10

\* The line feed of CR LF.
LEMMA LineFeedTracked ==
    ASSUME NEW input, IsSequence(input), NEW offsets, NEW rows, NEW buff, NEW throwaway,
           NEW n \in Nat, n < Len(input), FxTracks(input, offsets, rows, buff, throwaway, n),
           input[n + 1] \in LineEnds, ~EndsLine(input, n + 1)
    PROVE  ~throwaway /\ FxTracks(input, offsets, rows, <<>>, throwaway, n + 1)
<1>1. n > 0 /\ input[n] = "\r"
  BY DEF EndsLine
<1>2. LastEnd(input, n) = n
  <2>1. n - 1 \in Nat /\ (n - 1) + 1 = n /\ input[n] \in LineEnds
    BY <1>1 DEF LineEnds
  <2> QED BY <2>1, LastEndNext
<1>3. ~throwaway
  <2> SUFFICES ASSUME throwaway PROVE FALSE
    OBVIOUS
  <2>1. Len(buff) \in Nat /\ Len(buff) + FxBuffer <= n - n
    BY <1>2 DEF FxTracks
  <2>2. FxBuffer \in Nat /\ FxBuffer # 0
    BY FxAssumption
  <2> QED BY <2>1, <2>2
<1>4. LastEnd(input, n + 1) = n + 1
  BY LastEndNext
<1>5. EndedIn(input, n + 1) = EndedIn(input, n)
  BY EndedNext
<1>6. /\ IsSequence(rows) /\ throwaway \in BOOLEAN
      /\ Len(rows) = Cardinality(EndedIn(input, n)) + (IF throwaway THEN 1 ELSE 0)
      /\ \A e \in EndedIn(input, n) :
           rows[Cardinality(EndedIn(input, e))] = LineCells(offsets, LineBefore(input, e))
  BY DEF FxTracks
<1>7. PICK none : none = <<>>
  OBVIOUS
<1>8. Len(none) = 0 /\ none = SubSeq(input, (n + 1) - Len(none) + 1, n + 1)
  <2>1. n + 1 \in Nat /\ n + 1 <= Len(input)
    BY DEF IsSequence
  <2> QED BY <1>7, <2>1, EmptyPart
<1>9. Len(none) \in 0..((n + 1) - (n + 1)) /\ Len(none) = (n + 1) - (n + 1)
  BY <1>8
<1>10. FxTracks(input, offsets, rows, none, throwaway, n + 1)
  BY <1>3, <1>4, <1>5, <1>6, <1>8, <1>9, Zenon DEF FxTracks
<1> QED BY <1>3, <1>7, <1>10

\* The rows after one more, unless it is thrown away.
HandedOver(offsets, rows, buff, throwaway) ==
    IF throwaway THEN rows ELSE Append(rows, RowCells(offsets, buff))

\* A row for each line that has ended, and one for the line that is open.
OpenRowIsLast(input, offsets, rows, n) ==
    /\ IsSequence(rows) /\ Cardinality(EndedIn(input, n)) \in Nat
    /\ Len(rows) = Cardinality(EndedIn(input, n)) + 1
    /\ rows[Cardinality(EndedIn(input, n)) + 1]
         = LineCells(offsets, SubSeq(input, LastEnd(input, n) + 1, n))
    /\ \A e \in EndedIn(input, n) :
         rows[Cardinality(EndedIn(input, e))] = LineCells(offsets, LineBefore(input, e))

\* What has been handed over of the line that is open is its row.
LEMMA OpenRow ==
    ASSUME NEW input, IsSequence(input), NEW offsets, NEW rows, NEW buff, NEW throwaway,
           NEW n \in Nat, n <= Len(input), FxTracks(input, offsets, rows, buff, throwaway, n),
           Len(buff) <= FxBuffer
    PROVE  OpenRowIsLast(input, offsets, HandedOver(offsets, rows, buff, throwaway), n)
<1>0. PICK z, count, more :
        /\ z = LastEnd(input, n) /\ count = Cardinality(EndedIn(input, n))
        /\ more = HandedOver(offsets, rows, buff, throwaway)
  OBVIOUS
<1>1. z \in 0..n /\ count \in Nat
  BY <1>0, LastEndIs, EndedNext DEF IsLastEnd
<1>2. /\ IsSequence(rows) /\ throwaway \in BOOLEAN
      /\ Len(buff) \in 0..(n - z) /\ buff = SubSeq(input, n - Len(buff) + 1, n)
      /\ Len(rows) = count + (IF throwaway THEN 1 ELSE 0)
      /\ \A e \in EndedIn(input, n) :
           rows[Cardinality(EndedIn(input, e))] = LineCells(offsets, LineBefore(input, e))
  BY <1>0, Zenon DEF FxTracks
<1>3. \A e \in EndedIn(input, n) : Cardinality(EndedIn(input, e)) \in 1..count
  BY <1>0, EndedNext
<1>4. CASE throwaway
  <2>1. more = rows /\ Len(rows) = count + 1
    BY <1>0, <1>2, <1>4 DEF HandedOver
  <2>2. rows[Len(rows)] = LineCells(offsets, SubSeq(input, z + 1, n))
    BY <1>0, <1>4, Zenon DEF FxTracks
  <2>3. more[count + 1] = LineCells(offsets, SubSeq(input, z + 1, n))
    BY <2>1, <2>2
  <2>4. OpenRowIsLast(input, offsets, more, n)
    BY <1>0, <1>1, <1>2, <2>1, <2>3, Zenon DEF OpenRowIsLast
  <2> QED BY <1>0, <2>4
<1>5. CASE ~throwaway
  <2>1. Len(rows) = count /\ Len(buff) = n - z
    <3>1. Len(buff) = n - z
      BY <1>0, <1>5, Zenon DEF FxTracks
    <3> QED BY <1>1, <1>2, <1>5, <3>1
  <2>2. buff = SubSeq(input, z + 1, n)
    <3>1. n - Len(buff) + 1 = z + 1
      BY <1>1, <2>1
    <3> QED BY <1>2, <3>1
  <2>3. LineCells(offsets, buff) = RowCells(offsets, buff)
    <3>1. IsSequence(buff)
      BY <1>1, <2>2, PartOfSequence
    <3> QED BY <3>1, ShortLine
  <2>4. more = Append(rows, LineCells(offsets, SubSeq(input, z + 1, n)))
    BY <1>0, <1>5, <2>2, <2>3 DEF HandedOver
  <2>5. /\ IsSequence(more) /\ Len(more) = count + 1
        /\ more[count + 1] = LineCells(offsets, SubSeq(input, z + 1, n))
        /\ \A k \in 1..count : more[k] = rows[k]
    <3>1. PICK x : x = LineCells(offsets, SubSeq(input, z + 1, n))
      OBVIOUS
    <3>2. more = Append(rows, x)
      BY <2>4, <3>1
    <3> QED BY <1>2, <2>1, <3>1, <3>2, AppendIsSequence
  <2>6. \A e \in EndedIn(input, n) :
          more[Cardinality(EndedIn(input, e))] = LineCells(offsets, LineBefore(input, e))
    BY <1>2, <1>3, <2>5
  <2>7. OpenRowIsLast(input, offsets, more, n)
    BY <1>0, <1>1, <2>5, <2>6, Zenon DEF OpenRowIsLast
  <2> QED BY <1>0, <2>7
<1> QED BY <1>2, <1>4, <1>5

\* The line before the next byte is what is open.
LEMMA LineIsOpen ==
    ASSUME NEW input, NEW n \in Nat
    PROVE  /\ LineCursor(input, n + 1) = n - LastEnd(input, n)
           /\ LineBefore(input, n + 1) = SubSeq(input, LastEnd(input, n) + 1, n)
<1>1. LastEnd(input, n) \in 0..n
  BY LastEndIs DEF IsLastEnd
<1>2. (n + 1) - 1 = n
  OBVIOUS
<1>3. LineCursor(input, n + 1) = n - LastEnd(input, n)
  BY <1>2 DEF LineCursor
<1>4. (n + 1) - LineCursor(input, n + 1) = LastEnd(input, n) + 1
  BY <1>1, <1>3
<1> QED BY <1>2, <1>3, <1>4 DEF LineBefore

\* The end of a line.
LEMMA RowEndTracked ==
    ASSUME NEW input, IsSequence(input), NEW offsets, NEW rows, NEW buff, NEW throwaway,
           NEW n \in Nat, n < Len(input), FxTracks(input, offsets, rows, buff, throwaway, n),
           Len(buff) <= FxBuffer, EndsLine(input, n + 1)
    PROVE  FxTracks(input, offsets, HandedOver(offsets, rows, buff, throwaway), <<>>, FALSE, n + 1)
<1>0. PICK more, none, count :
          /\ more = HandedOver(offsets, rows, buff, throwaway)
          /\ none = <<>> /\ count = Cardinality(EndedIn(input, n))
  OBVIOUS
<1>1. n <= Len(input) /\ n + 1 <= Len(input) /\ n + 1 \in Nat
  BY DEF IsSequence
<1>2. /\ IsSequence(more) /\ Len(more) = count + 1 /\ count \in Nat
      /\ more[count + 1] = LineCells(offsets, SubSeq(input, LastEnd(input, n) + 1, n))
      /\ \A e \in EndedIn(input, n) :
           more[Cardinality(EndedIn(input, e))] = LineCells(offsets, LineBefore(input, e))
  <2>1. OpenRowIsLast(input, offsets, HandedOver(offsets, rows, buff, throwaway), n)
    BY <1>1, OpenRow
  <2>2. OpenRowIsLast(input, offsets, more, n)
    BY <1>0, <2>1
  <2> QED BY <1>0, <2>2, Zenon DEF OpenRowIsLast
<1>3. LastEnd(input, n + 1) = n + 1
  <2>1. input[n + 1] \in LineEnds
    BY DEF EndsLine
  <2> QED BY <2>1, LastEndNext
<1>4. /\ EndedIn(input, n + 1) = EndedIn(input, n) \cup {n + 1}
      /\ Cardinality(EndedIn(input, n + 1)) = count + 1
  BY <1>0, EndedNext
<1>5. LineBefore(input, n + 1) = SubSeq(input, LastEnd(input, n) + 1, n)
  BY LineIsOpen
<1>6. \A e \in EndedIn(input, n + 1) :
        more[Cardinality(EndedIn(input, e))] = LineCells(offsets, LineBefore(input, e))
  BY <1>2, <1>4, <1>5
<1>7. Len(none) = 0 /\ none = SubSeq(input, (n + 1) - Len(none) + 1, n + 1)
  BY <1>0, <1>1, EmptyPart
<1>8. /\ Len(none) \in 0..((n + 1) - (n + 1)) /\ Len(none) = (n + 1) - (n + 1)
      /\ Len(more) = Cardinality(EndedIn(input, n + 1)) + (IF FALSE THEN 1 ELSE 0)
  BY <1>2, <1>4, <1>7
<1>9. FxTracks(input, offsets, more, none, FALSE, n + 1)
  BY <1>2, <1>3, <1>6, <1>7, <1>8, Zenon DEF FxTracks
<1> QED BY <1>0, <1>9

\* A line that fills the buffer is cut off.
LEMMA CutTracked ==
    ASSUME NEW input, IsSequence(input), NEW offsets, NEW rows, NEW buff, NEW throwaway,
           NEW n \in Nat, n <= Len(input), FxTracks(input, offsets, rows, buff, throwaway, n),
           Len(buff) = FxBuffer
    PROVE  FxTracks(input, offsets, HandedOver(offsets, rows, buff, throwaway), <<>>, TRUE, n)
<1>0. PICK more, none, count, z :
          /\ more = HandedOver(offsets, rows, buff, throwaway)
          /\ none = <<>> /\ count = Cardinality(EndedIn(input, n)) /\ z = LastEnd(input, n)
  OBVIOUS
<1>1. FxBuffer \in Nat /\ FxBuffer # 0 /\ Len(buff) \in 0..(n - z) /\ z \in 0..n
  BY <1>0, FxAssumption, LastEndIs DEF IsLastEnd, FxTracks
<1>2. Len(buff) <= FxBuffer
  BY <1>1
<1>3. /\ IsSequence(more) /\ Len(more) = count + 1 /\ count \in Nat
      /\ more[count + 1] = LineCells(offsets, SubSeq(input, z + 1, n))
      /\ \A e \in EndedIn(input, n) :
           more[Cardinality(EndedIn(input, e))] = LineCells(offsets, LineBefore(input, e))
  <2>1. OpenRowIsLast(input, offsets, HandedOver(offsets, rows, buff, throwaway), n)
    BY <1>2, OpenRow
  <2>2. OpenRowIsLast(input, offsets, more, n)
    BY <1>0, <2>1
  <2> QED BY <1>0, <2>2, Zenon DEF OpenRowIsLast
<1>4. Len(none) = 0 /\ none = SubSeq(input, n - Len(none) + 1, n)
  BY <1>0, EmptyPart
<1>5. /\ Len(none) \in 0..(n - z) /\ Len(none) + FxBuffer <= n - z
      /\ Len(more) = Cardinality(EndedIn(input, n)) + (IF TRUE THEN 1 ELSE 0)
      /\ more[Len(more)] = LineCells(offsets, SubSeq(input, z + 1, n))
  BY <1>0, <1>1, <1>3, <1>4
<1>6. FxTracks(input, offsets, more, none, TRUE, n)
  BY <1>0, <1>3, <1>4, <1>5, Zenon DEF FxTracks
<1> QED BY <1>0, <1>6

\* The first element taken off.
LEMMA TailOfSequence ==
    ASSUME NEW s, IsSequence(s), s # <<>>
    PROVE  /\ IsSequence(Tail(s)) /\ Len(s) \in Nat /\ Len(s) > 0 /\ Len(Tail(s)) = Len(s) - 1
           /\ \A i \in 1..(Len(s) - 1) : Tail(s)[i] = s[i + 1]
<1> DEFINE S == {s[k] : k \in DOMAIN s}
<1>1. s \in Seq(S)
  BY DEF IsSequence
<1> HIDE DEF S
<1>2. /\ Tail(s) \in Seq(S) /\ Len(Tail(s)) = Len(s) - 1
      /\ \A i \in 1..Len(Tail(s)) : Tail(s)[i] = s[i + 1]
  BY <1>1, HeadTailProperties
<1>3. Len(s) \in Nat /\ Len(s) > 0
  <2>1. Len(s) \in Nat /\ Len(s) # 0
    BY <1>1, EmptySeq
  <2> QED BY <2>1
<1>4. IsSequence(Tail(s))
  <2>1. PICK t : t = Tail(s)
    OBVIOUS
  <2>2. t \in Seq(S)
    BY <1>2, <2>1
  <2> QED BY <2>1, <2>2, SequenceOver
<1>5. \A i \in 1..(Len(s) - 1) : Tail(s)[i] = s[i + 1]
  BY <1>2
<1> QED BY <1>2, <1>3, <1>4, <1>5

\* And of one more.
LEMMA TailOfAppend ==
    ASSUME NEW s, IsSequence(s), s # <<>>, NEW e
    PROVE  Tail(Append(s, e)) = Append(Tail(s), e)
<1> DEFINE a == Append(s, e)
           t == Tail(s)
           b == Append(t, e)
           u == Tail(a)
<1>1. /\ IsSequence(a) /\ Len(a) = Len(s) + 1 /\ a[Len(s) + 1] = e
      /\ \A k \in 1..Len(s) : a[k] = s[k]
  BY AppendIsSequence
<1>2. /\ IsSequence(t) /\ Len(s) \in Nat /\ Len(s) > 0 /\ Len(t) = Len(s) - 1
      /\ \A i \in 1..(Len(s) - 1) : t[i] = s[i + 1]
  BY TailOfSequence
<1> HIDE DEF a, t
<1>3. /\ IsSequence(b) /\ Len(b) = Len(s) /\ b[Len(s)] = e
      /\ \A k \in 1..(Len(s) - 1) : b[k] = t[k]
  <2>1. /\ IsSequence(b) /\ Len(b) = Len(t) + 1 /\ b[Len(t) + 1] = e
        /\ \A k \in DOMAIN t : b[k] = t[k]
        /\ DOMAIN t = 1..Len(t)
    BY <1>2, AppendIsSequence
  <2> HIDE DEF b
  <2>2. Len(t) + 1 = Len(s) /\ 1..Len(t) = 1..(Len(s) - 1)
    BY <1>2
  <2> QED BY <2>1, <2>2
<1>4. a # <<>>
  BY <1>1, <1>2
<1>5. IsSequence(u) /\ Len(u) = Len(a) - 1 /\ \A i \in 1..(Len(a) - 1) : u[i] = a[i + 1]
  BY <1>1, <1>4, TailOfSequence
<1> HIDE DEF b, u
<1>6. Len(u) = Len(s)
  BY <1>1, <1>2, <1>5
<1>7. ASSUME NEW i \in 1..Len(u) PROVE u[i] = b[i]
  <2>1. i \in 1..(Len(a) - 1) /\ i \in 1..Len(s)
    BY <1>5, <1>6
  <2>2. u[i] = a[i + 1]
    BY <1>5, <2>1
  <2>3. CASE i = Len(s)
    BY <1>1, <1>3, <2>2, <2>3
  <2>4. CASE i # Len(s)
    <3>1. i \in 1..(Len(s) - 1) /\ i + 1 \in 1..Len(s)
      BY <1>2, <2>1, <2>4
    <3> QED BY <1>1, <1>2, <1>3, <2>2, <3>1
  <2> QED BY <2>3, <2>4
<1>8. u = b
  BY <1>3, <1>5, <1>6, <1>7, SamePlaces
<1> QED BY <1>8 DEF a, b, t, u

\* The cells of each of the rows.
CellsOf(offsets, rows) == [n \in DOMAIN rows |-> RowCells(offsets, rows[n])]

\* One row more is one list of cells more.
LEMMA OneRowMore ==
    ASSUME NEW offsets, NEW rows, IsSequence(rows), NEW row
    PROVE  /\ IsSequence(CellsOf(offsets, rows))
           /\ CellsOf(offsets, Append(rows, row))
                = Append(CellsOf(offsets, rows), RowCells(offsets, row))
<1> DEFINE a == Append(rows, row)
           x == RowCells(offsets, row)
           c == [n \in 1..Len(rows) |-> RowCells(offsets, rows[n])]
           d == [n \in 1..(Len(rows) + 1) |-> RowCells(offsets, a[n])]
           b == Append(c, x)
<1>1. /\ Len(rows) \in Nat /\ DOMAIN rows = 1..Len(rows) /\ DOMAIN a = 1..(Len(rows) + 1)
      /\ a[Len(rows) + 1] = row /\ \A k \in 1..Len(rows) : a[k] = rows[k]
  BY AppendIsSequence
<1>2. CellsOf(offsets, rows) = c /\ CellsOf(offsets, a) = d
  BY <1>1 DEF CellsOf
<1> HIDE DEF a, x
<1>3. IsSequence(c) /\ Len(c) = Len(rows) /\ DOMAIN c = 1..Len(rows)
  <2>1. c = [n \in 1..Len(rows) |-> c[n]]
    OBVIOUS
  <2> HIDE DEF c
  <2> QED BY <1>1, <2>1, ListIsSequence
<1>4. IsSequence(d) /\ Len(d) = Len(rows) + 1
  <2>1. d = [n \in 1..(Len(rows) + 1) |-> d[n]]
    OBVIOUS
  <2>2. Len(rows) + 1 \in Nat
    BY <1>1
  <2> HIDE DEF d
  <2> QED BY <2>1, <2>2, ListIsSequence
<1>5. \A k \in 1..Len(rows) : c[k] = RowCells(offsets, rows[k])
  OBVIOUS
<1>6. \A k \in 1..(Len(rows) + 1) : d[k] = RowCells(offsets, a[k])
  OBVIOUS
<1> HIDE DEF c, d
<1>7. /\ IsSequence(b) /\ Len(b) = Len(rows) + 1 /\ b[Len(rows) + 1] = x
      /\ \A k \in 1..Len(rows) : b[k] = c[k]
  BY <1>3, AppendIsSequence
<1> HIDE DEF b
<1>8. ASSUME NEW k \in 1..Len(d) PROVE d[k] = b[k]
  <2>1. k \in 1..(Len(rows) + 1)
    BY <1>4
  <2>2. CASE k = Len(rows) + 1
    BY <1>1, <1>6, <1>7, <2>1, <2>2 DEF x
  <2>3. CASE k # Len(rows) + 1
    <3>1. k \in 1..Len(rows)
      BY <1>1, <2>1, <2>3
    <3> QED BY <1>1, <1>5, <1>6, <1>7, <2>1, <3>1
  <2> QED BY <2>2, <2>3
<1>9. d = b
  BY <1>4, <1>7, <1>8, SamePlaces
<1> QED BY <1>2, <1>3, <1>9 DEF a, b, x

\* Nothing to deliver.
LEMMA DeliverNothing ==
    ASSUME NEW offsets, NEW throwaway
    PROVE  Deliver(offsets, <<>>, throwaway) = <<>>
<1>1. Deliver(offsets, <<>>, throwaway) = [n \in DOMAIN <<>> |-> RowCells(offsets, <<>>[n])]
  BY Zenon DEF Deliver
<1>2. DOMAIN <<>> = {}
  OBVIOUS
<1>3. [n \in {} |-> RowCells(offsets, <<>>[n])] = <<>>
  OBVIOUS
<1> QED BY <1>1, <1>2, <1>3

\* One row more to deliver.
LEMMA DeliverOneMore ==
    ASSUME NEW offsets, NEW prior, IsSequence(prior), NEW rows, IsSequence(rows), NEW row,
           NEW throwaway \in BOOLEAN
    PROVE  /\ IsSequence(prior \o Deliver(offsets, rows, throwaway))
           /\ prior \o Deliver(offsets, Append(rows, row), throwaway)
                = HandedOver(offsets, prior \o Deliver(offsets, rows, throwaway), row,
                             throwaway /\ rows = <<>>)
           /\ Append(rows, row) # <<>>
<1> DEFINE more == Append(rows, row)
           kept == IF throwaway /\ rows # <<>> THEN Tail(rows) ELSE rows
           keptMore == IF throwaway /\ more # <<>> THEN Tail(more) ELSE more
<1>1. Deliver(offsets, rows, throwaway) = CellsOf(offsets, kept)
      /\ Deliver(offsets, more, throwaway) = CellsOf(offsets, keptMore)
  BY Zenon DEF Deliver, CellsOf
<1>2. IsSequence(more) /\ more # <<>> /\ Len(more) = Len(rows) + 1 /\ Len(rows) \in Nat
  <2>1. IsSequence(more) /\ Len(more) = Len(rows) + 1 /\ Len(rows) \in Nat
    BY AppendIsSequence
  <2> HIDE DEF more
  <2> QED BY <2>1
<1>3. IsSequence(kept)
  BY TailOfSequence
<1>4. CASE throwaway /\ rows = <<>>
  <2>1. keptMore = <<>>
    <3>1. keptMore = Tail(more)
      BY <1>2, <1>4
    <3>2. more = <<row>>
      BY <1>4
    <3>3. Tail(<<row>>) = <<>>
      OBVIOUS
    <3> QED BY <3>1, <3>2, <3>3
  <2>2. kept = <<>>
    BY <1>4
  <2>3. HandedOver(offsets, prior \o Deliver(offsets, rows, throwaway), row,
                   throwaway /\ rows = <<>>)
          = prior \o Deliver(offsets, rows, throwaway)
    BY <1>4, Zenon DEF HandedOver
  <2>4. IsSequence(CellsOf(offsets, kept))
    BY <1>3, OneRowMore
  <2>5. IsSequence(prior \o CellsOf(offsets, kept))
    BY <2>4, ConcatElements
  <2> HIDE DEF kept, keptMore
  <2> QED BY <1>1, <1>2, <2>1, <2>2, <2>3, <2>5
<1>5. CASE ~(throwaway /\ rows = <<>>)
  <2>1. keptMore = Append(kept, row)
    <3>1. CASE throwaway
      BY <1>2, <1>5, <3>1, TailOfAppend
    <3>2. CASE ~throwaway
      BY <3>2
    <3> QED BY <3>1, <3>2
  <2> HIDE DEF kept, keptMore, more
  <2>2. PICK x, c : x = RowCells(offsets, row) /\ c = CellsOf(offsets, kept)
    OBVIOUS
  <2>3. IsSequence(c) /\ CellsOf(offsets, keptMore) = Append(c, x)
    BY <1>3, <2>1, <2>2, OneRowMore
  <2>4. Append(c, x) = c \o <<x>>
    <3> DEFINE S == {c[k] : k \in DOMAIN c} \cup {x}
    <3>1. {c[k] : k \in DOMAIN c} \subseteq S /\ x \in S
      OBVIOUS
    <3> HIDE DEF S
    <3>2. c \in Seq(S)
      BY <2>3, <3>1, WiderSequence
    <3> QED BY <3>1, <3>2, AppendIsConcat
  <2>5. prior \o (c \o <<x>>) = Append(prior \o c, x) /\ IsSequence(prior \o c)
    BY <2>3, ConcatIsSequence
  <2>6. prior \o Deliver(offsets, more, throwaway) = Append(prior \o c, x)
    BY <1>1, <2>3, <2>4, <2>5
  <2>7. prior \o Deliver(offsets, rows, throwaway) = prior \o c
    BY <1>1, <2>2
  <2>8. HandedOver(offsets, prior \o c, row, throwaway /\ rows = <<>>) = Append(prior \o c, x)
    BY <1>5, <2>2, Zenon DEF HandedOver
  <2> QED BY <1>2, <2>5, <2>6, <2>7, <2>8 DEF more
<1> QED BY <1>4, <1>5

\* ScanFixed, as an equation of what it has found after the first bytes.
ScanStart == [rows |-> <<>>, from |-> 1]
ScanStep(buff, last, f, i) ==
    IF i = 0 THEN ScanStart ELSE ScanByte(buff, last, i, f[i - 1])

\* It has a solution.
LEMMA ScanExists ==
    ASSUME NEW buff, NEW last, NEW n \in Nat
    PROVE  \E f : f = [i \in 0..n |-> ScanStep(buff, last, f, i)]
<1> DEFINE Done(m) == \E f : f = [i \in 0..m |-> ScanStep(buff, last, f, i)]
           W == {m \in 0..n : Done(m)}
<1>1. 0 \in W
  <2> DEFINE f == [i \in 0..0 |-> ScanStart]
  <2>1. \A i \in 0..0 : ScanStep(buff, last, f, i) = ScanStart
    BY DEF ScanStep
  <2>2. f = [i \in 0..0 |-> ScanStep(buff, last, f, i)]
    BY <2>1, Zenon
  <2>3. Done(0)
    BY <2>2
  <2>4. 0 \in 0..n
    OBVIOUS
  <2> HIDE DEF f, Done
  <2> QED BY <2>3, <2>4
<1>2. ASSUME NEW k \in 1..n, k - 1 \in W PROVE k \in W
  <2>1. PICK g : g = [i \in 0..(k - 1) |-> ScanStep(buff, last, g, i)]
    BY <1>2
  <2> DEFINE h == [i \in 0..k |-> IF i = k THEN ScanStep(buff, last, g, k) ELSE g[i]]
  <2>2. \A i \in 0..(k - 1) : h[i] = g[i]
    OBVIOUS
  <2>3. h = [i \in 0..k |-> IF i = k THEN ScanStep(buff, last, g, k) ELSE g[i]]
    OBVIOUS
  <2> HIDE DEF h
  <2>4. ASSUME NEW i \in 0..k PROVE ScanStep(buff, last, h, i) = ScanStep(buff, last, g, i)
    <3>1. i # 0 => h[i - 1] = g[i - 1]
      BY <2>2
    <3> QED BY <3>1, Zenon DEF ScanStep
  <2>5. \A i \in 0..(k - 1) : g[i] = ScanStep(buff, last, g, i)
    BY <2>1
  <2>6. \A i \in 0..k : (IF i = k THEN ScanStep(buff, last, g, k) ELSE g[i])
                          = ScanStep(buff, last, h, i)
    BY <2>4, <2>5
  <2>7. h = [i \in 0..k |-> ScanStep(buff, last, h, i)]
    BY <2>3, <2>6, Zenon
  <2>8. Done(k)
    BY <2>7, Zenon
  <2> QED BY <2>8
<1> HIDE DEF W
<1>3. 0..n \subseteq W
  BY <1>1, <1>2, UpTo
<1> QED BY <1>3 DEF W

\* ScanFixed takes the bytes one after the other.
LEMMA ScanSteps ==
    ASSUME NEW buff, NEW last, Len(buff) \in Nat
    PROVE  \E f : /\ f[0] = ScanStart
                  /\ \A i \in 1..Len(buff) : f[i] = ScanByte(buff, last, i, f[i - 1])
                  /\ ScanFixed(buff, last)
                       = [rows |-> f[Len(buff)].rows,
                          rest |-> SubSeq(buff, f[Len(buff)].from, Len(buff))]
<1> DEFINE f == CHOOSE g : g = [i \in 0..Len(buff) |-> ScanStep(buff, last, g, i)]
<1>1. f = [i \in 0..Len(buff) |-> ScanStep(buff, last, f, i)]
  BY ScanExists, Zenon
<1>2. ScanFixed(buff, last) = [rows |-> f[Len(buff)].rows,
                               rest |-> SubSeq(buff, f[Len(buff)].from, Len(buff))]
  BY Zenon DEF ScanFixed, ScanStep, ScanStart
<1> HIDE DEF f
<1>3. f[0] = ScanStart
  <2>1. 0 \in 0..Len(buff)
    OBVIOUS
  <2>2. f[0] = ScanStep(buff, last, f, 0)
    BY <1>1, <2>1
  <2> QED BY <2>2 DEF ScanStep
<1>4. ASSUME NEW i \in 1..Len(buff) PROVE f[i] = ScanByte(buff, last, i, f[i - 1])
  <2>1. i \in 0..Len(buff) /\ i # 0
    OBVIOUS
  <2>2. f[i] = ScanStep(buff, last, f, i)
    BY <1>1, <2>1
  <2> QED BY <2>1, <2>2, Zenon DEF ScanStep
<1> QED BY <1>2, <1>3, <1>4

\* Line feeds after a carriage return are told by the byte before.
LEMMA LineFeedsAreTold ==
    ASSUME NEW input, NEW buff, NEW last, NEW k \in Nat, NEW j \in Nat, j > 0,
           buff[j] = input[k + j], j > 1 => buff[j - 1] = input[k + (j - 1)],
           j = 1 => last = (IF k = 0 THEN "none" ELSE input[k]), input[k + j] \in LineEnds
    PROVE  EndsCrLf(buff, last, j) <=> ~EndsLine(input, k + j)
<1>1. CASE j = 1
  <2>1. (k + j) - 1 = k /\ (k + j > 1 <=> k # 0)
    BY <1>1
  <2>2. EndsCrLf(buff, last, j) <=> input[k + j] = "\n" /\ last = "\r"
    BY <1>1 DEF EndsCrLf
  <2>3. ~EndsLine(input, k + j) <=> input[k + j] = "\n" /\ k # 0 /\ input[k] = "\r"
    BY <2>1 DEF EndsLine
  <2>4. last = "\r" <=> k # 0 /\ input[k] = "\r"
    BY <1>1
  <2> QED BY <2>2, <2>3, <2>4
<1>2. CASE j # 1
  <2>1. (k + j) - 1 = k + (j - 1) /\ k + j > 1 /\ j > 1
    BY <1>2
  <2>2. EndsCrLf(buff, last, j) <=> input[k + j] = "\n" /\ input[k + (j - 1)] = "\r"
    BY <1>2, <2>1 DEF EndsCrLf
  <2>3. ~EndsLine(input, k + j) <=> input[k + j] = "\n" /\ input[k + (j - 1)] = "\r"
    BY <2>1 DEF EndsLine
  <2> QED BY <2>2, <2>3
<1> QED BY <1>1, <1>2

\* After i bytes of a scan of the bytes from k on, the rows it has found and the
\* row that is open follow on what was handed over before it.
ScanTracks(input, offsets, prior, thrown, k, buff, s, i) ==
    /\ s = [rows |-> s.rows, from |-> s.from] /\ s.from \in 1..(i + 1) /\ IsSequence(s.rows)
    /\ FxTracks(input, offsets, prior \o Deliver(offsets, s.rows, thrown),
                SubSeq(buff, s.from, i), thrown /\ s.rows = <<>>, k + i)

\* One byte of the scan.
LEMMA ScanByteTracked ==
    ASSUME NEW input, IsSequence(input), NEW offsets, NEW prior, IsSequence(prior),
           NEW thrown \in BOOLEAN, NEW k \in Nat, NEW m \in Nat, k <= m, m <= Len(input),
           m - k <= FxBuffer, NEW buff, buff = SubSeq(input, k + 1, m), NEW last,
           NEW s, NEW i \in Nat, i < m - k, ScanTracks(input, offsets, prior, thrown, k, buff, s, i),
           i = 0 => last = (IF k = 0 THEN "none" ELSE input[k])
    PROVE  ScanTracks(input, offsets, prior, thrown, k, buff, ScanByte(buff, last, i + 1, s), i + 1)
<1>1. /\ s = [rows |-> s.rows, from |-> s.from] /\ s.from \in 1..(i + 1) /\ IsSequence(s.rows)
      /\ FxTracks(input, offsets, prior \o Deliver(offsets, s.rows, thrown),
                  SubSeq(buff, s.from, i), thrown /\ s.rows = <<>>, k + i)
  BY Zenon DEF ScanTracks
<1>2. PICK n, from, held, now, t : /\ n = k + i /\ from = s.from /\ held = SubSeq(buff, from, i)
                                /\ now = prior \o Deliver(offsets, s.rows, thrown)
                                /\ t = ScanByte(buff, last, i + 1, s)
  OBVIOUS
<1>3. /\ Len(input) \in Nat /\ n \in Nat /\ n + 1 = k + (i + 1) /\ n < Len(input)
      /\ from \in 1..(i + 1) /\ i + 1 \in Nat /\ (i + 1) \in 1..(m - k) /\ n = k + i
  <2>1. Len(input) \in Nat
    BY DEF IsSequence
  <2>2. from \in 1..(i + 1) /\ n = k + i
    BY <1>1, <1>2
  <2> QED BY <2>1, <2>2
<1>4. IsSequence(buff) /\ Len(buff) = m - k /\ \A j \in 1..(m - k) : buff[j] = input[k + j]
  BY PartOfSequence
<1>5. PICK p : p = from - 1
  OBVIOUS
<1>6. p \in Nat /\ p + 1 = from /\ p <= i /\ p <= i + 1
  BY <1>3, <1>5
<1>7. held = SubSeq(input, k + p + 1, k + i)
      /\ SubSeq(buff, from, i + 1) = SubSeq(input, k + p + 1, k + (i + 1))
  <2>1. i <= m - k /\ i + 1 <= m - k
    OBVIOUS
  <2>2. SubSeq(SubSeq(input, k + 1, m), p + 1, i) = SubSeq(input, k + p + 1, k + i)
    BY <1>6, <2>1, PartOfPart
  <2>3. SubSeq(SubSeq(input, k + 1, m), p + 1, i + 1) = SubSeq(input, k + p + 1, k + (i + 1))
    BY <1>3, <1>6, <2>1, PartOfPart
  <2> QED BY <1>2, <1>6, <2>2, <2>3
<1>8. Len(held) = i - p /\ Len(held) <= FxBuffer
  <2>1. FxBuffer \in Nat
    BY FxAssumption
  <2>2. Len(held) = i - p
    <3>1. p + 1 = from /\ i <= Len(buff)
      BY <1>4, <1>6
    <3>2. Len(SubSeq(buff, p + 1, i)) = i - p
      BY <1>4, <1>6, <3>1, PartOfSequence
    <3> QED BY <1>2, <3>1, <3>2
  <2> QED BY <1>6, <2>1, <2>2
<1>9. FxTracks(input, offsets, now, held, thrown /\ s.rows = <<>>, n)
  BY <1>1, <1>2
<1>10. buff[i + 1] = input[n + 1]
  BY <1>3, <1>4
<1>11. input[n + 1] \in LineEnds => (EndsCrLf(buff, last, i + 1) <=> ~EndsLine(input, n + 1))
  <2> SUFFICES ASSUME input[n + 1] \in LineEnds
               PROVE  EndsCrLf(buff, last, i + 1) <=> ~EndsLine(input, n + 1)
    OBVIOUS
  <2>0. PICK j : j = i + 1
    OBVIOUS
  <2>1. j \in Nat /\ j > 0 /\ buff[j] = input[k + j] /\ k + j = n + 1 /\ (j = 1 => i = 0)
    BY <1>3, <1>10, <2>0
  <2>2. j > 1 => buff[j - 1] = input[k + (j - 1)]
    <3>1. j > 1 => j - 1 \in 1..(m - k)
      BY <1>3, <2>0
    <3> QED BY <1>4, <3>1
  <2>3. j = 1 => last = (IF k = 0 THEN "none" ELSE input[k])
    BY <2>1
  <2>4. input[k + j] \in LineEnds
    BY <2>1
  <2>5. EndsCrLf(buff, last, j) <=> ~EndsLine(input, k + j)
    BY <2>1, <2>2, <2>3, <2>4, LineFeedsAreTold
  <2> QED BY <2>0, <2>1, <2>5
<1>12. CASE input[n + 1] \notin LineEnds
  <2>1. t = s
    BY <1>2, <1>10, <1>12 DEF ScanByte
  <2>2. FxTracks(input, offsets, now, SubSeq(input, n - Len(held) + 1, n + 1),
                 thrown /\ s.rows = <<>>, n + 1)
    BY <1>3, <1>9, <1>12, PlainByteTracked
  <2>3. SubSeq(input, n - Len(held) + 1, n + 1) = SubSeq(buff, from, i + 1)
    <3>1. n - Len(held) + 1 = k + p + 1
      BY <1>3, <1>6, <1>8
    <3> QED BY <1>3, <1>7, <3>1
  <2>4. FxTracks(input, offsets, now, SubSeq(buff, t.from, i + 1),
                 thrown /\ t.rows = <<>>, k + (i + 1))
    BY <1>2, <1>3, <2>1, <2>2, <2>3
  <2>5. t.from \in 1..((i + 1) + 1)
    BY <1>2, <1>3, <2>1
  <2>6. ScanTracks(input, offsets, prior, thrown, k, buff, t, i + 1)
    BY <1>1, <1>2, <2>1, <2>4, <2>5, Zenon DEF ScanTracks
  <2> QED BY <1>2, <2>6
<1>13. SubSeq(buff, (i + 1) + 1, i + 1) = <<>>
  <2>1. i + 1 <= Len(buff) /\ (i + 1) - Len(<<>>) + 1 = (i + 1) + 1
    BY <1>3, <1>4
  <2>2. <<>> = SubSeq(buff, (i + 1) - Len(<<>>) + 1, i + 1)
    BY <1>3, <1>4, <2>1, EmptyPart
  <2> QED BY <2>1, <2>2
<1>14. CASE input[n + 1] \in LineEnds /\ ~EndsLine(input, n + 1)
  <2>1. t = [s EXCEPT !.from = (i + 1) + 1]
    BY <1>2, <1>10, <1>11, <1>14 DEF ScanByte
  <2>2. t = [rows |-> s.rows, from |-> (i + 1) + 1]
    BY <1>1, <2>1
  <2>3. FxTracks(input, offsets, now, <<>>, thrown /\ s.rows = <<>>, n + 1)
    BY <1>3, <1>9, <1>14, LineFeedTracked
  <2>4. t.from = (i + 1) + 1 /\ t.rows = s.rows /\ t = [rows |-> t.rows, from |-> t.from]
    BY <2>2
  <2>5. FxTracks(input, offsets, now, SubSeq(buff, t.from, i + 1),
                 thrown /\ t.rows = <<>>, k + (i + 1))
    BY <1>3, <1>13, <2>3, <2>4
  <2>6. t.from \in 1..((i + 1) + 1) /\ IsSequence(t.rows)
    BY <1>1, <1>3, <2>4
  <2>7. now = prior \o Deliver(offsets, t.rows, thrown)
    BY <1>2, <2>4
  <2>8. ScanTracks(input, offsets, prior, thrown, k, buff, t, i + 1)
    BY <2>4, <2>5, <2>6, <2>7, Zenon DEF ScanTracks
  <2> QED BY <1>2, <2>8
<1>15. CASE EndsLine(input, n + 1)
  <2>1. input[n + 1] \in LineEnds
    BY <1>15 DEF EndsLine
  <2>2. t = [rows |-> Append(s.rows, SubSeq(buff, s.from, (i + 1) - 1)), from |-> (i + 1) + 1]
    BY <1>2, <1>10, <1>11, <1>15, <2>1 DEF ScanByte
  <2>3. (i + 1) - 1 = i
    OBVIOUS
  <2>4. t.from = (i + 1) + 1 /\ t.rows = Append(s.rows, held) /\ t = [rows |-> t.rows, from |-> t.from]
    <3>1. PICK x : x = Append(s.rows, SubSeq(buff, s.from, (i + 1) - 1))
      OBVIOUS
    <3>2. x = Append(s.rows, held)
      BY <1>2, <2>3, <3>1
    <3>3. t = [rows |-> x, from |-> (i + 1) + 1]
      BY <2>2, <3>1
    <3>4. t.rows = x /\ t.from = (i + 1) + 1
      BY <3>3
    <3> QED BY <3>2, <3>3, <3>4
  <2>5. FxTracks(input, offsets, HandedOver(offsets, now, held, thrown /\ s.rows = <<>>),
                 <<>>, FALSE, n + 1)
    BY <1>3, <1>8, <1>9, <1>15, RowEndTracked
  <2>6. /\ prior \o Deliver(offsets, Append(s.rows, held), thrown)
             = HandedOver(offsets, now, held, thrown /\ s.rows = <<>>)
        /\ Append(s.rows, held) # <<>>
    <3>1. PICK u : u = s.rows
      OBVIOUS
    <3>2. IsSequence(u) /\ now = prior \o Deliver(offsets, u, thrown)
      BY <1>1, <1>2, <3>1
    <3>3. /\ prior \o Deliver(offsets, Append(u, held), thrown)
               = HandedOver(offsets, prior \o Deliver(offsets, u, thrown), held,
                            thrown /\ u = <<>>)
          /\ Append(u, held) # <<>>
      BY <3>2, DeliverOneMore
    <3> QED BY <3>1, <3>2, <3>3
  <2>7. IsSequence(t.rows)
    BY <1>1, <2>4, AppendIsSequence
  <2>8. (thrown /\ t.rows = <<>>) = FALSE
    BY <2>4, <2>6
  <2>9. FxTracks(input, offsets, prior \o Deliver(offsets, t.rows, thrown),
                 SubSeq(buff, t.from, i + 1), thrown /\ t.rows = <<>>, k + (i + 1))
    BY <1>3, <1>13, <2>4, <2>5, <2>6, <2>8
  <2>10. t.from \in 1..((i + 1) + 1)
    BY <1>3, <2>4
  <2>11. ScanTracks(input, offsets, prior, thrown, k, buff, t, i + 1)
    BY <2>4, <2>7, <2>9, <2>10, Zenon DEF ScanTracks
  <2> QED BY <1>2, <2>11
<1> QED BY <1>12, <1>14, <1>15

\* What the buffer holds before a read, and what is read, are one part of the
\* input, from the byte k on; there is no line end in what the buffer holds.
IsOnePart(input, base, n, size, k) ==
    /\ Len(base) \in Nat /\ k \in Nat /\ k + Len(base) = n
    /\ base \o SubSeq(input, n + 1, n + size) = SubSeq(input, k + 1, n + size)
    /\ base = SubSeq(input, k + 1, n)
    /\ \A j \in 1..Len(base) : input[k + j] \notin LineEnds

\* So it is at every read.
LEMMA BufferIsPart ==
    ASSUME NEW input, IsSequence(input), NEW offsets, NEW prior, NEW base, NEW thrown,
           NEW n \in Nat, NEW size \in Nat, n + size <= Len(input),
           FxTracks(input, offsets, prior, base, thrown, n)
    PROVE  IsOnePart(input, base, n, size, n - Len(base))
<1>0. PICK z, w, m, k : z = LastEnd(input, n) /\ w = Len(base) /\ m = n + size /\ k = n - w
  OBVIOUS
<1>1. PICK x, y, all : /\ x = SubSeq(input, n + 1, m) /\ y = SubSeq(input, k + 1, m)
                       /\ all = base \o x
  OBVIOUS
<1>2. Len(input) \in Nat /\ m \in Nat /\ n <= m /\ m <= Len(input)
  BY <1>0 DEF IsSequence
<1>3. IsLastEnd(input, n, z)
  BY <1>0, LastEndIs
<1>4. z \in 0..n /\ \A j \in (z + 1)..n : input[j] \notin LineEnds
  BY <1>3 DEF IsLastEnd
<1>5. w \in 0..(n - z) /\ base = SubSeq(input, n - w + 1, n)
  BY <1>0, Zenon DEF FxTracks
<1>6. w \in Nat /\ k \in Nat /\ k + w = n /\ k <= n /\ k <= m /\ n - w = k
  <2>1. w \in 0..(n - z) /\ k = n - w /\ m = n + size
    BY <1>0, <1>5
  <2> QED BY <1>4, <2>1
<1>7. \A j \in 1..w : input[k + j] \notin LineEnds
  <2> SUFFICES ASSUME NEW j \in 1..w PROVE input[k + j] \notin LineEnds
    OBVIOUS
  <2>1. k + j \in (z + 1)..n
    BY <1>4, <1>5, <1>6
  <2> QED BY <1>4, <2>1
<1>8. base = SubSeq(input, k + 1, n)
  BY <1>5, <1>6
<1>9. n <= Len(input) /\ n - k = w /\ m - k = w + (m - n) /\ m - n \in Nat
  BY <1>2, <1>6
<1>10. IsSequence(base) /\ Len(base) = w /\ \A j \in 1..w : base[j] = input[k + j]
  <2>1. LET t == SubSeq(input, k + 1, n)
        IN  IsSequence(t) /\ Len(t) = n - k /\ \A j \in 1..(n - k) : t[j] = input[k + j]
    <3>1. k \in Nat /\ k <= n /\ n <= Len(input)
      BY <1>6, <1>9
    <3> QED BY <3>1, PartOfSequence, Zenon
  <2> QED BY <1>8, <1>9, <2>1
<1>11. IsSequence(x) /\ Len(x) = m - n /\ \A j \in 1..(m - n) : x[j] = input[n + j]
  BY <1>1, <1>2, PartOfSequence
<1>12. IsSequence(y) /\ Len(y) = w + (m - n) /\ \A j \in 1..(w + (m - n)) : y[j] = input[k + j]
  <2>1. LET t == SubSeq(input, k + 1, m)
        IN  IsSequence(t) /\ Len(t) = m - k /\ \A j \in 1..(m - k) : t[j] = input[k + j]
    BY <1>2, <1>6, PartOfSequence
  <2> QED BY <1>1, <1>9, <2>1
<1>13. /\ IsSequence(all) /\ DOMAIN all = 1..(w + (m - n))
       /\ \A j \in 1..w : all[j] = base[j]
       /\ \A j \in 1..(m - n) : all[w + j] = x[j]
  <2>1. IsSequence(base) /\ IsSequence(x) /\ Len(base) = w /\ Len(x) = m - n
    BY <1>10, <1>11
  <2>2. IsSequence(base \o x) /\ DOMAIN (base \o x) = 1..(Len(base) + Len(x))
    BY <2>1, ConcatElements
  <2>3. \A j \in 1..Len(base) : (base \o x)[j] = base[j]
    BY <2>1, ConcatElements
  <2>4. \A j \in 1..Len(x) : (base \o x)[Len(base) + j] = x[j]
    BY <2>1, ConcatElements
  <2> QED BY <1>1, <2>1, <2>2, <2>3, <2>4, Zenon
<1>14. Len(all) = w + (m - n)
  <2>1. DOMAIN all = 1..Len(all) /\ Len(all) \in Nat
    BY <1>13 DEF IsSequence
  <2> QED BY <1>6, <1>9, <1>13, <2>1, SameBound
<1>15. ASSUME NEW j \in 1..Len(all) PROVE all[j] = y[j]
  <2>1. j \in 1..(w + (m - n))
    BY <1>14
  <2>2. CASE j <= w
    <3>1. j \in 1..w
      BY <1>6, <2>1, <2>2
    <3> QED BY <1>10, <1>12, <1>13, <2>1, <3>1
  <2>3. CASE ~(j <= w)
    <3>1. PICK i : i = j - w
      OBVIOUS
    <3>2. i \in 1..(m - n) /\ w + i = j /\ n + i = k + j
      BY <1>6, <1>9, <2>1, <2>3, <3>1
    <3>3. all[w + i] = x[i] /\ x[i] = input[n + i]
      <4>1. i \in 1..(m - n)
        BY <3>2
      <4>2. all[w + i] = x[i]
        BY <1>13, <4>1, Zenon
      <4>3. x[i] = input[n + i]
        BY <1>11, <4>1, Zenon
      <4> QED BY <4>2, <4>3
    <3>4. y[j] = input[k + j]
      BY <1>12, <2>1
    <3> QED BY <3>2, <3>3, <3>4
  <2> QED BY <2>2, <2>3
<1>16. all = y
  BY <1>12, <1>13, <1>14, <1>15, SamePlaces
<1>17. IsOnePart(input, base, n, size, k)
  BY <1>0, <1>1, <1>6, <1>7, <1>8, <1>16, Zenon DEF IsOnePart
<1> QED BY <1>0, <1>17

\* A read of any size, with what the buffer still holds.
LEMMA ChunkTracked ==
    ASSUME NEW input, IsSequence(input), NEW offsets, NEW prior, NEW base, NEW thrown,
           NEW n \in Nat, NEW size \in Nat, n + size <= Len(input), Len(base) + size <= FxBuffer,
           FxTracks(input, offsets, prior, base, thrown, n),
           NEW last, last = (IF n = 0 THEN "none" ELSE input[n]),
           NEW s, s = ScanFixed(base \o SubSeq(input, n + 1, n + size), last)
    PROVE  /\ FxTracks(input, offsets, prior \o Deliver(offsets, s.rows, thrown), s.rest,
                       thrown /\ s.rows = <<>>, n + size)
           /\ Len(s.rest) <= FxBuffer
<1>0. PICK w, k, m : w = Len(base) /\ k = n - w /\ m = n + size
  OBVIOUS
<1>1. PICK buff : buff = SubSeq(input, k + 1, m)
  OBVIOUS
<1>2. /\ w \in Nat /\ k \in Nat /\ k + w = n /\ base = SubSeq(input, k + 1, n)
      /\ base \o SubSeq(input, n + 1, n + size) = buff
      /\ \A j \in 1..w : input[k + j] \notin LineEnds
  <2>1. IsOnePart(input, base, n, size, n - Len(base))
    BY BufferIsPart
  <2>2. IsOnePart(input, base, n, size, k)
    BY <1>0, <2>1
  <2> QED BY <1>0, <1>1, <2>2, Zenon DEF IsOnePart
<1>3. /\ Len(input) \in Nat /\ m \in Nat /\ k <= m /\ m <= Len(input)
      /\ m - k = w + size /\ m - k <= FxBuffer /\ m - k \in Nat /\ n <= m
  <2>1. Len(input) \in Nat
    BY DEF IsSequence
  <2>2. w + size <= FxBuffer /\ FxBuffer \in Nat
    BY <1>0, FxAssumption
  <2>3. w \in Nat /\ k \in Nat /\ k + w = n /\ m = n + size
    BY <1>0, <1>2
  <2>4. m - k = w + size /\ m - k <= FxBuffer /\ m - k \in Nat /\ k <= m
    BY <2>2, <2>3
  <2> QED BY <2>1, <2>3, <2>4
<1>4. IsSequence(buff) /\ Len(buff) = m - k /\ \A j \in 1..(m - k) : buff[j] = input[k + j]
  <2>1. LET t == SubSeq(input, k + 1, m)
        IN  IsSequence(t) /\ Len(t) = m - k /\ \A j \in 1..(m - k) : t[j] = input[k + j]
    BY <1>2, <1>3, PartOfSequence
  <2> QED BY <1>1, <2>1
<1>5. Len(buff) \in Nat
  BY <1>3, <1>4
<1>6. PICK f : /\ f[0] = ScanStart
               /\ \A i \in 1..Len(buff) : f[i] = ScanByte(buff, last, i, f[i - 1])
               /\ ScanFixed(buff, last)
                    = [rows |-> f[Len(buff)].rows,
                       rest |-> SubSeq(buff, f[Len(buff)].from, Len(buff))]
  BY <1>5, ScanSteps
<1>7. IsSequence(prior) /\ thrown \in BOOLEAN
  BY Zenon DEF FxTracks
<1>8. f[w] = ScanStart
  <2> DEFINE W == {i \in 0..w : f[i] = ScanStart}
  <2>1. 0 \in W
    BY <1>2, <1>6
  <2>2. ASSUME NEW i \in 1..w, i - 1 \in W PROVE i \in W
    <3>1. i \in 1..(m - k) /\ i \in 1..Len(buff)
      BY <1>2, <1>3, <1>4
    <3>2. buff[i] \notin LineEnds
      BY <1>2, <1>4, <3>1
    <3>3. f[i] = f[i - 1]
      BY <1>6, <3>1, <3>2 DEF ScanByte
    <3> QED BY <2>2, <3>3
  <2> HIDE DEF W
  <2>3. 0..w \subseteq W
    BY <1>2, <2>1, <2>2, UpTo
  <2> QED BY <1>2, <2>3 DEF W
<1>9. ScanTracks(input, offsets, prior, thrown, k, buff, f[w], w)
  <2>1. PICK a : a = ScanStart
    OBVIOUS
  <2>2. a.rows = <<>> /\ a.from = 1 /\ a = [rows |-> a.rows, from |-> a.from]
    BY <2>1 DEF ScanStart
  <2>3. a.from \in 1..(w + 1) /\ IsSequence(a.rows)
    BY <1>2, <2>2, EmptyIsSequence
  <2>4. prior \o Deliver(offsets, a.rows, thrown) = prior
    <3>1. Deliver(offsets, a.rows, thrown) = <<>>
      BY <2>2, DeliverNothing
    <3>2. prior \o <<>> = prior
      BY <1>7, EmptyIsSequence, ConcatIsSequence
    <3> QED BY <3>1, <3>2
  <2>5. SubSeq(buff, a.from, w) = base
    <3>1. PICK q : q = 0
      OBVIOUS
    <3>2. q \in Nat /\ q <= w /\ w <= m - k /\ q + 1 = 1 /\ k + q + 1 = k + 1
      BY <1>2, <1>3, <3>1
    <3>3. SubSeq(SubSeq(input, k + 1, m), q + 1, w) = SubSeq(input, k + q + 1, k + w)
      BY <1>2, <1>3, <3>2, PartOfPart
    <3> QED BY <1>1, <1>2, <2>2, <3>2, <3>3
  <2>6. (thrown /\ a.rows = <<>>) = thrown
    BY <1>7, <2>2
  <2>7. FxTracks(input, offsets, prior \o Deliver(offsets, a.rows, thrown),
                 SubSeq(buff, a.from, w), thrown /\ a.rows = <<>>, k + w)
    BY <1>2, <2>4, <2>5, <2>6
  <2>8. ScanTracks(input, offsets, prior, thrown, k, buff, a, w)
    BY <2>2, <2>3, <2>7, Zenon DEF ScanTracks
  <2> QED BY <1>8, <2>1, <2>8
<1>10. ScanTracks(input, offsets, prior, thrown, k, buff, f[m - k], m - k)
  <2> DEFINE W == {i \in 0..size : ScanTracks(input, offsets, prior, thrown, k, buff, f[w + i], w + i)}
  <2>1. 0 \in W
    <3>1. w + 0 = w /\ 0 \in 0..size
      BY <1>2
    <3> QED BY <1>9, <3>1
  <2>2. ASSUME NEW j \in 1..size, j - 1 \in W PROVE j \in W
    <3>1. PICK i : i = w + (j - 1)
      OBVIOUS
    <3>2. i \in Nat /\ i + 1 = w + j /\ i < m - k /\ i + 1 \in 1..Len(buff) /\ (i + 1) - 1 = i
      BY <1>2, <1>3, <1>4, <3>1
    <3>3. ScanTracks(input, offsets, prior, thrown, k, buff, f[i], i)
      BY <2>2, <3>1
    <3>4. i = 0 => last = (IF k = 0 THEN "none" ELSE input[k])
      <4>1. i = 0 => k = n
        BY <1>2, <3>1
      <4> QED BY <4>1
    <3>5. ScanTracks(input, offsets, prior, thrown, k, buff, ScanByte(buff, last, i + 1, f[i]), i + 1)
      <4>1. PICK a : a = f[i]
        OBVIOUS
      <4>2. /\ i \in Nat /\ i < m - k /\ ScanTracks(input, offsets, prior, thrown, k, buff, a, i)
            /\ IsSequence(prior) /\ thrown \in BOOLEAN /\ k \in Nat /\ m \in Nat /\ k <= m
            /\ m <= Len(input) /\ m - k <= FxBuffer
        BY <1>2, <1>3, <1>7, <3>2, <3>3, <4>1
      <4>3. ScanTracks(input, offsets, prior, thrown, k, buff, ScanByte(buff, last, i + 1, a), i + 1)
        BY <1>1, <3>4, <4>2, ScanByteTracked
      <4> QED BY <4>1, <4>3
    <3>6. f[i + 1] = ScanByte(buff, last, i + 1, f[i])
      BY <1>6, <3>2
    <3>7. ScanTracks(input, offsets, prior, thrown, k, buff, f[w + j], w + j)
      BY <3>2, <3>5, <3>6
    <3> QED BY <3>7
  <2> HIDE DEF W
  <2>3. 0..size \subseteq W
    BY <2>1, <2>2, UpTo
  <2>4. size \in W /\ w + size = m - k
    BY <1>3, <2>3
  <2> QED BY <2>4 DEF W
<1>11. PICK g : g = f[m - k]
  OBVIOUS
<1>12. s.rows = g.rows /\ s.rest = SubSeq(buff, g.from, m - k)
  <2>1. s = ScanFixed(buff, last)
    BY <1>2
  <2>2. s = [rows |-> g.rows, rest |-> SubSeq(buff, g.from, m - k)]
    BY <1>4, <1>6, <1>11, <2>1
  <2> QED BY <2>2
<1>13. /\ g.from \in 1..((m - k) + 1)
       /\ FxTracks(input, offsets, prior \o Deliver(offsets, g.rows, thrown),
                   SubSeq(buff, g.from, m - k), thrown /\ g.rows = <<>>, k + (m - k))
  <2>1. ScanTracks(input, offsets, prior, thrown, k, buff, g, m - k)
    BY <1>10, <1>11
  <2> QED BY <2>1, Zenon DEF ScanTracks
<1>14. k + (m - k) = n + size
  BY <1>0, <1>3
<1>15. Len(s.rest) <= FxBuffer
  <2>1. PICK p : p = g.from - 1
    OBVIOUS
  <2>2. p \in Nat /\ p + 1 = g.from /\ p <= m - k /\ m - k <= Len(buff)
    BY <1>3, <1>4, <1>13, <2>1
  <2>3. Len(SubSeq(buff, p + 1, m - k)) = (m - k) - p
    BY <1>3, <1>4, <2>2, PartOfSequence
  <2>4. FxBuffer \in Nat /\ (m - k) - p <= FxBuffer
    BY <1>3, <2>2, FxAssumption
  <2> QED BY <1>12, <2>2, <2>3, <2>4
<1> QED BY <1>12, <1>13, <1>14, <1>15

\* At the start nothing is open and nothing has been handed over.
LEMMA NothingTracked ==
    ASSUME NEW input, IsSequence(input), NEW offsets
    PROVE  FxTracks(input, offsets, <<>>, <<>>, FALSE, 0)
<1>1. PICK none, zero : none = <<>> /\ zero = 0
  OBVIOUS
<1>2. zero \in Nat /\ zero <= Len(input)
  BY <1>1 DEF IsSequence
<1>3. LastEnd(input, zero) = 0
  <2>1. LastEnd(input, zero) \in 0..zero
    BY <1>2, LastEndIs DEF IsLastEnd
  <2> QED BY <1>1, <2>1
<1>4. EndedIn(input, zero) = {}
  BY <1>1 DEF EndedIn
<1>5. Len(none) = 0 /\ none = SubSeq(input, zero - Len(none) + 1, zero)
  BY <1>1, <1>2, EmptyPart
<1>6. IsSequence(none)
  BY <1>1, EmptyIsSequence
<1>7. /\ Len(none) \in 0..(zero - LastEnd(input, zero))
      /\ Len(none) = zero - LastEnd(input, zero)
      /\ Len(none) = Cardinality(EndedIn(input, zero)) + (IF FALSE THEN 1 ELSE 0)
  BY <1>1, <1>3, <1>4, <1>5, FS_EmptySet
<1>8. FxTracks(input, offsets, none, none, FALSE, zero)
  BY <1>4, <1>5, <1>6, <1>7, Zenon DEF FxTracks
<1> QED BY <1>1, <1>8

\* One row handed over by itself.
LEMMA DeliverOne ==
    ASSUME NEW offsets, NEW prior, IsSequence(prior), NEW row, NEW throwaway \in BOOLEAN
    PROVE  prior \o Deliver(offsets, <<row>>, throwaway) = HandedOver(offsets, prior, row, throwaway)
<1>1. PICK none : none = <<>>
  OBVIOUS
<1>2. IsSequence(none) /\ Append(none, row) = <<row>> /\ (throwaway /\ none = <<>>) = throwaway
  BY <1>1, EmptyIsSequence
<1>3. prior \o Deliver(offsets, Append(none, row), throwaway)
        = HandedOver(offsets, prior \o Deliver(offsets, none, throwaway), row,
                     throwaway /\ none = <<>>)
  BY <1>2, DeliverOneMore
<1>4. prior \o Deliver(offsets, none, throwaway) = prior
  <2>1. Deliver(offsets, none, throwaway) = <<>>
    BY <1>1, DeliverNothing
  <2>2. prior \o <<>> = prior
    BY EmptyIsSequence, ConcatIsSequence
  <2> QED BY <2>1, <2>2
<1> QED BY <1>2, <1>3, <1>4

\* The rows are those of the lines.
RowsOfLines(input, offsets, rows) ==
    LET ends == LinesEnd(input)
    IN  /\ Len(rows) = Cardinality(ends)
        /\ \A e \in ends :
             rows[Cardinality({f \in ends : f <= e})] = LineCells(offsets, LineBefore(input, e))

\* When all has been read and the last line handed over, the rows are those of
\* the lines.
LEMMA FinishTracked ==
    ASSUME NEW input, IsSequence(input), NEW offsets, NEW rows, NEW buff, NEW throwaway,
           Len(buff) <= FxBuffer,
           FxTracks(input, offsets, rows, buff, throwaway, Len(input)),
           NEW final, final = (IF buff = <<>> THEN rows
                               ELSE rows \o Deliver(offsets, <<buff>>, throwaway))
    PROVE  RowsOfLines(input, offsets, final)
<1>0. PICK n, z, count, ends : /\ n = Len(input) /\ z = LastEnd(input, n)
                               /\ count = Cardinality(EndedIn(input, n)) /\ ends = LinesEnd(input)
  OBVIOUS
<1>1. n \in Nat
  BY <1>0 DEF IsSequence
<1>2. z \in 0..n
  BY <1>0, <1>1, LastEndIs DEF IsLastEnd
<1>3. count \in Nat /\ IsFiniteSet(EndedIn(input, n))
  BY <1>0, <1>1, EndedNext
<1>4. FxTracks(input, offsets, rows, buff, throwaway, n)
  BY <1>0
<1>5. /\ IsSequence(rows) /\ throwaway \in BOOLEAN /\ Len(buff) \in 0..(n - z)
      /\ buff = SubSeq(input, n - Len(buff) + 1, n)
      /\ Len(rows) = count + (IF throwaway THEN 1 ELSE 0)
      /\ \A e \in EndedIn(input, n) :
           rows[Cardinality(EndedIn(input, e))] = LineCells(offsets, LineBefore(input, e))
      /\ IF throwaway THEN Len(buff) + FxBuffer <= n - z ELSE Len(buff) = n - z
  BY <1>0, <1>4, Zenon DEF FxTracks
<1>6. LineCursor(input, n + 1) = n - z
      /\ LineBefore(input, n + 1) = SubSeq(input, z + 1, n)
  BY <1>0, <1>1, LineIsOpen
<1>7. ends = EndedIn(input, n) \cup (IF n - z > 0 THEN {n + 1} ELSE {})
  <2>1. {e \in {n + 1} : LineCursor(input, e) > 0} = (IF n - z > 0 THEN {n + 1} ELSE {})
    BY <1>6
  <2> QED BY <1>0, <2>1 DEF LinesEnd, EndedIn
<1>8. \A e \in EndedIn(input, n) : {f \in ends : f <= e} = EndedIn(input, e)
  <2> SUFFICES ASSUME NEW e \in EndedIn(input, n) PROVE {f \in ends : f <= e} = EndedIn(input, e)
    OBVIOUS
  <2>1. e \in 1..n
    BY DEF EndedIn
  <2>2. {f \in EndedIn(input, n) : f <= e} = EndedIn(input, e)
    BY <1>1, <2>1 DEF EndedIn
  <2>3. ~(n + 1 <= e)
    BY <1>1, <2>1
  <2> QED BY <1>7, <2>2, <2>3
<1>9. FxBuffer \in Nat /\ FxBuffer > 0
  BY FxAssumption
<1>10. CASE z = n
  <2>1. Len(buff) = 0 /\ ~throwaway
    BY <1>1, <1>5, <1>9, <1>10
  <2>2. buff = <<>>
    <3>1. n <= Len(input) /\ n - Len(buff) + 1 = n - Len(<<>>) + 1
      BY <1>0, <1>1, <2>1
    <3>2. <<>> = SubSeq(input, n - Len(<<>>) + 1, n)
      BY <1>1, <3>1, EmptyPart
    <3> QED BY <1>5, <3>1, <3>2
  <2>3. final = rows /\ Len(rows) = count
    BY <1>3, <1>5, <2>1, <2>2
  <2>4. ends = EndedIn(input, n)
    BY <1>1, <1>7, <1>10
  <2>5. \A e \in ends :
          final[Cardinality({f \in ends : f <= e})] = LineCells(offsets, LineBefore(input, e))
    BY <1>5, <1>8, <2>3, <2>4
  <2> QED BY <1>0, <2>3, <2>4, <2>5 DEF RowsOfLines
<1>11. CASE z # n
  <2>1. n - z > 0
    BY <1>1, <1>2, <1>11
  <2>2. final = HandedOver(offsets, rows, buff, throwaway)
    <3>1. CASE buff = <<>>
      <4>1. throwaway
        BY <1>5, <2>1, <3>1
      <4> QED BY <3>1, <4>1 DEF HandedOver
    <3>2. CASE buff # <<>>
      BY <1>5, <3>2, DeliverOne
    <3> QED BY <3>1, <3>2
  <2>3. OpenRowIsLast(input, offsets, HandedOver(offsets, rows, buff, throwaway), n)
    BY <1>0, <1>1, <1>4, OpenRow
  <2>4. OpenRowIsLast(input, offsets, final, n)
    BY <2>2, <2>3
  <2>5. /\ Len(final) = count + 1
        /\ final[count + 1] = LineCells(offsets, SubSeq(input, z + 1, n))
        /\ \A e \in EndedIn(input, n) :
             final[Cardinality(EndedIn(input, e))] = LineCells(offsets, LineBefore(input, e))
    BY <1>0, <2>4, Zenon DEF OpenRowIsLast
  <2>6. ends = EndedIn(input, n) \cup {n + 1} /\ n + 1 \notin EndedIn(input, n)
    BY <1>1, <1>7, <2>1 DEF EndedIn
  <2>7. Cardinality(ends) = count + 1
    BY <1>0, <1>3, <2>6, FS_AddElement
  <2>8. {f \in ends : f <= n + 1} = ends
    <3>1. \A f \in EndedIn(input, n) : f <= n + 1
      BY <1>1 DEF EndedIn
    <3> QED BY <1>1, <2>6, <3>1
  <2>9. ASSUME NEW e \in ends
        PROVE  final[Cardinality({f \in ends : f <= e})] = LineCells(offsets, LineBefore(input, e))
    <3>1. CASE e = n + 1
      BY <1>6, <2>5, <2>7, <2>8, <3>1
    <3>2. CASE e # n + 1
      <4>1. e \in EndedIn(input, n)
        BY <2>6, <3>2
      <4> QED BY <1>8, <2>5, <4>1
    <3> QED BY <3>1, <3>2
  <2> QED BY <1>0, <2>5, <2>7, <2>9 DEF RowsOfLines
<1> QED BY <1>10, <1>11

\* What the detection looks at is a beginning of the input.
LEMMA PreviewIsBeginning ==
    ASSUME NEW input, IsSequence(input), NEW maxLines
    PROVE  \E m \in 0..Len(input) : Previewed(input, maxLines) = SubSeq(input, 1, m)
<1>0. PICK text : text = Previewed(input, maxLines)
  OBVIOUS
<1>1. PICK a : a = Min({FxPreview, Len(input)})
  OBVIOUS
<1>2. a \in 0..Len(input) /\ Len(input) \in Nat
  <2>1. Len(input) \in Nat /\ FxPreview \in Nat
    BY FxAssumption DEF IsSequence
  <2>2. {FxPreview, Len(input)} \subseteq Nat
    BY <2>1
  <2>3. a \in {FxPreview, Len(input)} /\ \A y \in {FxPreview, Len(input)} : a <= y
    BY <1>1, <2>2, MinIsLeast
  <2> QED BY <2>1, <2>3
<1> DEFINE all == SubSeq(input, 1, a)
           ends == {i \in DOMAIN all : all[i] \in LineEnds}
           enough == {i \in ends :
               LET upTo == {j \in ends : j <= i}
               IN  Cardinality(upTo) >= maxLines /\ \E j \in upTo : LineCursor(all, j) > 0}
<1>3. text = (IF maxLines = 0 \/ enough = {} THEN all ELSE SubSeq(all, 1, Min(enough)))
  BY <1>0, <1>1, Zenon DEF Previewed
<1>4. enough \subseteq DOMAIN all
  OBVIOUS
<1> HIDE DEF enough, ends
<1>5. CASE maxLines = 0 \/ enough = {}
  <2>1. text = SubSeq(input, 1, a)
    BY <1>3, <1>5
  <2> QED BY <1>0, <1>2, <2>1
<1>6. CASE ~(maxLines = 0 \/ enough = {})
  <2>1. PICK m, o : m = Min(enough) /\ o = 0
    OBVIOUS
  <2>2. o \in Nat /\ o + 1 = 1 /\ o <= a /\ a - o = a /\ a \in Nat /\ a <= Len(input)
    BY <1>2, <2>1
  <2>3. DOMAIN all = 1..a
    <3>1. DOMAIN SubSeq(input, o + 1, a) = 1..(a - o)
      BY <2>2, PartOfSequence
    <3> QED BY <2>2, <3>1
  <2> HIDE DEF all
  <2>4. m \in 1..a
    <3>1. enough \subseteq Nat /\ enough # {}
      BY <1>2, <1>4, <1>6, <2>3
    <3>2. m \in enough
      BY <2>1, <3>1, MinIsLeast
    <3> QED BY <1>4, <2>3, <3>2
  <2>5. SubSeq(all, 1, m) = SubSeq(input, 1, m)
    <3>1. o \in Nat /\ m \in Nat /\ o <= m /\ m <= a - o /\ o + m = m /\ o + o + 1 = 1
      BY <1>2, <2>1, <2>4
    <3>2. SubSeq(SubSeq(input, o + 1, a), o + 1, m) = SubSeq(input, o + o + 1, o + m)
      BY <2>2, <3>1, PartOfPart
    <3> QED BY <2>2, <3>1, <3>2 DEF all
  <2>6. text = SubSeq(input, 1, m) /\ m \in 0..Len(input)
    BY <1>2, <1>3, <1>6, <2>1, <2>4, <2>5
  <2> QED BY <1>0, <2>6
<1> QED BY <1>5, <1>6

\* The detection of the offsets, as an equation of those found so far.
FoundStep(starts, f, n) ==
    IF n = 0 THEN <<>>
    ELSE IF n - 1 \in starts \ {Min(starts)} THEN Append(f[n - 1], n - 1)
    ELSE f[n - 1]

\* It has a solution.
LEMMA FoundExists ==
    ASSUME NEW starts, NEW end \in Nat
    PROVE  \E f : f = [n \in 0..end |-> FoundStep(starts, f, n)]
<1> DEFINE Done(m) == \E f : f = [n \in 0..m |-> FoundStep(starts, f, n)]
           W == {m \in 0..end : Done(m)}
<1>1. 0 \in W
  <2> DEFINE f == [n \in 0..0 |-> <<>>]
  <2>1. \A n \in 0..0 : FoundStep(starts, f, n) = <<>>
    BY DEF FoundStep
  <2>2. f = [n \in 0..0 |-> FoundStep(starts, f, n)]
    BY <2>1, Zenon
  <2>3. Done(0)
    BY <2>2
  <2>4. 0 \in 0..end
    OBVIOUS
  <2> HIDE DEF f, Done
  <2> QED BY <2>3, <2>4
<1>2. ASSUME NEW k \in 1..end, k - 1 \in W PROVE k \in W
  <2>1. PICK g : g = [n \in 0..(k - 1) |-> FoundStep(starts, g, n)]
    BY <1>2
  <2> DEFINE h == [n \in 0..k |-> IF n = k THEN FoundStep(starts, g, k) ELSE g[n]]
  <2>2. \A n \in 0..(k - 1) : h[n] = g[n]
    OBVIOUS
  <2>3. h = [n \in 0..k |-> IF n = k THEN FoundStep(starts, g, k) ELSE g[n]]
    OBVIOUS
  <2> HIDE DEF h
  <2>4. ASSUME NEW n \in 0..k PROVE FoundStep(starts, h, n) = FoundStep(starts, g, n)
    <3>1. n # 0 => h[n - 1] = g[n - 1]
      BY <2>2
    <3> QED BY <3>1, Zenon DEF FoundStep
  <2>5. \A n \in 0..(k - 1) : g[n] = FoundStep(starts, g, n)
    BY <2>1
  <2>6. \A n \in 0..k : (IF n = k THEN FoundStep(starts, g, k) ELSE g[n]) = FoundStep(starts, h, n)
    BY <2>4, <2>5
  <2>7. h = [n \in 0..k |-> FoundStep(starts, h, n)]
    BY <2>3, <2>6, Zenon
  <2>8. Done(k)
    BY <2>7, Zenon
  <2> QED BY <2>8
<1> HIDE DEF W
<1>3. 0..end \subseteq W
  BY <1>1, <1>2, UpTo
<1> QED BY <1>3 DEF W

\* The positions where ink begins, up to the end of the longest line.
WordStarts(text) == Starts({p \in Inked(text) : p < LineEnd(text)})

\* The positions in a line are numbers.
LEMMA PositionsAreNumbers ==
    ASSUME NEW text, IsSequence(text)
    PROVE  /\ \A i \in DOMAIN text : LineCursor(text, i) \in 0..Len(text)
           /\ LineEnd(text) \in Nat /\ WordStarts(text) \subseteq Nat
<1>1. Len(text) \in Nat /\ DOMAIN text = 1..Len(text)
  BY DEF IsSequence
<1>2. \A i \in DOMAIN text : LineCursor(text, i) \in 0..Len(text)
  <2> SUFFICES ASSUME NEW i \in 1..Len(text) PROVE LineCursor(text, i) \in 0..Len(text)
    BY <1>1
  <2>1. i - 1 \in Nat /\ i - 1 <= Len(text)
    BY <1>1
  <2>2. LastEnd(text, i - 1) \in 0..(i - 1)
    BY <2>1, LastEndIs DEF IsLastEnd
  <2> QED BY <1>1, <2>1, <2>2 DEF LineCursor
<1>3. LineEnd(text) \in Nat
  <2> DEFINE S == {0} \cup {LineCursor(text, i) : i \in {j \in DOMAIN text : text[j] \in LineEnds}}
  <2>1. S \subseteq 0..Len(text) /\ S # {}
    BY <1>1, <1>2
  <2>2. Max(S) \in S
    BY <1>1, <2>1, MaxIsGreatest
  <2>3. LineEnd(text) = Max(S)
    BY Zenon DEF LineEnd
  <2> QED BY <1>1, <2>1, <2>2, <2>3
<1>4. WordStarts(text) \subseteq Nat
  <2>1. Inked(text) \subseteq Nat
    BY <1>1, <1>2 DEF Inked
  <2> QED BY <2>1 DEF WordStarts, Starts
<1> QED BY <1>2, <1>3, <1>4

\* The offsets are found step by step.
LEMMA OffsetsAreFound ==
    ASSUME NEW text, LineEnd(text) \in Nat
    PROVE  \E f : /\ f = [n \in 0..LineEnd(text) |-> FoundStep(WordStarts(text), f, n)]
                  /\ Offsets(text) = IF WordStarts(text) = {} THEN <<>>
                                     ELSE Append(f[LineEnd(text)], LineEnd(text) + FxMargin)
<1> DEFINE f == CHOOSE g : g = [n \in 0..LineEnd(text) |-> FoundStep(WordStarts(text), g, n)]
<1>1. f = [n \in 0..LineEnd(text) |-> FoundStep(WordStarts(text), f, n)]
  BY FoundExists, Zenon
<1>2. Offsets(text) = IF WordStarts(text) = {} THEN <<>>
                      ELSE Append(f[LineEnd(text)], LineEnd(text) + FxMargin)
  BY Zenon DEF Offsets, FoundStep, WordStarts
<1> HIDE DEF f
<1> QED BY <1>1, <1>2

\* The offsets are numbers, and all but the last are where a word begins.
LEMMA OffsetsStartWords ==
    ASSUME NEW text, IsSequence(text), NEW offsets, offsets = Offsets(text)
    PROVE  /\ IsSequence(offsets) /\ \A c \in DOMAIN offsets : offsets[c] \in Nat
           /\ \A c \in DOMAIN offsets :
                c < Len(offsets) => offsets[c] \in WordStarts(text) /\ offsets[c] # 0
<1>1. PICK end, starts : end = LineEnd(text) /\ starts = WordStarts(text)
  OBVIOUS
<1>2. end \in Nat /\ starts \subseteq Nat
  BY <1>1, PositionsAreNumbers
<1>3. PICK f : /\ f = [n \in 0..end |-> FoundStep(starts, f, n)]
               /\ offsets = IF starts = {} THEN <<>> ELSE Append(f[end], end + FxMargin)
  BY <1>1, <1>2, OffsetsAreFound
<1>4. offsets = IF starts = {} THEN <<>> ELSE Append(f[end], end + FxMargin)
  BY <1>3
<1>5. CASE starts = {}
  <2>1. offsets = <<>>
    BY <1>4, <1>5
  <2>2. DOMAIN offsets = {}
    BY <2>1
  <2> QED BY <2>1, <2>2, EmptyIsSequence
<1>6. CASE starts # {}
  <2>1. \A p \in starts \ {Min(starts)} : p \in Nat /\ p # 0
    <3>1. PICK m : m = Min(starts)
      OBVIOUS
    <3>2. m \in starts /\ \A y \in starts : m <= y
      BY <1>2, <1>6, <3>1, MinIsLeast
    <3>3. \A p \in starts : p # m => p \in Nat /\ p # 0
      BY <1>2, <3>2
    <3> QED BY <3>1, <3>3
  <2> DEFINE later == starts \ {Min(starts)}
             W == {n \in 0..end : IsSequence(f[n]) /\ \A c \in DOMAIN f[n] : f[n][c] \in later}
  <2> HIDE DEF later
  <2>2. 0 \in W
    <3>1. 0 \in 0..end
      BY <1>2
    <3>2. f[0] = <<>>
      BY <1>3, <3>1 DEF FoundStep
    <3>3. DOMAIN <<>> = {}
      OBVIOUS
    <3> QED BY <3>1, <3>2, <3>3, EmptyIsSequence
  <2>3. ASSUME NEW k \in 1..end, k - 1 \in W PROVE k \in W
    <3>1. PICK a, b : a = f[k - 1] /\ b = f[k]
      OBVIOUS
    <3>2. IsSequence(a) /\ \A c \in DOMAIN a : a[c] \in later
      BY <2>3, <3>1
    <3>3. b = FoundStep(starts, f, k) /\ k # 0 /\ k \in 0..end
      <4>1. k # 0 /\ k \in 0..end
        BY <1>2
      <4>2. f[k] = FoundStep(starts, f, k)
        BY <1>3, <4>1
      <4> QED BY <3>1, <4>1, <4>2
    <3>4. CASE k - 1 \in later
      <4>1. b = Append(a, k - 1)
        BY <3>1, <3>3, <3>4, Zenon DEF FoundStep, later
      <4>2. PICK x : x = k - 1
        OBVIOUS
      <4>3. /\ IsSequence(b) /\ Len(a) \in Nat /\ b[Len(a) + 1] = x /\ \A c \in DOMAIN a : b[c] = a[c]
            /\ DOMAIN a = 1..Len(a) /\ DOMAIN b = 1..(Len(a) + 1)
        BY <3>2, <4>1, <4>2, AppendIsSequence
      <4>4. \A c \in DOMAIN b : b[c] \in later
        BY <3>2, <3>4, <4>2, <4>3
      <4> QED BY <3>1, <3>3, <4>3, <4>4
    <3>5. CASE k - 1 \notin later
      <4>1. b = a
        BY <3>1, <3>3, <3>5, Zenon DEF FoundStep, later
      <4> QED BY <3>1, <3>2, <3>3, <4>1
    <3> QED BY <3>4, <3>5
  <2> HIDE DEF W
  <2>4. 0..end \subseteq W
    BY <1>2, <2>2, <2>3, UpTo
  <2>5. PICK a, x : a = f[end] /\ x = end + FxMargin
    OBVIOUS
  <2>6. IsSequence(a) /\ \A c \in DOMAIN a : a[c] \in later
    BY <1>2, <2>4, <2>5 DEF W
  <2>7. offsets = Append(a, x)
    BY <1>4, <1>6, <2>5
  <2>8. /\ IsSequence(offsets) /\ Len(offsets) = Len(a) + 1 /\ Len(a) \in Nat
        /\ offsets[Len(a) + 1] = x /\ \A c \in DOMAIN a : offsets[c] = a[c]
        /\ DOMAIN a = 1..Len(a) /\ DOMAIN offsets = 1..(Len(a) + 1)
    BY <2>6, <2>7, AppendIsSequence
  <2>9. x \in Nat
    BY <1>2, <2>5, FxAssumption
  <2>10. ASSUME NEW c \in DOMAIN offsets
         PROVE  /\ offsets[c] \in Nat
                /\ c < Len(offsets) => offsets[c] \in starts /\ offsets[c] # 0
    <3>1. CASE c = Len(a) + 1
      BY <2>8, <2>9, <3>1
    <3>2. CASE c # Len(a) + 1
      <4>1. c \in DOMAIN a
        BY <2>8, <3>2
      <4>2. offsets[c] \in later
        BY <2>6, <2>8, <4>1
      <4> QED BY <2>1, <4>2 DEF later
    <3> QED BY <3>1, <3>2
  <2> QED BY <1>1, <2>8, <2>10
<1> QED BY <1>5, <1>6

\* The smaller of two numbers.
LEMMA SmallerOfTwo ==
    ASSUME NEW a \in Nat, NEW b \in Nat
    PROVE  Min({a, b}) \in Nat /\ Min({a, b}) <= a /\ Min({a, b}) <= b
           /\ (a <= b => Min({a, b}) = a)
<1>1. PICK m : m = Min({a, b})
  OBVIOUS
<1>2. {a, b} \subseteq Nat /\ {a, b} # {}
  OBVIOUS
<1>3. m \in {a, b} /\ \A y \in {a, b} : m <= y
  BY <1>1, <1>2, MinIsLeast
<1>4. m \in Nat /\ m <= a /\ m <= b /\ (a <= b => m = a)
  BY <1>3
<1> QED BY <1>1, <1>4

\* The bytes of a line up to the size of the buffer.
LEMMA BytesOfLine ==
    ASSUME NEW input, IsSequence(input), NEW n \in Nat, n <= Len(input)
    PROVE  \E row : \E r \in 0..(n - LastEnd(input, n)) :
             /\ IsSequence(row) /\ Len(row) = r
             /\ \A k \in 1..r : row[k] = input[LastEnd(input, n) + k]
             /\ \A offsets : LineCells(offsets, LineBefore(input, n + 1)) = RowCells(offsets, row)
<1>1. PICK z, line : z = LastEnd(input, n) /\ line = SubSeq(input, z + 1, n)
  OBVIOUS
<1>2. z \in 0..n
  BY <1>1, LastEndIs DEF IsLastEnd
<1>3. /\ IsSequence(line) /\ Len(line) = n - z
      /\ \A k \in 1..(n - z) : line[k] = input[z + k]
  <2>1. z \in Nat /\ n \in Nat /\ z <= n /\ n <= Len(input) /\ IsSequence(input)
        /\ line = SubSeq(input, z + 1, n)
    BY <1>1, <1>2
  <2> QED BY <2>1, PartOfSequence, Zenon
<1>4. PICK r, o : r = Min({FxBuffer, Len(line)}) /\ o = 0
  OBVIOUS
<1>5. r \in 0..(n - z) /\ r <= Len(line) /\ o \in Nat /\ o <= r /\ r - o = r /\ o + 1 = 1
      /\ r \in Nat /\ \A k \in 1..r : o + k = k
  <2>1. Len(line) \in Nat /\ FxBuffer \in Nat
    BY <1>2, <1>3, FxAssumption
  <2>2. r \in Nat /\ r <= Len(line)
    BY <1>4, <2>1, SmallerOfTwo
  <2> QED BY <1>2, <1>3, <1>4, <2>2
<1>6. PICK row : row = SubSeq(line, o + 1, r)
  OBVIOUS
<1>7. IsSequence(row) /\ Len(row) = r /\ \A k \in 1..r : row[k] = line[k]
  <2>1. o \in Nat /\ r \in Nat /\ o <= r /\ r <= Len(line) /\ IsSequence(line)
        /\ row = SubSeq(line, o + 1, r)
    BY <1>3, <1>5, <1>6
  <2>2. /\ IsSequence(row) /\ Len(row) = r - o
        /\ \A k \in 1..(r - o) : row[k] = line[o + k]
    BY <2>1, PartOfSequence, Zenon
  <2> QED BY <1>5, <2>2
<1>8. \A k \in 1..r : row[k] = input[z + k]
  <2>1. \A k \in 1..r : k \in 1..(n - z)
    BY <1>2, <1>5
  <2> QED BY <1>3, <1>7, <2>1
<1>9. \A offsets : LineCells(offsets, LineBefore(input, n + 1)) = RowCells(offsets, row)
  <2>1. LineBefore(input, n + 1) = line
    BY <1>1, LineIsOpen
  <2>2. row = SubSeq(line, 1, Min({FxBuffer, Len(line)}))
    BY <1>4, <1>5, <1>6
  <2> QED BY <2>1, <2>2 DEF LineCells
<1> QED BY <1>1, <1>5, <1>7, <1>8, <1>9

\* A cell that is not empty: the row goes beyond where it begins, and its last
\* byte is the one before its end.
LEMMA LastOfCell ==
    ASSUME NEW row, IsSequence(row), NEW lo \in Nat, NEW hi \in Nat,
           SubSeq(row, lo + 1, Min({hi, Len(row)})) # <<>>
    PROVE  /\ lo < Len(row)
           /\ hi <= Len(row) =>
                /\ hi > 0
                /\ Last(SubSeq(row, lo + 1, Min({hi, Len(row)}))) = row[hi]
<1>1. PICK h, cell : h = Min({hi, Len(row)}) /\ cell = SubSeq(row, lo + 1, h)
  OBVIOUS
<1>2. Len(row) \in Nat
  BY DEF IsSequence
<1>3. h \in Nat /\ h <= Len(row) /\ (hi <= Len(row) => h = hi)
  BY <1>1, <1>2, SmallerOfTwo
<1>4. lo < h
  <2> SUFFICES ASSUME ~(lo < h) PROVE FALSE
    BY <1>3
  <2>1. cell = <<>>
    <3>1. h < lo + 1 /\ h \in Int /\ lo + 1 \in Int
      BY <1>3
    <3>2. PICK S : row \in Seq(S)
      BY DEF IsSequence
    <3> QED BY <1>1, <3>1, <3>2, SubSeqEmpty
  <2> QED BY <1>1, <2>1
<1>5. /\ IsSequence(cell) /\ Len(cell) = h - lo
      /\ \A k \in 1..(h - lo) : cell[k] = row[lo + k]
  <2>1. lo \in Nat /\ h \in Nat /\ lo <= h /\ h <= Len(row) /\ IsSequence(row)
        /\ cell = SubSeq(row, lo + 1, h)
    BY <1>1, <1>3, <1>4
  <2> QED BY <2>1, PartOfSequence, Zenon
<1>6. Last(cell) = row[h]
  <2>1. PICK k : k = h - lo
    OBVIOUS
  <2>2. k \in 1..(h - lo) /\ lo + k = h
    BY <1>3, <1>4, <2>1
  <2>3. cell[k] = row[lo + k]
    BY <1>5, <2>2
  <2> QED BY <1>5, <2>1, <2>2, <2>3 DEF Last
<1>7. lo < Len(row) /\ (hi <= Len(row) => hi > 0)
  BY <1>3, <1>4
<1> QED BY <1>1, <1>3, <1>6, <1>7

\* Ink before an offset: a word that began there would have begun before.
LEMMA InkBeforeOffset ==
    ASSUME NEW text, NEW z \in Nat, NEW o \in Nat, o # 0, IsLastEnd(text, z + o - 1, z),
           z + o \in DOMAIN text, text[z + o] = "x", o \in WordStarts(text),
           LineEnd(text) \in Nat
    PROVE  FALSE
<1>1. PICK i : i = z + o
  OBVIOUS
<1>2. i - 1 = z + o - 1 /\ i - 1 \in Nat /\ (i - 1) - z = o - 1
  BY <1>1
<1>3. LastEnd(text, i - 1) = z
  BY <1>2, LastEndIsOne
<1>4. LineCursor(text, i) = o - 1
  BY <1>2, <1>3 DEF LineCursor
<1>5. o - 1 \in Inked(text)
  BY <1>1, <1>4 DEF Inked
<1>6. o < LineEnd(text) /\ o - 1 \notin {p \in Inked(text) : p < LineEnd(text)}
  BY DEF WordStarts, Starts
<1> QED BY <1>5, <1>6

\* No word of a line that the detection has seen whole is cut in two.
LEMMA NoWordIsCut ==
    ASSUME NEW input, IsSequence(input), NEW m \in 0..Len(input),
           NEW text, text = SubSeq(input, 1, m), NEW offsets, offsets = Offsets(text),
           NEW e \in 1..(Len(input) + 1), e - 1 <= m,
           NEW cells, cells = LineCells(offsets, LineBefore(input, e)), NEW c \in DOMAIN cells
    PROVE  CutsNoWord(cells, c)
<1>1. PICK n, z : n = e - 1 /\ z = LastEnd(input, n)
  OBVIOUS
<1>2. n \in Nat /\ n + 1 = e /\ n <= m /\ m <= Len(input) /\ m \in Nat /\ Len(input) \in Nat
  BY <1>1 DEF IsSequence
<1>3. IsLastEnd(input, n, z) /\ z \in 0..n
  <2>1. IsLastEnd(input, n, z)
    BY <1>1, <1>2, LastEndIs
  <2> QED BY <2>1 DEF IsLastEnd
<1>4. PICK row : \E r \in 0..(n - z) :
             /\ IsSequence(row) /\ Len(row) = r
             /\ \A k \in 1..r : row[k] = input[z + k]
             /\ \A os : LineCells(os, LineBefore(input, n + 1)) = RowCells(os, row)
  <2>1. n <= Len(input)
    BY <1>2
  <2> QED BY <1>1, <1>2, <2>1, BytesOfLine
<1>5. PICK r \in 0..(n - z) :
             /\ IsSequence(row) /\ Len(row) = r
             /\ \A k \in 1..r : row[k] = input[z + k]
             /\ \A os : LineCells(os, LineBefore(input, n + 1)) = RowCells(os, row)
  BY <1>4
<1>6. cells = RowCells(offsets, row)
  BY <1>2, <1>5
<1>7. /\ IsSequence(text) /\ Len(text) = m /\ DOMAIN text = 1..m
      /\ \A k \in 1..m : text[k] = input[k]
  <2>1. PICK o : o = 0
    OBVIOUS
  <2>2. o \in Nat /\ o <= m /\ o + 1 = 1 /\ m - o = m /\ \A k \in 1..m : o + k = k
    BY <1>2, <2>1
  <2>3. text = SubSeq(input, o + 1, m)
    BY <2>2
  <2>4. /\ IsSequence(text) /\ Len(text) = m - o /\ DOMAIN text = 1..(m - o)
        /\ \A k \in 1..(m - o) : text[k] = input[o + k]
    <3>1. o \in Nat /\ m \in Nat /\ o <= m /\ m <= Len(input) /\ IsSequence(input)
      BY <1>2, <2>2
    <3>2. LET t == SubSeq(input, o + 1, m)
          IN  /\ IsSequence(t) /\ Len(t) = m - o /\ DOMAIN t = 1..(m - o)
              /\ \A k \in 1..(m - o) : t[k] = input[o + k]
      BY <3>1, PartOfSequence
    <3> QED BY <2>3, <3>2, Zenon
  <2> QED BY <2>2, <2>4
<1>8. /\ IsSequence(offsets) /\ \A i \in DOMAIN offsets : offsets[i] \in Nat
      /\ \A i \in DOMAIN offsets :
           i < Len(offsets) => offsets[i] \in WordStarts(text) /\ offsets[i] # 0
  BY <1>7, OffsetsStartWords
<1>9. PICK w : w = Len(offsets)
  OBVIOUS
<1>10. w \in Nat /\ DOMAIN offsets = 1..w
  BY <1>8, <1>9 DEF IsSequence
<1>11. Len(cells) = w /\ DOMAIN cells = 1..w
  <2>1. cells = [i \in 1..w |-> cells[i]]
    <3>1. cells = [i \in 1..w |-> SubSeq(row, (IF i = 1 THEN 0 ELSE offsets[i - 1]) + 1,
                                              Min({offsets[i], Len(row)}))]
      BY <1>6, <1>10 DEF RowCells
    <3> QED BY <3>1, Zenon
  <2> QED BY <1>10, <2>1, ListIsSequence
<1> SUFFICES ASSUME c < w, cells[c] # <<>>, cells[c + 1] # <<>>, Last(cells[c]) = "x"
             PROVE  FALSE
  BY <1>11 DEF CutsNoWord
<1>12. PICK o, d : o = offsets[c] /\ d = offsets[c + 1]
  OBVIOUS
<1>13. /\ c \in 1..w /\ c + 1 \in 1..w /\ c + 1 # 1 /\ (c + 1) - 1 = c
       /\ o \in Nat /\ d \in Nat /\ o # 0 /\ o \in WordStarts(text)
  <2>1. c \in 1..w /\ c + 1 \in 1..w /\ c + 1 # 1 /\ (c + 1) - 1 = c
    BY <1>10, <1>11
  <2> QED BY <1>8, <1>9, <1>10, <1>12, <2>1
<1>14. PICK lo : lo = (IF c = 1 THEN 0 ELSE offsets[c - 1])
  OBVIOUS
<1>15. lo \in Nat
  <2>1. c # 1 => c - 1 \in 1..w
    BY <1>10, <1>13
  <2> QED BY <1>8, <1>10, <1>14, <2>1
<1>16. cells[c] = SubSeq(row, lo + 1, Min({o, Len(row)}))
  BY <1>6, <1>10, <1>12, <1>13, <1>14 DEF RowCells
<1>17. cells[c + 1] = SubSeq(row, o + 1, Min({d, Len(row)}))
  <2>1. cells[c + 1] = SubSeq(row, (IF c + 1 = 1 THEN 0 ELSE offsets[(c + 1) - 1]) + 1,
                                   Min({offsets[c + 1], Len(row)}))
    BY <1>6, <1>10, <1>13 DEF RowCells
  <2> QED BY <1>12, <1>13, <2>1
<1>18. o < Len(row)
  BY <1>5, <1>13, <1>17, LastOfCell
<1>19. row[o] = "x"
  <2>1. o <= Len(row)
    BY <1>5, <1>13, <1>18
  <2> QED BY <1>5, <1>13, <1>15, <1>16, <2>1, LastOfCell
<1>20. o \in 1..r /\ z \in Nat /\ z + o \in 1..n /\ z + o - 1 \in Nat /\ z + o - 1 <= n
       /\ z <= z + o - 1
  BY <1>2, <1>3, <1>5, <1>13, <1>18
<1>21. z + o \in DOMAIN text /\ text[z + o] = "x"
  <2>1. z + o \in 1..m
    BY <1>2, <1>20
  <2> QED BY <1>5, <1>7, <1>19, <1>20, <2>1
<1>22. IsLastEnd(text, z + o - 1, z)
  <2>1. z > 0 => text[z] \in LineEnds
    <3>1. z > 0 => z \in 1..m
      BY <1>2, <1>3
    <3> QED BY <1>3, <1>7, <3>1 DEF IsLastEnd
  <2>2. ASSUME NEW j \in (z + 1)..(z + o - 1) PROVE text[j] \notin LineEnds
    <3>1. j \in (z + 1)..n /\ j \in 1..m
      BY <1>2, <1>20
    <3>2. input[j] \notin LineEnds
      BY <1>3, <3>1 DEF IsLastEnd
    <3> QED BY <1>7, <3>1, <3>2
  <2>3. z \in 0..(z + o - 1)
    BY <1>20
  <2> QED BY <2>1, <2>2, <2>3 DEF IsLastEnd
<1>23. LineEnd(text) \in Nat
  BY <1>7, PositionsAreNumbers
<1> QED BY <1>13, <1>20, <1>21, <1>22, <1>23, InkBeforeOffset

\* The state of the fixed-width scanner is a record of ten fields.
FxShape(s) ==
    s = [pc |-> s.pc, input |-> s.input, given |-> s.given, maxLines |-> s.maxLines,
         offsets |-> s.offsets, read |-> s.read, buff |-> s.buff, last |-> s.last,
         throwaway |-> s.throwaway, stat |-> s.stat]

\* While the input is read, the rows, the buffer and the throwaway flag are those
\* of the bytes read so far.
FxReading(s, o) ==
    /\ s.stat = "ok" /\ s.read \in 0..Len(s.input) /\ Len(s.buff) <= FxBuffer
    /\ s.last = (IF s.read = 0 THEN "none" ELSE s.input[s.read])
    /\ FxTracks(s.input, s.offsets, o, s.buff, s.throwaway, s.read)

\* The offsets are those found in the preview.
FxDetected(s) ==
    s.stat = "ok" /\ s.given = <<>> => s.offsets = Offsets(Previewed(s.input, s.maxLines))

\* The inductive invariant of the fixed-width scanner, of a state and an output.
FxGood(s, o) ==
    /\ FxShape(s) /\ IsSequence(s.input) /\ s.pc \in {"detect", "read", "done"}
    /\ s.pc = "detect" =>
         o = <<>> /\ s.read = 0 /\ s.buff = <<>> /\ s.last = "none" /\ s.throwaway = FALSE
    /\ s.pc = "read" => FxReading(s, o)
    /\ s.pc = "done" /\ s.stat = "ok" => RowsOfLines(s.input, s.offsets, o)
    /\ s.pc # "detect" => FxDetected(s)

\* It is an invariant of FixedSpec.
FixedInv == cmd = "fixed" /\ FxGood(st, out)

\* At the start the input has not been looked at.
LEMMA FixedStarts == ASSUME FixedInit PROVE FixedInv
<1>1. PICK input \in FxInputs, given \in FxGiven, maxLines \in 0..1 :
         st = [pc |-> "detect", input |-> input, given |-> given, maxLines |-> maxLines,
               offsets |-> <<>>, read |-> 0, buff |-> <<>>, last |-> "none",
               throwaway |-> FALSE, stat |-> "ok"]
  BY DEF FixedInit
<1>2. PICK s : s = st
  OBVIOUS
<1>3. /\ s.pc = "detect" /\ s.input = input /\ s.read = 0 /\ s.buff = <<>> /\ s.last = "none"
      /\ s.throwaway = FALSE /\ FxShape(s)
  BY <1>1, <1>2 DEF FxShape
<1>4. IsSequence(s.input)
  <2>1. input \in Seq(FxBytes)
    BY FxAssumption
  <2> QED BY <1>3, <2>1, SequenceOver
<1>5. out = <<>> /\ cmd = "fixed"
  BY DEF FixedInit
<1>6. s.pc \in {"detect", "read", "done"} /\ s.pc # "read" /\ s.pc # "done"
  BY <1>3
<1>7. FxGood(s, out)
  BY <1>3, <1>4, <1>5, <1>6, Zenon DEF FxGood
<1> QED BY <1>2, <1>5, <1>7 DEF FixedInv

\* The detection leaves the output alone; reading begins only when it succeeds.
LEMMA DetectStep == ASSUME FixedInv, FixedDetect PROVE FixedInv'
<1>1. PICK s, t : s = st /\ t = st'
  OBVIOUS
<1>2. PICK offsets, stat :
        /\ s.given = <<>> => offsets = Offsets(Previewed(s.input, s.maxLines))
        /\ t = [s EXCEPT !.pc = IF stat = "ok" THEN "read" ELSE "done",
                         !.offsets = offsets, !.stat = stat]
  <2> DEFINE text == Previewed(s.input, s.maxLines)
             auto == s.given = <<>>
             found == IF auto THEN Offsets(text) ELSE s.given
             how == IF auto /\ LineEnd(text) = 0 THEN "error"
                    ELSE IF auto /\ Len(found) > Counted(text) THEN "overrun"
                    ELSE IF found = <<>> THEN "delimited"
                    ELSE IF ~OffsetsFit(found) THEN "cancelled" ELSE "ok"
  <2>1. t = [s EXCEPT !.pc = IF how = "ok" THEN "read" ELSE "done",
                      !.offsets = found, !.stat = how]
    BY <1>1, Zenon DEF FixedDetect
  <2>2. s.given = <<>> => found = Offsets(Previewed(s.input, s.maxLines))
    OBVIOUS
  <2> HIDE DEF text, auto, found, how
  <2> QED BY <2>1, <2>2
<1>3. cmd = "fixed" /\ FxGood(s, out) /\ s.pc = "detect" /\ cmd' = cmd /\ out' = out
  BY <1>1 DEF FixedInv, FixedDetect
<1>4. /\ FxShape(s) /\ IsSequence(s.input) /\ out = <<>> /\ s.read = 0 /\ s.buff = <<>>
      /\ s.last = "none" /\ s.throwaway = FALSE
  BY <1>3, Zenon DEF FxGood
<1>5. /\ FxShape(t) /\ t.pc = (IF stat = "ok" THEN "read" ELSE "done") /\ t.stat = stat
      /\ t.offsets = offsets /\ t.input = s.input /\ t.given = s.given /\ t.maxLines = s.maxLines
      /\ t.read = s.read /\ t.buff = s.buff /\ t.last = s.last /\ t.throwaway = s.throwaway
  BY <1>2, <1>4 DEF FxShape
<1>6. t.pc = "read" => FxReading(t, out)
  <2> SUFFICES ASSUME t.pc = "read" PROVE FxReading(t, out)
    OBVIOUS
  <2>1. t.stat = "ok"
    BY <1>5
  <2>2. 0 \in 0..Len(t.input) /\ Len(<<>>) <= FxBuffer
    BY <1>4, <1>5, FxAssumption DEF IsSequence
  <2>3. FxTracks(t.input, t.offsets, <<>>, <<>>, FALSE, 0)
    BY <1>4, <1>5, NothingTracked
  <2> QED BY <1>4, <1>5, <2>1, <2>2, <2>3, Zenon DEF FxReading
<1>7. t.pc # "detect" /\ t.pc \in {"detect", "read", "done"} /\ (t.pc = "done" => t.stat # "ok")
  BY <1>5
<1>8. FxDetected(t)
  BY <1>2, <1>5 DEF FxDetected
<1>9. FxGood(t, out)
  BY <1>4, <1>5, <1>6, <1>7, <1>8, Zenon DEF FxGood
<1> QED BY <1>1, <1>3, <1>9 DEF FixedInv

\* A read: a full buffer is cut off, then the bytes are scanned.
LEMMA FixedReadStep == ASSUME FixedInv, FixedRead PROVE FixedInv'
<1>1. PICK s, t : s = st /\ t = st'
  OBVIOUS
<1> DEFINE full == Len(s.buff) = FxBuffer
           base == IF full THEN <<>> ELSE s.buff
           cut == IF full THEN Deliver(s.offsets, <<s.buff>>, s.throwaway) ELSE <<>>
           thrown == full \/ s.throwaway
<1> DEFINE scanned(n) == ScanFixed(base \o SubSeq(s.input, s.read + 1, s.read + n), s.last)
<1>2. PICK n \in 1..Min({FxBuffer - Len(base), Len(s.input) - s.read}) :
        /\ t = [s EXCEPT !.read = @ + n, !.buff = scanned(n).rest, !.last = s.input[s.read + n],
                         !.throwaway = thrown /\ scanned(n).rows = <<>>]
        /\ out' = out \o cut \o Deliver(s.offsets, scanned(n).rows, thrown)
  BY <1>1, Zenon DEF FixedRead
<1>3. PICK scan :
        /\ scan = ScanFixed(base \o SubSeq(s.input, s.read + 1, s.read + n), s.last)
        /\ t = [s EXCEPT !.read = @ + n, !.buff = scan.rest, !.last = s.input[s.read + n],
                         !.throwaway = thrown /\ scan.rows = <<>>]
        /\ out' = out \o cut \o Deliver(s.offsets, scan.rows, thrown)
  BY <1>2, Zenon
<1> HIDE DEF scanned
<1>4. /\ cmd = "fixed" /\ FxGood(s, out) /\ s.pc = "read" /\ s.read < Len(s.input)
      /\ cmd' = cmd
  BY <1>1 DEF FixedInv, FixedRead
<1>5. FxShape(s) /\ IsSequence(s.input) /\ FxReading(s, out) /\ FxDetected(s)
  <2>1. s.pc # "detect"
    BY <1>4
  <2> QED BY <1>4, <2>1, Zenon DEF FxGood
<1>6. /\ s.stat = "ok" /\ s.read \in 0..Len(s.input) /\ Len(s.buff) <= FxBuffer
      /\ s.last = (IF s.read = 0 THEN "none" ELSE s.input[s.read])
      /\ FxTracks(s.input, s.offsets, out, s.buff, s.throwaway, s.read)
  BY <1>5 DEF FxReading
<1>7. PICK b, prior, th : b = base /\ prior = out \o cut /\ th = thrown
  OBVIOUS
<1>8. IsSequence(out) /\ s.throwaway \in BOOLEAN /\ Len(s.input) \in Nat /\ s.read \in Nat
      /\ s.read <= Len(s.input)
  BY <1>5, <1>6 DEF FxTracks, IsSequence
<1>9. FxTracks(s.input, s.offsets, prior, b, th, s.read) /\ Len(b) \in 0..FxBuffer
  <2>1. CASE full
    <3>1. prior = HandedOver(s.offsets, out, s.buff, s.throwaway)
      BY <1>7, <1>8, <2>1, DeliverOne
    <3>2. b = <<>> /\ th = TRUE
      BY <1>7, <2>1
    <3>3. FxTracks(s.input, s.offsets, HandedOver(s.offsets, out, s.buff, s.throwaway), <<>>,
                   TRUE, s.read)
      BY <1>5, <1>6, <1>8, <2>1, CutTracked
    <3>4. Len(<<>>) \in 0..FxBuffer
      BY FxAssumption
    <3> QED BY <3>1, <3>2, <3>3, <3>4
  <2>2. CASE ~full
    <3>1. prior = out
      BY <1>7, <1>8, <2>2, ConcatIsSequence
    <3>2. b = s.buff /\ th = s.throwaway
      BY <1>7, <1>8, <2>2
    <3>3. Len(s.buff) \in 0..FxBuffer
      <4>1. Len(s.buff) \in Nat
        <5>1. LastEnd(s.input, s.read) \in 0..s.read
          BY <1>8, LastEndIs DEF IsLastEnd
        <5>2. Len(s.buff) \in 0..(s.read - LastEnd(s.input, s.read))
          BY <1>6 DEF FxTracks
        <5> QED BY <1>8, <5>1, <5>2
      <4> QED BY <1>6, <4>1, FxAssumption
    <3> QED BY <1>6, <3>1, <3>2, <3>3
  <2> QED BY <2>1, <2>2
<1> HIDE DEF full, base, cut, thrown
<1>10. n \in Nat /\ n > 0 /\ s.read + n <= Len(s.input) /\ Len(b) + n <= FxBuffer
  <2>1. FxBuffer - Len(b) \in Nat /\ Len(s.input) - s.read \in Nat
    BY <1>8, <1>9, FxAssumption
  <2>2. PICK m : m = Min({FxBuffer - Len(b), Len(s.input) - s.read})
    OBVIOUS
  <2>3. m \in Nat /\ m <= FxBuffer - Len(b) /\ m <= Len(s.input) - s.read
    BY <2>1, <2>2, SmallerOfTwo
  <2>4. n \in 1..m
    BY <1>7, <2>2
  <2> QED BY <1>8, <1>9, <2>3, <2>4, FxAssumption
<1>11. PICK rows, rest : rows = scan.rows /\ rest = scan.rest
  OBVIOUS
<1>12. scan = ScanFixed(b \o SubSeq(s.input, s.read + 1, s.read + n), s.last)
  BY <1>3, <1>7
<1>13. /\ FxTracks(s.input, s.offsets, prior \o Deliver(s.offsets, scan.rows, th), scan.rest,
                   th /\ scan.rows = <<>>, s.read + n)
       /\ Len(scan.rest) <= FxBuffer
  BY <1>5, <1>6, <1>8, <1>9, <1>10, <1>12, ChunkTracked
<1>14. /\ FxShape(t) /\ t.pc = s.pc /\ t.stat = s.stat /\ t.offsets = s.offsets
       /\ t.input = s.input /\ t.given = s.given /\ t.maxLines = s.maxLines
       /\ t.read = s.read + n /\ t.buff = scan.rest /\ t.last = s.input[s.read + n]
       /\ t.throwaway = (th /\ scan.rows = <<>>)
  BY <1>3, <1>5, <1>7 DEF FxShape
<1>15. out' = prior \o Deliver(s.offsets, scan.rows, th)
  BY <1>3, <1>7
<1>16. FxReading(t, out')
  <2>1. t.read \in 0..Len(t.input) /\ t.read # 0
    BY <1>8, <1>10, <1>14
  <2>2. t.last = (IF t.read = 0 THEN "none" ELSE t.input[t.read])
    BY <1>14, <2>1
  <2>3. FxTracks(t.input, t.offsets, out', t.buff, t.throwaway, t.read)
    BY <1>13, <1>14, <1>15
  <2> QED BY <1>6, <1>13, <1>14, <2>1, <2>2, <2>3 DEF FxReading
<1>17. FxDetected(t)
  BY <1>5, <1>14 DEF FxDetected
<1>18. t.pc \in {"detect", "read", "done"} /\ t.pc # "detect" /\ t.pc # "done"
  BY <1>4, <1>14
<1>19. FxGood(t, out')
  <2>1. IsSequence(t.input) /\ FxShape(t)
    BY <1>5, <1>14
  <2> QED BY <1>16, <1>17, <1>18, <2>1, Zenon DEF FxGood
<1> QED BY <1>1, <1>4, <1>19 DEF FixedInv

\* The end of the input.
LEMMA FixedFinishStep == ASSUME FixedInv, FixedFinish PROVE FixedInv'
<1>1. PICK s, t, o : s = st /\ t = st' /\ o = out'
  OBVIOUS
<1>2. /\ s.pc = "read" /\ s.read = Len(s.input) /\ t = [s EXCEPT !.pc = "done"] /\ cmd' = cmd
      /\ o = IF s.buff = <<>> THEN out ELSE out \o Deliver(s.offsets, <<s.buff>>, s.throwaway)
  BY <1>1 DEF FixedFinish
<1>3. cmd = "fixed" /\ FxGood(s, out)
  BY <1>1 DEF FixedInv
<1>4. FxShape(s) /\ IsSequence(s.input) /\ FxReading(s, out) /\ FxDetected(s)
  <2>1. s.pc # "detect"
    BY <1>2
  <2> QED BY <1>2, <1>3, <2>1, Zenon DEF FxGood
<1>5. /\ s.stat = "ok" /\ Len(s.buff) <= FxBuffer
      /\ FxTracks(s.input, s.offsets, out, s.buff, s.throwaway, Len(s.input))
  BY <1>2, <1>4 DEF FxReading
<1>6. RowsOfLines(s.input, s.offsets, o)
  BY <1>2, <1>4, <1>5, FinishTracked
<1>7. /\ FxShape(t) /\ t.pc = "done" /\ t.stat = s.stat /\ t.offsets = s.offsets
      /\ t.input = s.input /\ t.given = s.given /\ t.maxLines = s.maxLines
  BY <1>2, <1>4 DEF FxShape
<1>8. t.pc \in {"detect", "read", "done"} /\ t.pc # "detect" /\ t.pc # "read"
  BY <1>7
<1>9. RowsOfLines(t.input, t.offsets, o) /\ IsSequence(t.input) /\ FxDetected(t)
  BY <1>4, <1>6, <1>7 DEF FxDetected
<1>10. FxGood(t, o)
  BY <1>7, <1>8, <1>9, Zenon DEF FxGood
<1> QED BY <1>1, <1>2, <1>3, <1>10 DEF FixedInv

\* What the invariant says at the end.
LEMMA FixedIsRight == ASSUME FixedInv PROVE FixedRowsAreTheLines
<1>1. PICK s : s = st
  OBVIOUS
<1> DEFINE ends == LinesEnd(s.input)
           cells(e) == LineCells(s.offsets, LineBefore(s.input, e))
           seen == Len(Previewed(s.input, s.maxLines))
<1> SUFFICES ASSUME s.pc = "done", s.stat = "ok"
             PROVE  /\ Len(out) = Cardinality(ends)
                    /\ \A e \in ends : out[Cardinality({f \in ends : f <= e})] = cells(e)
                    /\ s.given = <<>> => \A e \in ends : e - 1 <= seen =>
                         \A c \in DOMAIN cells(e) : CutsNoWord(cells(e), c)
  BY <1>1, Zenon DEF FixedRowsAreTheLines
<1>2. FxGood(s, out)
  BY <1>1 DEF FixedInv
<1>3. IsSequence(s.input) /\ RowsOfLines(s.input, s.offsets, out) /\ FxDetected(s)
  <2>1. s.pc # "detect"
    OBVIOUS
  <2> QED BY <1>2, <2>1, Zenon DEF FxGood
<1>4. /\ Len(out) = Cardinality(ends)
      /\ \A e \in ends : out[Cardinality({f \in ends : f <= e})] = cells(e)
  BY <1>3, Zenon DEF RowsOfLines
<1>5. ASSUME s.given = <<>>, NEW e \in ends, e - 1 <= seen, NEW c \in DOMAIN cells(e)
      PROVE  CutsNoWord(cells(e), c)
  <2>0. PICK m \in 0..Len(s.input) : Previewed(s.input, s.maxLines) = SubSeq(s.input, 1, m)
    BY <1>3, PreviewIsBeginning
  <2>1. PICK text : text = Previewed(s.input, s.maxLines) /\ text = SubSeq(s.input, 1, m)
    BY <2>0
  <2>2. s.offsets = Offsets(text)
    BY <1>3, <1>5, <2>1 DEF FxDetected
  <2>3. Len(s.input) \in Nat
    BY <1>3 DEF IsSequence
  <2>4. Len(text) = m
    <3>1. PICK o : o = 0
      OBVIOUS
    <3>2. o \in Nat /\ o <= m /\ m \in Nat /\ m <= Len(s.input) /\ o + 1 = 1 /\ m - o = m
      BY <2>3, <3>1
    <3>3. Len(SubSeq(s.input, o + 1, m)) = m - o
      BY <1>3, <3>2, PartOfSequence
    <3> QED BY <2>1, <3>2, <3>3
  <2>5. e - 1 <= m
    BY <1>5, <2>1, <2>4
  <2>6. e \in 1..(Len(s.input) + 1)
    BY <2>3 DEF LinesEnd
  <2>7. PICK k : k = cells(e)
    OBVIOUS
  <2>8. CutsNoWord(k, c)
    <3>1. c \in DOMAIN k /\ k = LineCells(s.offsets, LineBefore(s.input, e))
      BY <1>5, <2>7
    <3> HIDE DEF cells, ends, seen
    <3> QED BY <1>3, <2>1, <2>2, <2>5, <2>6, <3>1, NoWordIsCut
  <2> QED BY <2>7, <2>8
<1> HIDE DEF ends, cells, seen
<1> QED BY <1>4, <1>5

\* The rows of fixed-width input are its lines, cut at the offsets, however the
\* input was read and whatever its bytes, and the detection cuts no word in two
\* (zsv_scan_fixed, scanner_pre_parse, auto_detect_fixed_column_sizes).
THEOREM RowsAreTheLines == FixedSpec => []FixedRowsAreTheLines
<1>1. FixedInit => FixedInv
  BY FixedStarts
<1>2. FixedInv /\ [FixedNext \/ Finished]_procVars => FixedInv'
  <2> SUFFICES ASSUME FixedInv, [FixedNext \/ Finished]_procVars PROVE FixedInv'
    OBVIOUS
  <2>1. CASE FixedDetect
    BY <2>1, DetectStep
  <2>2. CASE FixedRead
    BY <2>2, FixedReadStep
  <2>3. CASE FixedFinish
    BY <2>3, FixedFinishStep
  <2>4. CASE UNCHANGED procVars
    BY <2>4 DEF FixedInv, procVars
  <2> QED BY <2>1, <2>2, <2>3, <2>4, Zenon DEF FixedNext, Finished
<1>3. FixedInv => FixedRowsAreTheLines
  BY FixedIsRight
<1> QED BY <1>1, <1>2, <1>3, PTL DEF FixedSpec
=============================================================================
