-------------------------- MODULE MCParallelChunks --------------------------
(***************************************************************************)
(* Instances of ParallelChunks for TLC: the files are documents over       *)
(* Alphabet, read as module Csv says.                                      *)
(***************************************************************************)
EXTENDS ParallelChunks

CONSTANTS Alphabet, MaxSize

CONSTANT CrlfOptions    \* the values of --only-crlf

Any  == INSTANCE Csv WITH MaxCols <- 1, OnlyCrlf <- FALSE
Crlf == INSTANCE Csv WITH MaxCols <- 1, OnlyCrlf <- TRUE

\* up to MaxSize bytes, and with --only-crlf one less
FilesUpTo ==
    UNION {{[bytes |-> d, crlf |-> b] : d \in {s \in [1..n -> Alphabet] : s[1] = "a"}}
             : <<n, b>> \in {<<m, c>> \in (1..MaxSize) \X CrlfOptions : c => m < MaxSize}}

\* Three chunks: the row from 2 on has a newline behind the first cut and
\* makes the second chunk be parsed again, from 13 on; the row from there on
\* has one behind the second cut and is the last.
LongLines ==
    [bytes |-> [i \in 1..30 |->
        IF i - 1 \in {1, 9, 12, 26, 29} THEN "n"
        ELSE IF i - 1 \in {2, 11, 13, 28} THEN "q" ELSE "a"],
     crlf |-> FALSE]
FilesAndLong == FilesUpTo \cup {LongLines}

FileSize(f) == Len(f.bytes)
IsOnlyCrlf(f) == f.crlf
IsNewLine(f, o) == f.bytes[o + 1] \in {Any!CR, Any!LF}
IsCrLf(f, o) == f.bytes[o + 1] = Any!CR /\ o + 2 <= Len(f.bytes) /\ f.bytes[o + 2] = Any!LF

\* the rows behind offset o, with offsets in the whole file
RowsFrom(f, o) ==
    LET d   == SubSeq(f.bytes, o + 1, Len(f.bytes))
        ref == IF f.crlf THEN Crlf!RefRows(d) ELSE Any!RefRows(d)
    IN  [k \in DOMAIN ref |->
           [start |-> ref[k].start + o, end |-> ref[k].at + o,
            data |-> \E c \in DOMAIN ref[k].cells : ref[k].cells[c] # <<>>]]
=============================================================================
