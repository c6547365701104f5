----------------------------- MODULE MCScanner -----------------------------
(* Instances of Scanner for TLC: all documents up to a length. *)
EXTENDS ScannerRef

CONSTANTS Alphabet, MaxLen

DocsUpTo == UNION {[1..n -> Alphabet] : n \in 0..MaxLen}
=============================================================================
