--------------------------- MODULE MCFastScanner ---------------------------
(***************************************************************************)
(* The fast engine alone, on documents whose rows end in any way.          *)
(***************************************************************************)
EXTENDS FastScanner

FastLines == UNION {[1..n -> {LF, CR, "a"}] : n \in 0..6}

Spec == FastInit /\ [][FastNext \/ Finished]_procVars
=============================================================================
