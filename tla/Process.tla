------------------------------ MODULE Process ------------------------------
(***************************************************************************)
(* One run of the zsv executable.  cli.c hands the process to exactly one  *)
(* command, so the commands share the variables of this module: which      *)
(* command it is, the command's own state (its C structs, as one record),  *)
(* what it has produced and what is on the disk when it stops.             *)
(***************************************************************************)
EXTENDS Integers, Sequences, FiniteSets, SequencesExt, FiniteSetsExt

VARIABLES
    cmd,    \* the command that runs
    st,     \* its state; st.pc is where it is
    out,    \* what it has written or handed to its caller
    disk    \* the files that outlive the process

procVars == <<cmd, st, out, disk>>

\* A command that has finished stays finished.
Finished == st.pc = "done" /\ UNCHANGED procVars

\* A cell is a sequence of words; the empty one is a blank cell.
Blank == <<>>

\* What has a length and an element at each place up to it.
IsList(s) == Len(s) \in Nat /\ DOMAIN s = 1..Len(s)

\* All sequences over S of at most n elements.
SeqUpTo(S, n) == UNION {[1..k -> S] : k \in 0..n}
=============================================================================
