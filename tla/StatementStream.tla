--------------------------- MODULE StatementStream ---------------------------
(***************************************************************************)
(* What the main pass of pycrefine promises of the statements of a code     *)
(* object (decompile() in decompiler/generic.py): they are written one at a *)
(* time, in the order of the code, none is left out, none is taken back,    *)
(* and when decompile() returns all of them are there.  A statement is the  *)
(* offset it is read from.                                                  *)
(***************************************************************************)
EXTENDS Naturals

VARIABLES
    source,      (* the statements of the code object *)
    written,     (* the statements with a line in the text *)
    complete     (* decompile() has returned *)

streamVars == <<source, written, complete>>

Init ==
    /\ source \in SUBSET Nat
    /\ written = {}
    /\ complete = FALSE

IsNext(i) == i \in source \ written /\ \A j \in source \ written : i <= j

WriteNext ==
    /\ ~complete
    /\ \E i \in source : IsNext(i) /\ written' = written \cup {i}
    /\ UNCHANGED <<source, complete>>

Return ==
    /\ ~complete
    /\ written = source
    /\ complete' = TRUE
    /\ UNCHANGED <<source, written>>

Next == WriteNext \/ Return

Spec == Init /\ [][Next]_streamVars /\ WF_streamVars(Next)
=============================================================================
