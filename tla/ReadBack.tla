------------------------------ MODULE ReadBack ------------------------------
(***************************************************************************)
(* What a reader of the data of a .pyc file promises: from complete data it *)
(* returns the object that was written, from data cut short it raises, and  *)
(* it never goes on for ever, whatever the data.                            *)
(***************************************************************************)
VARIABLES written,           \* "whole", "cut short", or "never" for data that no writer made
          outcome            \* "none yet", "the object written", "another object" or "an exception"

vars == <<written, outcome>>

Init == written \in {"whole", "cut short", "never"} /\ outcome = "none yet"

ReturnObject ==
    /\ outcome = "none yet" /\ written = "whole"
    /\ outcome' = "the object written"
    /\ UNCHANGED written

RaiseException ==
    /\ outcome = "none yet" /\ written \in {"cut short", "never"}
    /\ outcome' = "an exception"
    /\ UNCHANGED written

ReturnAnything ==
    /\ outcome = "none yet" /\ written = "never"
    /\ outcome' = "another object"
    /\ UNCHANGED written

Next == ReturnObject \/ RaiseException \/ ReturnAnything

Spec == Init /\ [][Next]_vars /\ WF_vars(Next)
==============================================================================
