--------------------------- MODULE MC_CommandLine ---------------------------
(***************************************************************************)
(* main() for TLC: two places to guess at, and few enough guesses that a    *)
(* slice can repeat a place that is listed and add one that is not.         *)
(***************************************************************************)
EXTENDS CommandLine

CONSTANTS p1, p2

MCPlaces == {p1, p2}
==============================================================================
