------------------------------ MODULE MC_Gates ------------------------------
(***************************************************************************)
(* The two gates that compare with a baseline, for TLC: one of them at a   *)
(* time, the other at rest.                                                *)
(***************************************************************************)
EXTENDS CorrectnessGate, DifferentialGate

CONSTANTS s1, s2, s3

VARIABLE gate

Out(status, n) == [status |-> status, noise |-> [k \in Kinds |-> n]]
SomeOutcomes == {Out("compiles", 0), Out("compiles", 1), Out("syntax_error", 0), Out(SOURCE_ERROR, 0)}

\* Two statements with one label and a third with another.
TwoLabels == [s \in Statements |-> IF s = s3 THEN <<"y">> ELSE <<"x">>]

SomeStarts ==
    {[corpus |-> ("a.py" :> [own |-> Out("compiles", 0), units |-> u]) @@ ("b.pyc" :> [own |-> Out("compiles", 1), units |-> <<>>]),
      outcome |-> o] :
        u \in {<<s1, s3>>, <<s1, s2, s3>>},
        o \in {[s \in Statements |-> IF s = s2 THEN p ELSE q] :
                 p \in {Out("compiles", 0), Out("syntax_error", 0)}, q \in {Out("compiles", 0), Out(SOURCE_ERROR, 0)}}}

-----------------------------------------------------------------------------
Ran(ended, said) == [ended |-> ended, said |-> said]
Trial(compiles, original, decompiled, rebuilt, n) ==
    [compiles |-> compiles, original |-> original, decompiled |-> decompiled, rebuilt |-> rebuilt,
     noise |-> [k \in DiagnosticKinds |-> n]]

Fine == Trial(TRUE, Ran("normally", "a"), "python", Ran("normally", "a"), 0)

SomeTrials ==
    {Fine,
     [Fine EXCEPT !.noise = [k \in DiagnosticKinds |-> 1]],
     [Fine EXCEPT !.rebuilt = Ran("normally", "b"), !.noise = [k \in DiagnosticKinds |-> 1]],
     [Fine EXCEPT !.decompiled = "failed", !.noise = [k \in DiagnosticKinds |-> 1]],
     [Fine EXCEPT !.compiles = FALSE],
     [Fine EXCEPT !.original = Ran("timeout", "a"), !.rebuilt = Ran("timeout", "b")]}

SomeCorpora ==
    {[manifest |-> [e \in {"e1"} |-> [applies |-> Pythons, run |-> TRUE]],
      trial |-> [x \in Entries \X Pythons |-> IF x[1] = "e1" THEN t ELSE Fine]] :
        t \in {Fine, [Fine EXCEPT !.rebuilt = Ran("normally", "b"), !.noise = [k \in DiagnosticKinds |-> 1]]}}

-----------------------------------------------------------------------------
MCInit == /\ CInit /\ DInit
          /\ \/ gate = "correctness" /\ trial["e1", "3.9"] = Fine
             \/ gate = "differential" /\ Len(corpus["a.py"].units) = 2 /\ outcome = [s \in Statements |-> Out("compiles", 0)]

MCNext == /\ \/ gate = "correctness" /\ CNext /\ UNCHANGED dvars
             \/ gate = "differential" /\ DNext /\ UNCHANGED cvars
          /\ UNCHANGED gate

MCSpec == MCInit /\ [][MCNext]_<<cvars, dvars, gate>>
=============================================================================
