------------------------------ MODULE RoundTrip ------------------------------
(***************************************************************************)
(* The decompiled text does what the bytecode does.  After the main pass    *)
(* has written its last line, the code object and the text are run side by  *)
(* side; every test and every request for an item has an arbitrary outcome, *)
(* the same for both.  At each point the next thing either of them          *)
(* evaluates must be the same one.                                          *)
(***************************************************************************)
EXTENDS BlockReplay, TextSemantics

CONSTANT ReadBack(_)     (* the code whose text is run beside it *)

VARIABLES
    at_code,     (* the instruction about to run, 0 before the comparison starts *)
    at_text      (* the place in the reconstructed lines *)

roundVars == <<vars, at_code, at_text>>

(* The first instruction from i on that evaluates something. *)
RECURSIVE Observable(_)
Observable(i) ==
    CASE code[i].op \in UnconditionalJumps -> Observable(code[i].target)
      [] code[i].op = "POP_TOP" -> Observable(i + 1)
      [] OTHER -> i

(* 0 is the end of the run: the frame has returned. *)
CodeEvent(i) ==
    IF i = Len(code) + 1 THEN Event("end", 0)
    ELSE CASE code[i].op = "STMT" -> Event("stmt", code[i].id)
           [] code[i].op = "RETURN_VALUE" -> Event("return", code[i].id)
           [] code[i].op = "RETURN_NONE" -> Event("end", 0)
           [] code[i].op = "GET_ITER" -> Event("iter", code[i].id)
           [] code[i].op = "FOR_ITER" -> Event("next", code[i].id)
           [] code[i].op \in ConditionalJumps -> Event("test", code[i].id)

CodeStep(i, outcome) ==
    CASE code[i].op \in {"STMT", "GET_ITER"} -> Observable(i + 1)
      [] code[i].op = "RETURN_VALUE" -> Len(code) + 1
      [] code[i].op = "FOR_ITER" -> Observable(IF outcome THEN i + 1 ELSE code[i].target)
      [] code[i].op \in ConditionalJumps ->
           Observable(IF outcome = (code[i].op = "POP_JUMP_IF_TRUE") THEN code[i].target ELSE i + 1)

Comparing == at_code # 0

RoundInit == Init /\ at_code = 0 /\ at_text = AtEnd

Replay == Next /\ UNCHANGED <<at_code, at_text>>

Compare ==
    /\ done /\ ~Comparing /\ ReadBack(code)
    /\ at_code' = Observable(1)
    /\ at_text' = TextStart(reconstructed)
    /\ UNCHANGED vars

Run ==
    /\ Comparing
    /\ CodeEvent(at_code) = TextEvent(reconstructed, at_text)
    /\ CodeEvent(at_code).what # "end"
    /\ \E outcome \in BOOLEAN :
          /\ at_code' = CodeStep(at_code, outcome)
          /\ at_text' = TextStep(reconstructed, at_text, outcome)
    /\ UNCHANGED vars

RoundNext == Replay \/ Compare \/ Run

RoundSpec == RoundInit /\ [][RoundNext]_roundVars /\ WF_vars(Replay)

(* What the documentation promises of a decompiled body ("the structure,    *)
(* names and constants come back", docs/getting-started.md): it evaluates   *)
(* the same calls, tests and iterables in the same order, whatever their    *)
(* outcomes, and ends where the bytecode does.                              *)
SameBehaviour == Comparing => CodeEvent(at_code) = TextEvent(reconstructed, at_text)
=============================================================================
