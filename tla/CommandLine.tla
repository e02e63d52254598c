----------------------------- MODULE CommandLine -----------------------------
(***************************************************************************)
(* cli.py: main(), from the parsed arguments to the exit status, with what  *)
(* decompile() tells it: text, diagnostics, or an exception.                *)
(*                                                                          *)
(* Of the decompilation only the guesses are kept.  A guess is made for the *)
(* text that is being written, or for a slice of instructions that is tried *)
(* as an expression and may be thrown away (_eval_comp_slice); then it is   *)
(* collected apart until the slice is used.                                 *)
(***************************************************************************)
EXTENDS Naturals, Sequences

CONSTANTS Places,            \* the places where it may have to guess
          MaxGuesses         \* how many guesses a decompilation makes at most

ASSUME MaxGuessesAssumption == MaxGuesses \in Nat

VARIABLES request,           \* the options -o and --strict
          stage,             \* where main() is
          diagnostics,       \* decompiler.diagnostics
          apart,             \* the diagnostics of the slice that is being tried
          guesses,           \* how many guesses have been made
          kept,              \* the guesses that are part of the text
          text,              \* what decompile() returned, and the places its header names
          warned,            \* the places named on standard error
          file,              \* OUTPUT: "as before", "empty", "cut short" or "whole"
          stdout,            \* standard output: "empty", "cut short" or "whole"
          status             \* the exit status, NoStatus while main() runs

vars == <<request, stage, diagnostics, apart, guesses, kept, text, warned, file, stdout, status>>

NoStatus == 9
Stages == {"reading", "decompiling", "in a slice", "merging", "returned", "warned", "opened", "exited"}
Texts  == {"none", "blank", "source"}

ElementsOf(s) == {s[i] : i \in DOMAIN s}

-----------------------------------------------------------------------------
Init ==
    /\ request \in [output : BOOLEAN, strict : BOOLEAN]
    /\ stage = "reading"
    /\ diagnostics = << >> /\ apart = << >>
    /\ guesses = 0 /\ kept = {}
    /\ text = [kind |-> "none", header |-> {}]
    /\ warned = {}
    /\ file = "as before" /\ stdout = "empty"
    /\ status = NoStatus

Exit(code) == stage' = "exited" /\ status' = code
GoOn(to)   == stage' = to /\ UNCHANGED status

(* get_decompiler() raises a ValueError for a file it cannot use and an     *)
(* OSError for one it cannot open; anything else is a bug.                  *)
ReadFails ==
    /\ stage = "reading"
    /\ \E code \in {1, 4} : Exit(code)
    /\ UNCHANGED <<request, diagnostics, apart, guesses, kept, text, warned, file, stdout>>

Read ==
    /\ stage = "reading"
    /\ GoOn("decompiling")
    /\ UNCHANGED <<request, diagnostics, apart, guesses, kept, text, warned, file, stdout>>

Listed(list, place) == IF place \in ElementsOf(list) THEN list ELSE Append(list, place)

(* _report(): a strict run stops at the first place.                        *)
Report(place, next) ==
    /\ diagnostics' = Listed(diagnostics, place)
    /\ IF request.strict THEN Exit(3) ELSE GoOn(next)

Guess ==
    /\ stage = "decompiling" /\ guesses < MaxGuesses
    /\ \E place \in Places : Report(place, "decompiling") /\ kept' = kept \cup {place}
    /\ guesses' = guesses + 1
    /\ UNCHANGED <<request, apart, text, warned, file, stdout>>

TrySlice ==
    /\ stage = "decompiling" /\ guesses < MaxGuesses
    /\ GoOn("in a slice")
    /\ apart' = << >>
    /\ UNCHANGED <<request, diagnostics, guesses, kept, text, warned, file, stdout>>

(* The decompiler of the slice is never strict.                             *)
GuessInSlice ==
    /\ stage = "in a slice" /\ guesses < MaxGuesses
    /\ \E place \in Places : apart' = Listed(apart, place)
    /\ guesses' = guesses + 1
    /\ UNCHANGED <<request, stage, diagnostics, kept, text, warned, file, stdout, status>>

(* It raised: that is a place too, and the slice is not used.               *)
SliceFails ==
    /\ stage = "in a slice"
    /\ \E place \in Places : Report(place, "decompiling")
    /\ apart' = << >>
    /\ UNCHANGED <<request, guesses, kept, text, warned, file, stdout>>

RejectSlice ==
    /\ stage = "in a slice"
    /\ GoOn("decompiling")
    /\ apart' = << >>
    /\ UNCHANGED <<request, diagnostics, guesses, kept, text, warned, file, stdout>>

UseSlice ==
    /\ stage = "in a slice"
    /\ GoOn("merging")
    /\ UNCHANGED <<request, diagnostics, apart, guesses, kept, text, warned, file, stdout>>

Take ==
    /\ kept' = kept \cup {Head(apart)}
    /\ apart' = Tail(apart)
    /\ UNCHANGED <<request, guesses, text, warned, file, stdout>>

(* Slips: a place found in a slice does not stop a strict run; it is listed *)
(* only when nothing has been.                                              *)
MergeOneQuietly ==
    /\ stage = "merging" /\ apart # << >>
    /\ diagnostics' = Listed(diagnostics, Head(apart))
    /\ GoOn("merging")
    /\ Take
MergeFirstOnly ==
    /\ stage = "merging" /\ apart # << >>
    /\ IF diagnostics = << >> \/ request.strict
       THEN Report(Head(apart), "merging")
       ELSE GoOn("merging") /\ UNCHANGED diagnostics
    /\ Take

(* The places of a slice that is used become places of the text, in order.  *)
MergeOne ==
    /\ stage = "merging" /\ apart # << >>
    /\ Report(Head(apart), "merging")
    /\ Take

Merged ==
    /\ stage = "merging" /\ apart = << >>
    /\ GoOn("decompiling")
    /\ UNCHANGED <<request, diagnostics, apart, guesses, kept, text, warned, file, stdout>>

(* An exception that no handler in the decompiler expects.  A ValueError or *)
(* an OSError is taken for a file that cannot be read.                      *)
DecompileFails ==
    /\ stage \in {"decompiling", "in a slice"}
    /\ \E code \in {1, 4} : (stage = "in a slice" => code = 4) /\ Exit(code)
    /\ UNCHANGED <<request, diagnostics, apart, guesses, kept, text, warned, file, stdout>>

Decompiled ==
    /\ stage = "decompiling"
    /\ \E kind \in {"blank", "source"} : text' = [kind |-> kind, header |-> {}]
    /\ GoOn("returned")
    /\ UNCHANGED <<request, diagnostics, apart, guesses, kept, warned, file, stdout>>

(* Warnings, and the comment block above the source.                        *)
Warn ==
    /\ stage = "returned"
    /\ IF diagnostics # << >> /\ text.kind = "source"
       THEN /\ warned' = ElementsOf(diagnostics)
            /\ text' = [text EXCEPT !.header = ElementsOf(diagnostics)]
       ELSE UNCHANGED <<warned, text>>
    /\ GoOn("warned")
    /\ UNCHANGED <<request, diagnostics, apart, guesses, kept, file, stdout>>

-----------------------------------------------------------------------------
(* With -o.  Opening the file empties it.                                   *)
OpenFails ==
    /\ stage = "warned" /\ request.output
    /\ Exit(1)
    /\ UNCHANGED <<request, diagnostics, apart, guesses, kept, text, warned, file, stdout>>

OpenFile ==
    /\ stage = "warned" /\ request.output
    /\ file' = "empty"
    /\ GoOn("opened")
    /\ UNCHANGED <<request, diagnostics, apart, guesses, kept, text, warned, stdout>>

(* The disk is full, or the text has a character that UTF-8 has not.        *)
SaveFails ==
    /\ stage = "opened"
    /\ \E left \in {"empty", "cut short"} : file' = left
    /\ Exit(1)
    /\ UNCHANGED <<request, diagnostics, apart, guesses, kept, text, warned, stdout>>

Save ==
    /\ stage = "opened"
    /\ file' = "whole"
    /\ Exit(0)
    /\ UNCHANGED <<request, diagnostics, apart, guesses, kept, text, warned, stdout>>

(* Without -o.                                                              *)
NothingToPrint ==
    /\ stage = "warned" /\ ~request.output /\ text.kind = "blank"
    /\ Exit(1)
    /\ UNCHANGED <<request, diagnostics, apart, guesses, kept, text, warned, file, stdout>>

(* A slip: a pipe that was closed is taken for a reader that has enough.    *)
PrintFailsQuietly ==
    /\ stage = "warned" /\ ~request.output /\ text.kind = "source"
    /\ \E left \in {"empty", "cut short"} : stdout' = left
    /\ Exit(0)
    /\ UNCHANGED <<request, diagnostics, apart, guesses, kept, text, warned, file>>

PrintFails ==
    /\ stage = "warned" /\ ~request.output /\ text.kind = "source"
    /\ \E left \in {"empty", "cut short"} : stdout' = left
    /\ Exit(1)
    /\ UNCHANGED <<request, diagnostics, apart, guesses, kept, text, warned, file>>

PrintText ==
    /\ stage = "warned" /\ ~request.output /\ text.kind = "source"
    /\ stdout' = "whole"
    /\ Exit(0)
    /\ UNCHANGED <<request, diagnostics, apart, guesses, kept, text, warned, file>>

Next ==
    \/ ReadFails \/ Read
    \/ Guess \/ TrySlice \/ GuessInSlice \/ SliceFails \/ RejectSlice \/ UseSlice \/ MergeOne \/ Merged
    \/ DecompileFails \/ Decompiled \/ Warn
    \/ OpenFails \/ OpenFile \/ SaveFails \/ Save
    \/ NothingToPrint \/ PrintFails \/ PrintText

Spec == Init /\ [][Next]_vars

-----------------------------------------------------------------------------
(* Properties.                                                              *)

Distinct(list) == \A i, j \in DOMAIN list : list[i] = list[j] => i = j

(* A place is listed once (_report: `if diagnostic not in ...`).            *)
TypeOK ==
    /\ request \in [output : BOOLEAN, strict : BOOLEAN]
    /\ stage \in Stages
    /\ diagnostics \in Seq(Places) /\ Distinct(diagnostics)
    /\ apart \in Seq(Places) /\ Distinct(apart)
    /\ guesses \in 0 .. MaxGuesses
    /\ kept \in SUBSET Places
    /\ text \in [kind : Texts, header : SUBSET Places]
    /\ warned \in SUBSET Places
    /\ file \in {"as before", "empty", "cut short", "whole"}
    /\ stdout \in {"empty", "cut short", "whole"}
    /\ status \in {0, 1, 3, 4, NoStatus}
    /\ stage = "exited" <=> status # NoStatus

(* A strict run that succeeds has guessed nothing in its text, wherever the *)
(* guess was made: diagnostics.py, "a decompile that guessed is not a       *)
(* decompile".                                                              *)
StrictGuessesNothing == request.strict /\ status # 3 => kept = {} /\ diagnostics = << >>

(* Source that holds a guess never leaves without its place in a warning    *)
(* and in its header.                                                       *)
NeverSilent ==
    file = "whole" \/ stdout = "whole" =>
        (text.kind = "source" => kept \subseteq warned /\ kept \subseteq text.header)

(* The status is 0 if and only if all of the text is where it was asked     *)
(* for, and only saving it can damage a file that was there before.         *)
StatusTellsTheTruth ==
    stage = "exited" =>
        /\ status = 0 <=> IF request.output THEN file = "whole" ELSE stdout = "whole"
        /\ status \in {3, 4} => file = "as before" /\ stdout = "empty"
        /\ request.output => stdout = "empty"
        /\ ~request.output => file = "as before"

(* A file that decompiles to nothing gives status 1 (docs/usage.md).        *)
NothingGivesOne == stage = "exited" /\ text.kind = "blank" => status = 1
=============================================================================
