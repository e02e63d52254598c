-------------------------- MODULE CommandLine_proof --------------------------
(***************************************************************************)
(* Proofs about diagnostics (CommandLine.tla), for any set of places and    *)
(* any number of guesses.                                                   *)
(***************************************************************************)
EXTENDS CommandLine, SequenceTheorems, TLAPS

(* What the two promises rest on: where main() is says whether it has a     *)
(* status; a guess that is kept is listed; nothing is whole before the      *)
(* warnings have been printed.                                              *)
Stopped == (stage = "exited") <=> (status # NoStatus)

Lists == diagnostics \in Seq(Places) /\ apart \in Seq(Places)

KeptIsListed == kept \subseteq ElementsOf(diagnostics)

Warned ==
    /\ stage \in {"warned", "opened"} /\ text.kind = "source" => kept \subseteq warned /\ kept \subseteq text.header
    /\ (file = "whole" \/ stdout = "whole") =>
           /\ stage = "exited"
           /\ text.kind = "source" => kept \subseteq warned /\ kept \subseteq text.header

Inv == Stopped /\ Lists /\ KeptIsListed /\ Warned /\ StrictGuessesNothing

LEMMA ListedFacts ==
    ASSUME NEW list \in Seq(Places), NEW place \in Places
    PROVE  /\ Listed(list, place) \in Seq(Places)
           /\ ElementsOf(Listed(list, place)) = ElementsOf(list) \cup {place}
<1>1. CASE place \in ElementsOf(list)
  BY <1>1 DEF Listed
<1>2. CASE place \notin ElementsOf(list)
  <2> DEFINE longer == Append(list, place)
  <2>1. Listed(list, place) = longer
    BY <1>2 DEF Listed
  <2>2. /\ longer \in Seq(Places)
        /\ DOMAIN longer = 1 .. Len(list) + 1 /\ DOMAIN list = 1 .. Len(list) /\ Len(list) \in Nat
        /\ \A i \in 1 .. Len(list) : longer[i] = list[i]
        /\ longer[Len(list) + 1] = place
    BY AppendProperties, LenProperties
  <2> HIDE DEF longer
  <2>3. ElementsOf(longer) \subseteq ElementsOf(list) \cup {place}
    <3> SUFFICES ASSUME NEW i \in DOMAIN longer PROVE longer[i] \in ElementsOf(list) \cup {place}
      BY DEF ElementsOf
    <3>1. CASE i = Len(list) + 1
      BY <2>2, <3>1
    <3>2. CASE i # Len(list) + 1
      <4>1. i \in DOMAIN list /\ longer[i] = list[i]
        BY <2>2, <3>2
      <4> QED
        BY <4>1 DEF ElementsOf
    <3> QED
      BY <3>1, <3>2
  <2>4. ElementsOf(list) \cup {place} \subseteq ElementsOf(longer)
    <3>1. \A i \in DOMAIN list : i \in DOMAIN longer /\ longer[i] = list[i]
      BY <2>2
    <3>2. Len(list) + 1 \in DOMAIN longer
      BY <2>2
    <3> QED
      BY <2>2, <3>1, <3>2 DEF ElementsOf
  <2> QED
    BY <2>1, <2>2, <2>3, <2>4
<1> QED
  BY <1>1, <1>2

(* What _report() does to the invariant, wherever it is called from.        *)
LEMMA Reported ==
    ASSUME Inv, status = NoStatus, stage \notin {"warned", "opened", "exited"},
           NEW place \in Places, NEW next \in {"decompiling", "merging"}, Report(place, next),
           kept' \in {kept, kept \cup {place}}, request.strict => kept' # kept \/ kept = {},
           apart' \in Seq(Places), UNCHANGED <<request, text, warned, file, stdout>>
    PROVE  Inv'
<1>1. /\ diagnostics' \in Seq(Places)
      /\ ElementsOf(diagnostics') = ElementsOf(diagnostics) \cup {place}
  BY ListedFacts DEF Inv, Lists, Report
<1>2. Stopped'
  BY DEF Stopped, Report, Exit, GoOn, NoStatus
<1>3. KeptIsListed'
  BY <1>1 DEF Inv, KeptIsListed
<1>4. Warned'
  BY DEF Inv, Warned, Report, Exit, GoOn
<1>5. StrictGuessesNothing'
  BY DEF Inv, StrictGuessesNothing, Report, Exit
<1> QED
  BY <1>1, <1>2, <1>3, <1>4, <1>5 DEF Inv, Lists

LEMMA InvInit == Init => Inv
<1> SUFFICES ASSUME Init PROVE Inv
  OBVIOUS
<1>1. << >> \in Seq(Places)
  BY EmptySeq
<1> QED
  BY <1>1 DEF Init, Inv, Stopped, Lists, KeptIsListed, Warned, StrictGuessesNothing, ElementsOf, NoStatus

LEMMA InvStep ==
    ASSUME Inv, [Next]_vars
    PROVE  Inv'
<1> USE DEF NoStatus
<1>1. stage # "exited" => status = NoStatus
  BY DEF Inv, Stopped
<1>a. stage # "exited" /\ request.strict => kept = {} /\ diagnostics = << >>
  <2>1. stage # "exited" => status # 3
    BY <1>1
  <2> QED
    BY <2>1, Zenon DEF Inv, StrictGuessesNothing
<1>2. CASE Guess
  <2>1. PICK place \in Places : Report(place, "decompiling") /\ kept' = kept \cup {place}
    BY <1>2 DEF Guess
  <2>2. stage = "decompiling" /\ apart' = apart /\ UNCHANGED <<request, text, warned, file, stdout>>
    BY <1>2 DEF Guess
  <2>3. request.strict => kept = {}
    BY <1>a, <2>2
  <2> QED
    BY <1>1, <2>1, <2>2, <2>3, Reported DEF Inv, Lists
<1>3. CASE SliceFails
  <2>1. PICK place \in Places : Report(place, "decompiling")
    BY <1>3 DEF SliceFails
  <2>2. /\ stage = "in a slice" /\ apart' = << >> /\ kept' = kept
        /\ UNCHANGED <<request, text, warned, file, stdout>>
    BY <1>3 DEF SliceFails
  <2>3. request.strict => kept = {}
    BY <1>a, <2>2
  <2>4. apart' \in Seq(Places)
    BY <2>2, EmptySeq
  <2> QED
    BY <1>1, <2>1, <2>2, <2>3, <2>4, Reported
<1>4. CASE MergeOne
  <2>1. /\ stage = "merging" /\ apart # << >>
        /\ Report(Head(apart), "merging")
        /\ kept' = kept \cup {Head(apart)}
        /\ apart' = Tail(apart)
        /\ UNCHANGED <<request, text, warned, file, stdout>>
    BY <1>4 DEF MergeOne, Take
  <2>2. Head(apart) \in Places /\ Tail(apart) \in Seq(Places)
    BY <2>1, HeadTailProperties DEF Inv, Lists
  <2>3. request.strict => kept = {}
    BY <1>a, <2>1
  <2> QED
    BY <1>1, <2>1, <2>2, <2>3, Reported
<1>5. CASE GuessInSlice
  <2>1. PICK place \in Places : apart' = Listed(apart, place)
    BY <1>5 DEF GuessInSlice
  <2>2. apart' \in Seq(Places)
    BY <2>1, ListedFacts DEF Inv, Lists
  <2> QED
    BY <1>5, <2>2 DEF GuessInSlice, Inv, Stopped, Lists, KeptIsListed, Warned, StrictGuessesNothing
<1>6. CASE TrySlice \/ RejectSlice
  <2>1. apart' \in Seq(Places)
    BY <1>6, EmptySeq DEF TrySlice, RejectSlice
  <2> QED
    BY <1>1, <1>6, <2>1 DEF TrySlice, RejectSlice, GoOn, Inv, Stopped, Lists, KeptIsListed, Warned, StrictGuessesNothing
<1>7. CASE Warn
  <2>1. stage = "returned" /\ stage' = "warned" /\ status' = status
        /\ UNCHANGED <<request, diagnostics, apart, guesses, kept, file, stdout>>
    BY <1>7 DEF Warn, GoOn
  <2>2. CASE diagnostics # << >> /\ text.kind = "source"
    <3>1. warned' = ElementsOf(diagnostics) /\ text' = [text EXCEPT !.header = ElementsOf(diagnostics)]
      BY <1>7, <2>2 DEF Warn
    <3>2. text'.kind = "source" => kept' \subseteq warned' /\ kept' \subseteq text'.header
      <4>1. text'.header = ElementsOf(diagnostics) \/ text'.header = text.header
        BY <3>1
      <4> QED
        BY <2>1, <3>1 DEF Inv, KeptIsListed
    <3> QED
      BY <2>1, <3>2 DEF Inv, Stopped, Lists, KeptIsListed, Warned, StrictGuessesNothing
  <2>3. CASE ~(diagnostics # << >> /\ text.kind = "source")
    <3>1. UNCHANGED <<warned, text>>
      BY <1>7, <2>3 DEF Warn
    <3>2. text.kind = "source" => kept = {}
      BY <2>3 DEF Inv, KeptIsListed, ElementsOf
    <3> QED
      BY <2>1, <3>1, <3>2 DEF Inv, Stopped, Lists, KeptIsListed, Warned, StrictGuessesNothing
  <2> QED
    BY <2>2, <2>3
<1>8. CASE OpenFails \/ OpenFile \/ SaveFails \/ Save \/ NothingToPrint \/ PrintFails \/ PrintText
  <2>1. CASE OpenFails
    BY <1>1, <1>a, <2>1 DEF OpenFails, Exit, GoOn,
       Inv, Stopped, Lists, KeptIsListed, Warned, StrictGuessesNothing
  <2>2. CASE OpenFile
    BY <1>1, <1>a, <2>2 DEF OpenFile, Exit, GoOn,
       Inv, Stopped, Lists, KeptIsListed, Warned, StrictGuessesNothing
  <2>3. CASE SaveFails
    <3>1. /\ stage = "opened" /\ stage' = "exited" /\ status' = 1
          /\ UNCHANGED <<request, diagnostics, apart, kept, text, warned, stdout>>
      BY <2>3 DEF SaveFails, Exit
    <3>2. file' \in {"empty", "cut short"}
      BY <2>3 DEF SaveFails
    <3>3. Stopped'
      <4>1. status' # NoStatus
        BY <3>1
      <4>2. stage' = "exited"
        BY <3>1
      <4> QED
        BY <4>1, <4>2 DEF Stopped
    <3>6. Lists' /\ KeptIsListed'
      BY <3>1 DEF Inv, Lists, KeptIsListed
    <3>4. Warned'
      BY <3>1, <3>2 DEF Inv, Warned
    <3>5. StrictGuessesNothing'
      BY <1>a, <3>1 DEF StrictGuessesNothing
    <3> QED
      BY <3>3, <3>4, <3>5, <3>6 DEF Inv
  <2>4. CASE Save
    BY <1>1, <1>a, <2>4 DEF Save, Exit, GoOn,
       Inv, Stopped, Lists, KeptIsListed, Warned, StrictGuessesNothing
  <2>5. CASE NothingToPrint
    BY <1>1, <1>a, <2>5 DEF NothingToPrint, Exit, GoOn,
       Inv, Stopped, Lists, KeptIsListed, Warned, StrictGuessesNothing
  <2>6. CASE PrintFails
    <3>1. /\ stage = "warned" /\ stage' = "exited" /\ status' = 1
          /\ UNCHANGED <<request, diagnostics, apart, kept, text, warned, file>>
      BY <2>6 DEF PrintFails, Exit
    <3>2. stdout' \in {"empty", "cut short"}
      BY <2>6 DEF PrintFails
    <3>3. Stopped'
      <4>1. status' # NoStatus
        BY <3>1
      <4>2. stage' = "exited"
        BY <3>1
      <4> QED
        BY <4>1, <4>2 DEF Stopped
    <3>6. Lists' /\ KeptIsListed'
      BY <3>1 DEF Inv, Lists, KeptIsListed
    <3>4. Warned'
      BY <3>1, <3>2 DEF Inv, Warned
    <3>5. StrictGuessesNothing'
      BY <1>a, <3>1 DEF StrictGuessesNothing
    <3> QED
      BY <3>3, <3>4, <3>5, <3>6 DEF Inv
  <2>7. CASE PrintText
    BY <1>1, <1>a, <2>7 DEF PrintText, Exit, GoOn,
       Inv, Stopped, Lists, KeptIsListed, Warned, StrictGuessesNothing
  <2> QED
    BY <1>8, <2>1, <2>2, <2>3, <2>4, <2>5, <2>6, <2>7
<1>9. CASE ReadFails \/ Read \/ UseSlice \/ Merged \/ DecompileFails \/ Decompiled
  <2>1. CASE ReadFails
    BY <1>1, <1>a, <2>1 DEF ReadFails, Exit, GoOn,
       Inv, Stopped, Lists, KeptIsListed, Warned, StrictGuessesNothing
  <2>2. CASE Read
    BY <1>1, <1>a, <2>2 DEF Read, Exit, GoOn,
       Inv, Stopped, Lists, KeptIsListed, Warned, StrictGuessesNothing
  <2>3. CASE UseSlice
    BY <1>1, <1>a, <2>3 DEF UseSlice, Exit, GoOn,
       Inv, Stopped, Lists, KeptIsListed, Warned, StrictGuessesNothing
  <2>4. CASE Merged
    BY <1>1, <1>a, <2>4 DEF Merged, Exit, GoOn,
       Inv, Stopped, Lists, KeptIsListed, Warned, StrictGuessesNothing
  <2>5. CASE DecompileFails
    <3>1. /\ stage \in {"decompiling", "in a slice"} /\ stage' = "exited"
          /\ UNCHANGED <<request, diagnostics, apart, kept, text, warned, file, stdout>>
      BY <2>5 DEF DecompileFails, Exit
    <3>2. status' \in {1, 4}
      BY <2>5 DEF DecompileFails, Exit
    <3>3. Stopped'
      <4>1. status' # NoStatus
        BY <3>2
      <4>2. stage' = "exited"
        BY <3>1
      <4> QED
        BY <4>1, <4>2 DEF Stopped
    <3>6. Lists' /\ KeptIsListed'
      BY <3>1 DEF Inv, Lists, KeptIsListed
    <3>4. Warned'
      BY <3>1, <3>2 DEF Inv, Warned
    <3>5. StrictGuessesNothing'
      BY <1>a, <3>1 DEF StrictGuessesNothing
    <3> QED
      BY <3>3, <3>4, <3>5, <3>6 DEF Inv
  <2>6. CASE Decompiled
    BY <1>1, <1>a, <2>6 DEF Decompiled, Exit, GoOn,
       Inv, Stopped, Lists, KeptIsListed, Warned, StrictGuessesNothing
  <2> QED
    BY <1>9, <2>1, <2>2, <2>3, <2>4, <2>5, <2>6
<1>10. CASE UNCHANGED vars
  BY <1>10 DEF vars, Inv, Stopped, Lists, KeptIsListed, Warned, StrictGuessesNothing
<1> QED
  BY <1>2, <1>3, <1>4, <1>5, <1>6, <1>7, <1>8, <1>9, <1>10 DEF Next

LEMMA InvAlways == Spec => []Inv
<1> QED
  BY InvInit, InvStep, PTL DEF Spec

(* With --strict a guess stops the run wherever it is made: in the text, or *)
(* in a slice that was tried apart and then used.                           *)
THEOREM StrictRunsDoNotGuess == Spec => []StrictGuessesNothing
<1>1. Inv => StrictGuessesNothing
  BY DEF Inv
<1> QED
  BY <1>1, InvAlways, PTL

(* Every guess in the source that main() writes is named in a warning and   *)
(* in the comment above the source.                                         *)
THEOREM GuessesAreNamed == Spec => []NeverSilent
<1>1. Inv => NeverSilent
  BY DEF Inv, Warned, NeverSilent
<1> QED
  BY <1>1, InvAlways, PTL
-----------------------------------------------------------------------------
(* What the exit status rests on: nothing is written before the text is     *)
(* finished, and from then on where main() is says what has been written.   *)
Written ==
    /\ stage \notin {"opened", "exited"} => file = "as before" /\ stdout = "empty"
    /\ stage = "opened" => request.output /\ stdout = "empty"
    /\ StatusTellsTheTruth

\* Whatever ends the run before it writes anything has a status that says so.
LEMMA EndedEarly ==
    ASSUME Written, stage \notin {"opened", "exited"}, NEW code \in {1, 3, 4}, Exit(code),
           UNCHANGED <<request, file, stdout>>
    PROVE  Written'
<1>1. status' # 0
  BY DEF Exit
<1>2. stage' = "exited" /\ file' = "as before" /\ stdout' = "empty" /\ request' = request
  BY DEF Written, Exit
<1> QED
  BY <1>1, <1>2, Zenon DEF Written, StatusTellsTheTruth

\* And until it ends nothing is written but by OpenFile.
LEMMA WentOn ==
    ASSUME Written, stage \notin {"opened", "exited"}, stage' \notin {"opened", "exited"},
           UNCHANGED <<request, file, stdout>>
    PROVE  Written'
  BY DEF Written, StatusTellsTheTruth

LEMMA ReportedOrEnded ==
    ASSUME Written, stage \notin {"opened", "exited"}, NEW place \in Places, NEW next \in {"decompiling", "merging"},
           Report(place, next), UNCHANGED <<request, file, stdout>>
    PROVE  Written'
<1>1. CASE request.strict
  BY <1>1, EndedEarly DEF Report
<1>2. CASE ~request.strict
  BY <1>2, WentOn DEF Report, GoOn
<1> QED
  BY <1>1, <1>2

LEMMA WrittenStep ==
    ASSUME Lists, Written, [Next]_vars
    PROVE  Written'
<1>1. CASE Guess
  <2>1. PICK place \in Places : Report(place, "decompiling")
    BY <1>1 DEF Guess
  <2>2. stage = "decompiling" /\ UNCHANGED <<request, file, stdout>>
    BY <1>1 DEF Guess
  <2> QED
    BY <2>1, <2>2, ReportedOrEnded
<1>a. CASE SliceFails
  <2>1. PICK place \in Places : Report(place, "decompiling")
    BY <1>a DEF SliceFails
  <2>2. stage = "in a slice" /\ UNCHANGED <<request, file, stdout>>
    BY <1>a DEF SliceFails
  <2> QED
    BY <2>1, <2>2, ReportedOrEnded
<1>b. CASE MergeOne
  <2>1. stage = "merging" /\ apart # << >> /\ Report(Head(apart), "merging") /\ UNCHANGED <<request, file, stdout>>
    BY <1>b DEF MergeOne, Take
  <2>2. Head(apart) \in Places
    BY <2>1, HeadTailProperties DEF Lists
  <2> QED
    BY <2>1, <2>2, ReportedOrEnded
<1>2. CASE Read \/ TrySlice \/ GuessInSlice \/ RejectSlice \/ UseSlice \/ Merged \/ Decompiled \/ Warn
  <2>1. /\ stage \notin {"opened", "exited"} /\ stage' \notin {"opened", "exited"}
        /\ UNCHANGED <<request, file, stdout>>
    BY <1>2 DEF Read, TrySlice, GuessInSlice, RejectSlice, UseSlice, Merged, Decompiled, Warn, GoOn
  <2> QED
    BY <2>1, WentOn
<1>3. CASE ReadFails \/ DecompileFails \/ OpenFails \/ NothingToPrint
  <2>1. /\ stage \notin {"opened", "exited"}
        /\ \E code \in {1, 3, 4} : Exit(code)
        /\ UNCHANGED <<request, file, stdout>>
    BY <1>3 DEF ReadFails, DecompileFails, OpenFails, NothingToPrint
  <2> QED
    BY <2>1, EndedEarly
<1>4. CASE OpenFile
  BY <1>4 DEF OpenFile, GoOn, Written, StatusTellsTheTruth
<1>5. CASE SaveFails
  <2>1. /\ stage = "opened" /\ stage' = "exited" /\ status' = 1 /\ file' \in {"empty", "cut short"}
        /\ UNCHANGED <<request, stdout>>
    BY <1>5 DEF SaveFails, Exit
  <2>2. status' # 0 /\ status' # 3 /\ status' # 4
    <3>1. status' = 1
      BY <2>1
    <3> QED
      BY <3>1
  <2>3. request'.output /\ file' # "whole" /\ stdout' = "empty"
    BY <2>1, Zenon DEF Written
  <2> QED
    BY <2>1, <2>2, <2>3, Zenon DEF Written, StatusTellsTheTruth
<1>6. CASE Save
  BY <1>6 DEF Save, Exit, Written, StatusTellsTheTruth
<1>7. CASE PrintFails
  <2>1. /\ stage = "warned" /\ stage' = "exited" /\ status' = 1 /\ stdout' \in {"empty", "cut short"}
        /\ ~request.output /\ UNCHANGED <<request, file>>
    BY <1>7 DEF PrintFails, Exit
  <2>2. status' # 0 /\ status' # 3 /\ status' # 4
    <3>1. status' = 1
      BY <2>1
    <3> QED
      BY <3>1
  <2>3. ~request'.output /\ file' = "as before" /\ stdout' # "whole"
    BY <2>1, Zenon DEF Written
  <2> QED
    BY <2>1, <2>2, <2>3, Zenon DEF Written, StatusTellsTheTruth
<1>8. CASE PrintText
  <2>1. /\ stage = "warned" /\ stage' = "exited" /\ status' = 0 /\ stdout' = "whole"
        /\ ~request.output /\ UNCHANGED <<request, file>>
    BY <1>8 DEF PrintText, Exit
  <2>2. status' = 0 /\ status' # 3 /\ status' # 4
    BY <2>1
  <2>3. file' = "as before"
    BY <2>1 DEF Written
  <2> QED
    BY <2>1, <2>2, <2>3, Zenon DEF Written, StatusTellsTheTruth
<1>9. CASE UNCHANGED vars
  BY <1>9 DEF vars, Written, StatusTellsTheTruth
<1> QED
  BY <1>1, <1>a, <1>b, <1>2, <1>3, <1>4, <1>5, <1>6, <1>7, <1>8, <1>9 DEF Next

(* Status 0 means that all of the text is where it was asked for, status 3  *)
(* or 4 that nothing has been touched; with -o nothing is printed, and      *)
(* without it OUTPUT is left alone.                                         *)
THEOREM StatusIsTrue == Spec => []StatusTellsTheTruth
<1>1. Init => Written
  BY DEF Init, Written, StatusTellsTheTruth
<1>2. Written => StatusTellsTheTruth
  BY DEF Written
<1>3. Inv => Lists
  BY DEF Inv
<1> QED
  BY <1>1, <1>2, <1>3, InvAlways, WrittenStep, PTL DEF Spec

-----------------------------------------------------------------------------
(* Types, and with them that no place is listed twice *)

LEMMA ListedOnce ==
    ASSUME NEW list \in Seq(Places), Distinct(list), NEW place \in Places
    PROVE  Distinct(Listed(list, place))
<1>1. CASE place \in ElementsOf(list)
  BY <1>1 DEF Listed
<1>2. CASE place \notin ElementsOf(list)
  <2> DEFINE longer == Append(list, place)
  <2>1. Listed(list, place) = longer
    BY <1>2 DEF Listed
  <2>2. /\ DOMAIN longer = 1 .. Len(list) + 1 /\ DOMAIN list = 1 .. Len(list) /\ Len(list) \in Nat
        /\ \A i \in 1 .. Len(list) : longer[i] = list[i] /\ list[i] # place
        /\ longer[Len(list) + 1] = place
    BY <1>2, AppendProperties, LenProperties DEF ElementsOf
  <2> HIDE DEF longer
  <2>3. Distinct(longer)
    <3> SUFFICES ASSUME NEW i \in 1 .. Len(list) + 1, NEW j \in 1 .. Len(list) + 1, longer[i] = longer[j]
                 PROVE  i = j
      BY <2>2 DEF Distinct
    <3>1. CASE i \in 1 .. Len(list) /\ j \in 1 .. Len(list)
      BY <2>2, <3>1 DEF Distinct
    <3>2. CASE i = Len(list) + 1 \/ j = Len(list) + 1
      BY <2>2, <3>2
    <3> QED
      BY <2>2, <3>1, <3>2
  <2> QED
    BY <2>1, <2>3
<1> QED
  BY <1>1, <1>2

LEMMA ElementsAreMembers == ASSUME NEW S, NEW list \in Seq(S) PROVE ElementsOf(list) \subseteq S
  BY ElementOfSeq, LenProperties DEF ElementsOf

OnceEach == Distinct(diagnostics) /\ Distinct(apart)

LEMMA OnceEachStep ==
    ASSUME Lists, OnceEach, [Next]_vars
    PROVE  OnceEach'
<1>0. Distinct(<< >>)
  BY EmptySeq DEF Distinct
<1>1. ASSUME NEW place \in Places, NEW next, Report(place, next)
      PROVE  Distinct(diagnostics)'
  BY <1>1, ListedOnce DEF Report, Lists, OnceEach
<1>2. CASE Guess \/ SliceFails
  <2>1. /\ \E place \in Places : \E next : Report(place, next)
        /\ apart' \in {apart, << >>}
    <3>1. CASE Guess
      BY <3>1 DEF Guess
    <3>2. CASE SliceFails
      BY <3>2 DEF SliceFails
    <3> QED
      BY <1>2, <3>1, <3>2
  <2>2. Distinct(diagnostics)'
    BY <1>1, <2>1
  <2> QED
    BY <1>0, <2>1, <2>2 DEF OnceEach
<1>3. CASE GuessInSlice
  <2>1. PICK place \in Places : apart' = Listed(apart, place) /\ diagnostics' = diagnostics
    BY <1>3 DEF GuessInSlice
  <2> QED
    BY <2>1, ListedOnce DEF Lists, OnceEach
<1>4. CASE MergeOne
  <2>1. /\ apart # << >> /\ apart' = Tail(apart)
        /\ Report(Head(apart), "merging")
    BY <1>4 DEF MergeOne, Take
  <2>2. Head(apart) \in Places /\ Tail(apart) \in Seq(Places)
    BY <2>1, HeadTailProperties DEF Lists
  <2>3. Distinct(Tail(apart))
    <3>1. /\ Len(Tail(apart)) = Len(apart) - 1 /\ Len(apart) \in Nat
          /\ DOMAIN Tail(apart) = 1 .. Len(Tail(apart)) /\ DOMAIN apart = 1 .. Len(apart)
      BY <2>1, <2>2, HeadTailProperties, LenProperties DEF Lists
    <3>2. \A i \in 1 .. Len(Tail(apart)) : Tail(apart)[i] = apart[i + 1]
      BY <2>1, HeadTailProperties DEF Lists
    <3> SUFFICES ASSUME NEW i \in DOMAIN Tail(apart), NEW j \in DOMAIN Tail(apart),
                        Tail(apart)[i] = Tail(apart)[j]
                 PROVE  i = j
      BY DEF Distinct
    <3>3. i + 1 \in DOMAIN apart /\ j + 1 \in DOMAIN apart /\ apart[i + 1] = apart[j + 1]
      BY <3>1, <3>2
    <3>4. i + 1 = j + 1
      BY <3>3 DEF OnceEach, Distinct
    <3> QED
      BY <3>1, <3>4
  <2>4. Distinct(diagnostics)'
    BY <1>1, <2>1, <2>2
  <2> QED
    BY <2>1, <2>3, <2>4 DEF OnceEach
<1>5. CASE TrySlice \/ RejectSlice
  BY <1>0, <1>5 DEF TrySlice, RejectSlice, OnceEach
<1>6. CASE ReadFails \/ Read \/ UseSlice \/ Merged \/ DecompileFails \/ Decompiled \/ Warn
  BY <1>6 DEF ReadFails, Read, UseSlice, Merged, DecompileFails, Decompiled, Warn, OnceEach
<1>7. CASE OpenFails \/ OpenFile \/ SaveFails \/ Save \/ NothingToPrint \/ PrintFails \/ PrintText
  BY <1>7 DEF OpenFails, OpenFile, SaveFails, Save, NothingToPrint, PrintFails, PrintText, OnceEach
<1>8. CASE UNCHANGED vars
  BY <1>8 DEF vars, OnceEach
<1> QED
  BY <1>2, <1>3, <1>4, <1>5, <1>6, <1>7, <1>8 DEF Next

Plain ==
    /\ request \in [output : BOOLEAN, strict : BOOLEAN]
    /\ stage \in Stages
    /\ guesses \in 0 .. MaxGuesses
    /\ kept \in SUBSET Places
    /\ text \in [kind : Texts, header : SUBSET Places]
    /\ warned \in SUBSET Places
    /\ file \in {"as before", "empty", "cut short", "whole"}
    /\ stdout \in {"empty", "cut short", "whole"}
    /\ status \in {0, 1, 3, 4, NoStatus}

LEMMA OneGuessMore ==
    ASSUME guesses \in 0 .. MaxGuesses, guesses < MaxGuesses, guesses' = guesses + 1
    PROVE  guesses' \in 0 .. MaxGuesses
  BY MaxGuessesAssumption

LEMMA PlainStep ==
    ASSUME Lists, Plain, [Next]_vars
    PROVE  Plain'
<1> USE DEF Plain, Stages, Texts, NoStatus, Exit, GoOn
<1>1. ASSUME NEW place, NEW next \in {"decompiling", "merging"}, Report(place, next)
      PROVE  stage' \in Stages /\ status' \in {0, 1, 3, 4, NoStatus}
  BY <1>1 DEF Report
<1>2. CASE Guess
  <2>1. PICK place \in Places : Report(place, "decompiling") /\ kept' = kept \cup {place}
    BY <1>2 DEF Guess
  <2>2. guesses' \in 0 .. MaxGuesses
    <3>1. guesses < MaxGuesses /\ guesses' = guesses + 1
      BY <1>2, Zenon DEF Guess
    <3> QED
      BY OneGuessMore, <3>1, Zenon
  <2>3. UNCHANGED <<request, text, warned, file, stdout>>
    BY <1>2 DEF Guess
  <2> QED
    BY <1>1, <2>1, <2>2, <2>3
<1>3. CASE SliceFails
  <2>1. PICK place \in Places : Report(place, "decompiling")
    BY <1>3 DEF SliceFails
  <2>2. UNCHANGED <<request, guesses, kept, text, warned, file, stdout>>
    BY <1>3 DEF SliceFails
  <2> QED
    BY <1>1, <2>1, <2>2
<1>4. CASE MergeOne
  <2>1. Report(Head(apart), "merging") /\ apart # << >>
    BY <1>4 DEF MergeOne
  <2>2. Head(apart) \in Places
    BY <2>1, HeadTailProperties DEF Lists
  <2>3. kept' = kept \cup {Head(apart)} /\ UNCHANGED <<request, guesses, text, warned, file, stdout>>
    BY <1>4 DEF MergeOne, Take
  <2> QED
    BY <1>1, <2>1, <2>2, <2>3
<1>5. CASE GuessInSlice
  <2>1. guesses' \in 0 .. MaxGuesses
    <3>1. guesses < MaxGuesses /\ guesses' = guesses + 1
      BY <1>5, Zenon DEF GuessInSlice
    <3> QED
      BY OneGuessMore, <3>1, Zenon
  <2>2. UNCHANGED <<request, stage, kept, text, warned, file, stdout, status>>
    BY <1>5 DEF GuessInSlice
  <2> QED
    BY <2>1, <2>2, ZenonT(60)
<1>6. CASE ReadFails \/ Read \/ TrySlice \/ RejectSlice \/ UseSlice \/ Merged
  BY <1>6 DEF ReadFails, Read, TrySlice, RejectSlice, UseSlice, Merged
<1>7. CASE DecompileFails \/ Decompiled
  <2>1. CASE DecompileFails
    <3>1. stage' = "exited" /\ status' \in {1, 4}
      BY <2>1 DEF DecompileFails
    <3>2. UNCHANGED <<request, guesses, kept, text, warned, file, stdout>>
      BY <2>1 DEF DecompileFails
    <3> QED
      BY <3>1, <3>2
  <2>2. CASE Decompiled
    <3>1. PICK kind \in {"blank", "source"} : text' = [kind |-> kind, header |-> {}]
      BY <2>2 DEF Decompiled
    <3>2. stage' = "returned" /\ UNCHANGED <<request, guesses, kept, warned, file, stdout, status>>
      BY <2>2 DEF Decompiled
    <3> QED
      BY <3>1, <3>2
  <2> QED
    BY <1>7, <2>1, <2>2
<1>8. CASE Warn
  <2>1. ElementsOf(diagnostics) \subseteq Places
    BY ElementsAreMembers DEF Lists
  <2> QED
    BY <1>8, <2>1 DEF Warn
<1>9. CASE OpenFails \/ OpenFile \/ SaveFails \/ Save
  BY <1>9 DEF OpenFails, OpenFile, SaveFails, Save
<1>10. CASE NothingToPrint \/ PrintFails \/ PrintText
  BY <1>10 DEF NothingToPrint, PrintFails, PrintText
<1>11. CASE UNCHANGED vars
  BY <1>11, ZenonT(60) DEF vars
<1> QED
  BY <1>2, <1>3, <1>4, <1>5, <1>6, <1>7, <1>8, <1>9, <1>10, <1>11 DEF Next

(* Types; no place is listed twice, however often it is reported.           *)
THEOREM TypesHold == Spec => []TypeOK
<1>a. Init => OnceEach
  <2>1. Distinct(<< >>)
    BY EmptySeq DEF Distinct
  <2> QED
    BY <2>1 DEF Init, OnceEach
<1>1. Init => Plain
  <2> SUFFICES ASSUME Init PROVE Plain
    OBVIOUS
  <2>1. guesses \in 0 .. MaxGuesses
    <3>1. guesses = 0
      BY DEF Init
    <3> QED
      BY <3>1, MaxGuessesAssumption
  <2>2. text \in [kind : Texts, header : SUBSET Places]
    BY DEF Init, Texts
  <2> QED
    BY <2>1, <2>2 DEF Init, Plain, Stages, NoStatus
<1>2. Inv /\ OnceEach /\ Plain => TypeOK
  BY Zenon DEF Inv, Lists, Stopped, OnceEach, Plain, TypeOK
<1>3. Inv => Lists
  BY DEF Inv
<1> QED
  BY <1>a, <1>1, <1>2, <1>3, InvAlways, OnceEachStep, PlainStep, PTL DEF Spec

=============================================================================
