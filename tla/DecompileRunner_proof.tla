----------------------- MODULE DecompileRunner_proof -----------------------
(***************************************************************************)
(* Proofs about the decompiling child of the correctness gate              *)
(* (DecompileRunner.tla), for any number of entries, with a time limit and *)
(* without one.                                                            *)
(***************************************************************************)
EXTENDS DecompileRunner, TLAPS

(* The pipe carries no identities, so what the properties rest on is that   *)
(* it is never ahead or behind: where check_pyc() is says exactly what the  *)
(* two directions of the one pipe hold and what the one child may be doing. *)
AtMostOne(S) == {<<>>} \cup {<<x>> : x \in S}

Types == /\ entry \in 1..(Entries + 1)
         /\ stage \in {"next", "starting", "sending", "waiting", "end", "exited"}
         /\ process \in Processes \cup {Nobody}
         /\ child \in [Processes -> Alive \cup {"unborn", "dead"}]
         /\ requests \in [Processes -> AtMostOne(Files)]
         /\ replies \in [Processes -> AtMostOne(Messages)]
         /\ checks \in [Files -> Checks \cup {Unchecked}]
         /\ disturbed \subseteq Files

\* A child the gate has forgotten is dead, and nothing is left in its pipe.
Quiet(c) == /\ child[c] \in {"unborn", "dead"}
            /\ requests[c] = <<>>
            /\ replies[c] = <<>>

OthersAreQuiet == \A c \in Processes : c # process => Quiet(c)

Between == {"next", "end"}
During == {"starting", "sending", "waiting"}

InStep(c) ==
    \/ /\ stage = "starting"
       /\ requests[c] = <<>>
       /\ \/ child[c] = "booting" /\ replies[c] = <<>>
          \/ child[c] = "idle" /\ replies[c] = <<Ready>>
          \/ child[c] = "dead" /\ replies[c] \in {<<>>, <<Ready>>}
    \/ /\ stage \in Between \cup {"sending"}
       /\ requests[c] = <<>>
       /\ replies[c] = <<>>
       /\ child[c] \in {"idle", "dead"}
    \/ /\ stage = "waiting"
       /\ requests[c] = <<entry>>
       /\ replies[c] = <<>>
       /\ child[c] \in {"idle", "working", "stuck", "dead"}
    \/ /\ stage = "waiting"
       /\ requests[c] = <<>>
       /\ replies[c] \in {<<AnswerTo(entry)>>, <<Garbled>>}
       /\ child[c] \in {"idle", "dead"}

Place == /\ stage \in During => process # Nobody
         /\ stage = "exited" => process = Nobody
         /\ stage \in {"end", "exited"} <=> entry = Entries + 1
         /\ process # Nobody => InStep(process)

\* What goes wrong in a child while an entry is checked is marked against that entry.
Marked == stage \in During => /\ child[process] = "dead" => entry \in disturbed
                              /\ replies[process] = <<Garbled>> => entry \in disturbed

\* The entries before the present one are judged, each by its own answer or by a fault of its own.
Judged == \A f \in Files :
              IF f < entry
              THEN \/ checks[f] = AnswerTo(f)
                   \/ f \in disturbed /\ \E why \in Reasons : checks[f] = Failure(why)
              ELSE checks[f] = Unchecked

Inv == Types /\ OthersAreQuiet /\ Place /\ Marked /\ Judged
-----------------------------------------------------------------------------
\* A direction of the pipe holds one message or none.
LEMMA OneMessage ==
    ASSUME NEW x
    PROVE  /\ <<x>> # <<>> /\ Head(<<x>>) = x /\ Tail(<<x>>) = <<>>
           /\ Append(<<>>, x) = <<x>>
  OBVIOUS

\* What is read off a pipe says what was written to it.
LEMMA MessagesDiffer ==
    /\ Ready # Garbled
    /\ \A f : AnswerTo(f) # Garbled /\ AnswerTo(f) # Ready /\ AnswerTo(f) # Unchecked
    /\ \A f, g : AnswerTo(f) = AnswerTo(g) => f = g
    /\ \A f, why : Failure(why) # AnswerTo(f) /\ Failure(why) # Unchecked
  BY DEF Ready, Garbled, AnswerTo, Failure, Unchecked

LEMMA EntriesArePositive ==
    Entries \in Nat /\ Entries >= 1 /\ Files \subseteq Nat /\ Processes = Files /\ Nobody \notin Files
  BY EntriesAssumption DEF Files, Processes, Nobody

LEMMA OnlyOneChild ==
    ASSUME Inv, NEW c \in Processes, child[c] \in Alive
    PROVE  c = process /\ stage # "exited" /\ InStep(c)
  BY EntriesArePositive DEF Inv, OthersAreQuiet, Quiet, Alive, Place, Nobody, Files

LEMMA InvInit == Init => Inv
<1> SUFFICES ASSUME Init PROVE Inv
  OBVIOUS
<1>1. Types
  BY EntriesArePositive DEF Init, Types, AtMostOne, Nobody, Alive
<1>2. OthersAreQuiet
  BY DEF Init, OthersAreQuiet, Quiet
<1>3. Place /\ Marked
  BY EntriesArePositive DEF Init, Place, Marked, During, Nobody
<1>4. Judged
  BY EntriesArePositive DEF Init, Judged, Files
<1> QED
  BY <1>1, <1>2, <1>3, <1>4 DEF Inv

-----------------------------------------------------------------------------
(* The gate *)

\* However an entry is given up: the child goes, its pipe with it, and the failure is the entry's own.
LEMMA GivenUp ==
    ASSUME Inv, stage \in During, NEW why \in Reasons, Fail(why),
           disturbed' \in {disturbed, disturbed \cup {entry}}, entry \in disturbed'
    PROVE  Inv'
<1> USE EntriesArePositive
<1>1. process \in Processes /\ entry \in Files
  BY DEF Inv, Types, Place, During, Files
<1>2. /\ process' = Nobody
      /\ child' = [child EXCEPT ![process] = "dead"]
      /\ requests' = [requests EXCEPT ![process] = <<>>]
      /\ replies' = [replies EXCEPT ![process] = <<>>]
      /\ checks' = [checks EXCEPT ![entry] = Failure(why)]
      /\ entry' = entry + 1
      /\ stage' = IF entry = Entries THEN "end" ELSE "next"
  BY DEF Fail, Record, Advance, Stop
<1>3. Types'
  <2>1. Failure(why) \in Checks
    BY DEF Checks
  <2> QED
    BY <1>1, <1>2, <2>1 DEF Inv, Types, Files, AtMostOne
<1>4. OthersAreQuiet'
  BY <1>1, <1>2 DEF Inv, Types, OthersAreQuiet, Quiet
<1>5. Place' /\ Marked'
  BY <1>1, <1>2 DEF Inv, Types, Place, Marked, During, Files
<1>6. Judged'
  BY <1>1, <1>2 DEF Inv, Types, Judged, Files
<1> QED
  BY <1>3, <1>4, <1>5, <1>6 DEF Inv

LEMMA GateStep ==
    ASSUME Inv, Gate
    PROVE  Inv'
<1> USE EntriesArePositive
<1>1. CASE Reuse
  <2>1. /\ stage = "next" /\ stage' = "sending" /\ process # Nobody /\ child[process] \in Alive
        /\ UNCHANGED <<entry, process, child, requests, replies, checks, disturbed>>
    BY <1>1 DEF Reuse, HasChild, IsAlive
  <2>2. Types' /\ OthersAreQuiet' /\ Judged'
    BY <2>1 DEF Inv, Types, OthersAreQuiet, Quiet, Judged
  <2>3. Place' /\ Marked'
    BY <2>1, OneMessage DEF Inv, Types, Place, InStep, Between, Marked, During, Alive
  <2> QED
    BY <2>2, <2>3 DEF Inv
<1>2. CASE Start
  <2>1. /\ stage = "next" /\ stage' = "starting"
        /\ process' = entry
        /\ child' = [child EXCEPT ![entry] = "booting"]
        /\ requests' = [c \in Processes |-> IF c \in {process, entry} THEN <<>> ELSE requests[c]]
        /\ replies' = [c \in Processes |-> IF c \in {process, entry} THEN <<>> ELSE replies[c]]
        /\ UNCHANGED <<entry, checks, disturbed>>
    BY <1>2 DEF Start
  <2>2. process # Nobody => child[process] \notin Alive
    BY <1>2 DEF Start, HasChild, IsAlive
  <2>3. entry \in Processes
    BY <2>1 DEF Inv, Types, Place, Files
  <2>4. Types'
    BY <2>1, <2>3 DEF Inv, Types, AtMostOne, Alive
  <2>5. OthersAreQuiet'
    <3> SUFFICES ASSUME NEW c \in Processes, c # entry PROVE Quiet(c)'
      BY <2>1 DEF OthersAreQuiet
    <3>1. child'[c] = child[c] /\ child[c] \in {"unborn", "dead"}
      BY <2>1, <2>2, <2>3 DEF Inv, Types, OthersAreQuiet, Quiet
    <3>2. requests'[c] = <<>> /\ replies'[c] = <<>>
      BY <2>1 DEF Inv, OthersAreQuiet, Quiet
    <3> QED
      BY <3>1, <3>2 DEF Quiet
  <2>6. Place' /\ Marked' /\ Judged'
    <3>1. child'[entry] = "booting" /\ requests'[entry] = <<>> /\ replies'[entry] = <<>>
      BY <2>1, <2>3 DEF Inv, Types
    <3> QED
      BY <2>1, <2>3, <3>1, OneMessage DEF Inv, Types, Place, InStep, Marked, Judged, Nobody, Files
  <2> QED
    BY <2>4, <2>5, <2>6 DEF Inv
<1>3. CASE Greet
  <2>1. /\ stage = "starting" /\ stage' = "sending" /\ replies[process] # <<>>
        /\ replies' = [replies EXCEPT ![process] = Tail(@)]
        /\ UNCHANGED <<entry, process, child, requests, checks, disturbed>>
    BY <1>3 DEF Greet
  <2>2. process \in Processes /\ InStep(process)
    BY <2>1 DEF Inv, Types, Place, During
  <2>3. /\ replies[process] = <<Ready>> /\ requests[process] = <<>>
        /\ child[process] \in {"idle", "dead"}
    BY <2>1, <2>2 DEF InStep, Between
  <2>4. replies' = [replies EXCEPT ![process] = <<>>]
    BY <2>1, <2>3, OneMessage
  <2>5. Types' /\ OthersAreQuiet' /\ Judged'
    BY <2>1, <2>2, <2>4 DEF Inv, Types, AtMostOne, OthersAreQuiet, Quiet, Judged
  <2>6. Place' /\ Marked'
    BY <2>1, <2>2, <2>3, <2>4, OneMessage DEF Inv, Types, Place, InStep, Marked, During
  <2> QED
    BY <2>5, <2>6 DEF Inv
<1>4. CASE StartTooSlow \/ Timeout
  <2>1. /\ stage \in During /\ disturbed' = disturbed \cup {entry}
        /\ \E why \in Reasons : Fail(why)
    BY <1>4 DEF StartTooSlow, Timeout, During, Reasons
  <2> QED
    BY <2>1, GivenUp
<1>5. CASE StartDied \/ SendFails \/ ReceiveNothing
  <2>1. /\ stage \in During /\ disturbed' = disturbed /\ child[process] \notin Alive
        /\ \E why \in Reasons : Fail(why)
    BY <1>5 DEF StartDied, SendFails, ReceiveNothing, During, IsAlive, Reasons
  <2>2. entry \in disturbed
    <3>1. InStep(process) /\ child[process] = "dead"
      BY <2>1 DEF Inv, Place, During, InStep, Alive, Between
    <3> QED
      BY <2>1, <3>1 DEF Inv, Marked
  <2> QED
    BY <2>1, <2>2, GivenUp
<1>6. CASE Send
  <2>1. /\ stage = "sending" /\ stage' = "waiting" /\ child[process] \in Alive
        /\ requests' = [requests EXCEPT ![process] = Append(@, entry)]
        /\ UNCHANGED <<entry, process, child, replies, checks, disturbed>>
    BY <1>6 DEF Send, IsAlive
  <2>2. process \in Processes /\ InStep(process) /\ entry \in Files
    BY <2>1 DEF Inv, Types, Place, During, Files
  <2>3. requests[process] = <<>> /\ replies[process] = <<>> /\ child[process] \in {"idle", "dead"}
    BY <2>1, <2>2 DEF InStep, Between
  <2>4. requests' = [requests EXCEPT ![process] = <<entry>>]
    BY <2>1, <2>3, OneMessage
  <2>5. Types' /\ OthersAreQuiet' /\ Judged'
    <3>1. <<entry>> \in AtMostOne(Files)
      BY <2>2 DEF AtMostOne
    <3> QED
      BY <2>1, <2>2, <2>4, <3>1, ZenonT(60) DEF Inv, Types, OthersAreQuiet, Quiet, Judged
  <2>6. Place' /\ Marked'
    BY <2>1, <2>2, <2>3, <2>4, OneMessage DEF Inv, Types, Place, InStep, Marked, During
  <2> QED
    BY <2>5, <2>6 DEF Inv
<1>7. CASE Receive
  <2>1. /\ stage = "waiting" /\ replies[process] # <<>> /\ Head(replies[process]) # Garbled
        /\ checks' = [checks EXCEPT ![entry] = Head(replies[process])]
        /\ replies' = [replies EXCEPT ![process] = Tail(@)]
        /\ entry' = entry + 1
        /\ stage' = IF entry = Entries THEN "end" ELSE "next"
        /\ UNCHANGED <<process, child, requests, disturbed>>
    BY <1>7 DEF Receive, Record, Advance
  <2>2. process \in Processes /\ InStep(process) /\ entry \in Files
    BY <2>1 DEF Inv, Types, Place, During, Files
  <2>3. /\ replies[process] = <<AnswerTo(entry)>> /\ requests[process] = <<>>
        /\ child[process] \in {"idle", "dead"}
    BY <2>1, <2>2, OneMessage DEF InStep, Between
  <2>4. /\ replies' = [replies EXCEPT ![process] = <<>>]
        /\ checks' = [checks EXCEPT ![entry] = AnswerTo(entry)]
    BY <2>1, <2>3, OneMessage
  <2>5. Types' /\ OthersAreQuiet'
    BY <2>1, <2>2, <2>4 DEF Inv, Types, AtMostOne, OthersAreQuiet, Quiet, Checks, Files
  <2>6. Judged'
    BY <2>1, <2>2, <2>4 DEF Inv, Types, Judged, Files
  <2>7. Place' /\ Marked'
    BY <2>1, <2>2, <2>3, <2>4 DEF Inv, Types, Place, InStep, Between, Marked, During, Files
  <2> QED
    BY <2>5, <2>6, <2>7 DEF Inv
<1>8. CASE ReceiveUnreadable
  <2>1. /\ stage = "waiting" /\ replies[process] # <<>> /\ Head(replies[process]) = Garbled
        /\ disturbed' = disturbed /\ \E why \in Reasons : Fail(why)
    BY <1>8 DEF ReceiveUnreadable, Reasons
  <2>2. replies[process] = <<Garbled>>
    <3>1. InStep(process)
      BY <2>1 DEF Inv, Place, During
    <3>2. replies[process] \in {<<AnswerTo(entry)>>, <<Garbled>>}
      BY <2>1, <3>1 DEF InStep, Between
    <3> QED
      BY <2>1, <3>2, OneMessage, MessagesDiffer
  <2>3. entry \in disturbed
    BY <2>1, <2>2 DEF Inv, Marked, During
  <2> QED
    BY <2>1, <2>3, GivenUp DEF During
<1>9. CASE Exit
  <2>1. /\ stage = "end" /\ stage' = "exited" /\ process' = Nobody
        /\ UNCHANGED <<entry, checks, disturbed>>
    BY <1>9 DEF Exit, Stop
  <2>2. CASE process = Nobody
    <3>1. UNCHANGED <<process, child, requests, replies>>
      BY <1>9, <2>2 DEF Exit
    <3> QED
      BY <2>1, <2>2, <3>1 DEF Inv, Types, OthersAreQuiet, Quiet, Place, Marked, During, Judged
  <2>3. CASE process # Nobody
    <3>1. /\ child' = [child EXCEPT ![process] = "dead"]
          /\ requests' = [requests EXCEPT ![process] = <<>>]
          /\ replies' = [replies EXCEPT ![process] = <<>>]
      BY <1>9, <2>3 DEF Exit, Stop
    <3>2. Types' /\ OthersAreQuiet'
      BY <2>1, <2>3, <3>1 DEF Inv, Types, AtMostOne, OthersAreQuiet, Quiet
    <3> QED
      BY <2>1, <2>3, <3>2 DEF Inv, Place, Marked, During, Judged
  <2> QED
    BY <2>2, <2>3
<1> QED
  BY <1>1, <1>2, <1>3, <1>4, <1>5, <1>6, <1>7, <1>8, <1>9 DEF Gate

-----------------------------------------------------------------------------
(* The children: only the one the gate knows of can still do anything *)

LEMMA ChildStep ==
    ASSUME Inv, NEW c \in Processes, Child(c)
    PROVE  Inv'
<1> USE EntriesArePositive
<1>1. child[c] \in Alive
  BY DEF Child, Boot, Take, Answer, AnswerGarbled, Hang, Die, IsAlive, Alive
<1>2. c = process /\ stage # "exited" /\ InStep(c) /\ process # Nobody
  BY <1>1, OnlyOneChild DEF Nobody, Files
<1>3. UNCHANGED <<entry, stage, process, checks>>
  BY DEF Child, Boot, Take, Answer, AnswerGarbled, Hang, Die
<1>4. /\ stage \in During => entry \in Files
      /\ Now \subseteq Files
      /\ stage \in During => Now = {entry}
  BY DEF Inv, Types, Place, During, Now, Files
<1>5. ASSUME NEW state \in Alive \cup {"dead"}, child' = [child EXCEPT ![c] = state],
             requests' = [requests EXCEPT ![c] = requests'[c]], requests'[c] \in AtMostOne(Files),
             replies' = [replies EXCEPT ![c] = replies'[c]], replies'[c] \in AtMostOne(Messages),
             disturbed' \in {disturbed, disturbed \cup Now},
             InStep(c)',
             stage \in During => /\ state = "dead" => entry \in disturbed'
                                 /\ replies'[c] = <<Garbled>> => entry \in disturbed'
      PROVE  Inv'
  <2>1. Types' /\ OthersAreQuiet'
    BY <1>2, <1>3, <1>4, <1>5 DEF Inv, Types, OthersAreQuiet, Quiet
  <2>2. Place' /\ Marked'
    BY <1>2, <1>3, <1>5 DEF Inv, Types, Place, Marked
  <2>3. Judged'
    BY <1>3, <1>5 DEF Inv, Judged
  <2> QED
    BY <2>1, <2>2, <2>3 DEF Inv
<1>6. ASSUME Die(c) PROVE Inv'
  <2>1. /\ child' = [child EXCEPT ![c] = "dead"]
        /\ disturbed' = disturbed \cup Now
        /\ UNCHANGED <<requests, replies>>
    BY <1>6 DEF Die
  <2>2. InStep(c)'
    BY <1>1, <1>2, <1>3, <2>1 DEF Inv, Types, InStep, Between, Alive
  <2> QED
    BY <1>2, <1>4, <1>5, <2>1, <2>2 DEF Inv, Types
<1>7. ASSUME Boot(c) PROVE Inv'
  <2>1. /\ child[c] = "booting"
        /\ child' = [child EXCEPT ![c] = "idle"]
        /\ replies' = [replies EXCEPT ![c] = Append(@, Ready)]
        /\ UNCHANGED <<requests, disturbed>>
    BY <1>7 DEF Boot
  <2>2. stage = "starting" /\ requests[c] = <<>> /\ replies[c] = <<>>
    BY <1>2, <2>1 DEF InStep, Between
  <2>3. replies' = [replies EXCEPT ![c] = <<Ready>>] /\ replies'[c] = <<Ready>>
    BY <2>1, <2>2, OneMessage DEF Inv, Types
  <2>4. InStep(c)'
    BY <1>2, <1>3, <2>1, <2>2, <2>3 DEF Inv, Types, InStep
  <2>5. <<Ready>> # <<Garbled>>
    BY MessagesDiffer, OneMessage
  <2> QED
    BY <1>5, <2>1, <2>3, <2>4, <2>5 DEF Inv, Types, AtMostOne, Messages, Alive
<1>8. ASSUME Take(c) \/ Hang(c) PROVE Inv'
  <2>1. PICK state \in {"working", "stuck"} :
           /\ child[c] = IF state = "working" THEN "idle" ELSE "working"
           /\ state = "working" => requests[c] # <<>>
           /\ child' = [child EXCEPT ![c] = state]
           /\ UNCHANGED <<requests, replies, disturbed>>
    BY <1>8 DEF Take, Hang
  <2>2. stage = "waiting" /\ requests[c] = <<entry>> /\ replies[c] = <<>>
    BY <1>2, <2>1 DEF InStep, Between
  <2>3. InStep(c)'
    BY <1>2, <1>3, <2>1, <2>2 DEF Inv, Types, InStep
  <2> QED
    BY <1>5, <2>1, <2>2, <2>3, OneMessage DEF Inv, Types, Alive
<1>9. ASSUME Answer(c) \/ AnswerGarbled(c) PROVE Inv'
  <2>1. /\ child[c] = "working"
        /\ child' = [child EXCEPT ![c] = "idle"]
        /\ requests' = [requests EXCEPT ![c] = Tail(@)]
    BY <1>9 DEF Answer, AnswerGarbled
  <2>2. stage = "waiting" /\ requests[c] = <<entry>> /\ replies[c] = <<>>
    BY <1>2, <2>1 DEF InStep, Between
  <2>3. requests' = [requests EXCEPT ![c] = <<>>] /\ requests'[c] = <<>>
    BY <2>1, <2>2, OneMessage DEF Inv, Types
  <2>4. PICK reply \in {AnswerTo(entry), Garbled} :
           /\ replies' = [replies EXCEPT ![c] = <<reply>>]
           /\ reply = Garbled => disturbed' = disturbed \cup {entry}
           /\ disturbed' \in {disturbed, disturbed \cup Now}
    BY <1>4, <1>9, <2>2, OneMessage, MessagesDiffer DEF Answer, AnswerGarbled, During
  <2>5. replies'[c] = <<reply>>
    BY <2>4 DEF Inv, Types
  <2>6. InStep(c)'
    BY <1>2, <1>3, <2>1, <2>2, <2>3, <2>4, <2>5 DEF Inv, Types, InStep
  <2>7. reply \in Messages
    BY <1>4, <2>2, <2>4 DEF Messages, During
  <2>8. replies'[c] = <<Garbled>> => entry \in disturbed'
    BY <2>4, <2>5, OneMessage, MessagesDiffer
  <2> QED
    BY <1>5, <2>1, <2>3, <2>4, <2>5, <2>6, <2>7, <2>8 DEF Inv, Types, AtMostOne, Alive
<1> QED
  BY <1>6, <1>7, <1>8, <1>9 DEF Child

LEMMA InvAlways == Spec => []Inv
<1>1. Inv /\ [Next]_vars => Inv'
  <2> SUFFICES ASSUME Inv, [Next]_vars PROVE Inv'
    OBVIOUS
  <2>1. CASE UNCHANGED vars
    BY <2>1 DEF vars, Inv, Types, OthersAreQuiet, Quiet, Place, InStep, Marked, Judged
  <2> QED
    BY <2>1, GateStep, ChildStep DEF Next
<1> QED
  BY <1>1, InvInit, PTL DEF Spec

-----------------------------------------------------------------------------
(* What it is for *)

(* Where check_pyc() is, what its children are doing, what their pipes hold *)
(* and what has been decided stay what they are meant to be.                *)
THEOREM TypesHold == Spec => []TypeOK
<1>1. ASSUME NEW S, NEW x \in AtMostOne(S) PROVE x \in Seq(S)
  <2>1. <<>> \in Seq(S) /\ \A y \in S : <<y>> \in Seq(S)
    OBVIOUS
  <2> QED
    BY <2>1 DEF AtMostOne
<1>2. Inv => TypeOK
  BY <1>1 DEF Inv, Types, TypeOK
<1> QED
  BY <1>2, InvAlways, PTL

(* No entry is given the answer to another, however late the answers come:  *)
(* when the gate reads, the pipe holds the answer to what it sent last, or  *)
(* nothing.                                                                 *)
THEOREM AnswersAreOwn == Spec => []OwnAnswer
<1>1. Inv => OwnAnswer
  BY MessagesDiffer DEF Inv, Judged, OwnAnswer
<1> QED
  BY <1>1, InvAlways, PTL

(* An entry is given up only for a fault of its own time: a child is never  *)
(* handed on with a death or an unread reply behind it.                     *)
THEOREM FaultsStay == Spec => []FaultsStayWithTheirEntry
<1>1. Inv => FaultsStayWithTheirEntry
  BY MessagesDiffer DEF Inv, Judged, FaultsStayWithTheirEntry
<1> QED
  BY <1>1, InvAlways, PTL

(* The gate never has two children, and leaves none behind.                 *)
THEOREM NobodyIsLeftBehind == Spec => []NoOrphans
<1>1. Inv => NoOrphans
  BY OnlyOneChild DEF NoOrphans, IsAlive
<1> QED
  BY <1>1, InvAlways, PTL

(* The safety half of EveryEntryIsJudged, which holds without a time limit  *)
(* too: a run that ends has judged every entry.                             *)
THEOREM AllAreJudgedAtTheEnd == Spec => [](stage = "exited" => \A f \in Files : checks[f] # Unchecked)
<1>1. Inv => (stage = "exited" => \A f \in Files : checks[f] # Unchecked)
  BY EntriesArePositive, MessagesDiffer DEF Inv, Place, Judged, Files
<1> QED
  BY <1>1, InvAlways, PTL

=============================================================================
