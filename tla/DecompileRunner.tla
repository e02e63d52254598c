-------------------------- MODULE DecompileRunner --------------------------
(***************************************************************************)
(* The decompiling child process of quality/check_correctness.py.  The     *)
(* gate sends one path after another down a pipe and takes what comes back *)
(* for the answer to the last path it sent: neither requests nor replies   *)
(* carry an identity.  A child may be slow, hang, die or send something    *)
(* that cannot be read, at any moment; the gate then stops it and starts   *)
(* another for the next entry.                                             *)
(*                                                                         *)
(* Time is left out: a poll that runs out is a step that may be taken      *)
(* whenever there is nothing to read, so an answer may also arrive between *)
(* the end of the poll and the end of the child.                           *)
(***************************************************************************)
EXTENDS Naturals, Sequences, FiniteSets

CONSTANTS Entries,    \* how many .pyc files are checked, one after another
          Timed       \* FALSE for --timeout 0: an answer is waited for without end

ASSUME EntriesAssumption == Entries \in Nat \ {0}
ASSUME TimedAssumption == Timed \in BOOLEAN

VARIABLES entry,     \* the entry being checked
          stage,     \* where check_pyc is
          process,   \* _process: the child in use, 0 for None
          child,     \* child[c]: what the process started for entry c is doing
          requests,  \* requests[c], replies[c]: the two directions of its pipe
          replies,
          checks,    \* the Check recorded for each entry
          disturbed  \* the entries during whose check something went wrong outside the decompiler
                     \* (of use to the properties only)

vars == <<entry, stage, process, child, requests, replies, checks, disturbed>>

Files == 1..Entries
Processes == 1..Entries     \* at most one is started per entry, and is named by it
Nobody == 0

Alive == {"booting", "idle", "working", "stuck"}
Ready == <<"ready">>
Garbled == <<"garbled">>       \* a reply that recv() cannot unpickle
AnswerTo(f) == <<"answer", f>>   \* ('ok', text, diagnostics) or ('error', type, message)
Failure(why) == <<"decompile_error", why>>
Reasons == {"timeout", "died", "unreadable"}
Unchecked == <<"none">>

\* Everything check_pyc can record: the answer that classify() judges, or a failure of the process.
Checks == {AnswerTo(f) : f \in Files} \cup {Failure(why) : why \in Reasons}
Messages == {Ready, Garbled} \cup {AnswerTo(f) : f \in Files}

TypeOK == /\ entry \in 1..(Entries + 1)
          /\ stage \in {"next", "starting", "sending", "waiting", "end", "exited"}
          /\ process \in Processes \cup {Nobody}
          /\ child \in [Processes -> Alive \cup {"unborn", "dead"}]
          /\ requests \in [Processes -> Seq(Files)]
          /\ replies \in [Processes -> Seq(Messages)]
          /\ checks \in [Files -> Checks \cup {Unchecked}]
          /\ disturbed \subseteq Files

Init == /\ entry = 1
        /\ stage = "next"
        /\ process = Nobody
        /\ child = [c \in Processes |-> "unborn"]
        /\ requests = [c \in Processes |-> <<>>]
        /\ replies = [c \in Processes |-> <<>>]
        /\ checks = [f \in Files |-> Unchecked]
        /\ disturbed = {}

-----------------------------------------------------------------------------
(* The gate *)

IsAlive(c) == child[c] \in Alive
\* A slip: a child that has died since is used again.
HasChildOnce == process # Nobody
HasChild == process # Nobody /\ IsAlive(process)

\* A slip: the pipe is closed, but nothing ends a child that is not reading it.
StopListening == /\ process' = Nobody
                 /\ child' = [child EXCEPT ![process] = IF @ = "idle" THEN "dead" ELSE @]
                 /\ requests' = [requests EXCEPT ![process] = <<>>]
                 /\ replies' = [replies EXCEPT ![process] = <<>>]

\* _worker_died() and every other way out of decompile() call it: the pipe is closed with what is in it,
\* the child is terminated, killed if it must be, and forgotten.
Stop == /\ process' = Nobody
        /\ child' = [child EXCEPT ![process] = "dead"]
        /\ requests' = [requests EXCEPT ![process] = <<>>]
        /\ replies' = [replies EXCEPT ![process] = <<>>]

\* The next entry of the corpus, or the end of it.
Advance == /\ entry' = entry + 1
           /\ stage' = IF entry = Entries THEN "end" ELSE "next"

Record(check) == checks' = [checks EXCEPT ![entry] = check]

Fail(why) == /\ Record(Failure(why))
             /\ Advance
             /\ Stop

\* decompile(): the child of the entry before serves this one too, if it is still alive.
Reuse == /\ stage = "next"
         /\ HasChild
         /\ stage' = "sending"
         /\ UNCHANGED <<entry, process, child, requests, replies, checks, disturbed>>

\* Otherwise what is left of it is stopped, and _start() starts another.
Start == /\ stage = "next"
         /\ ~HasChild
         /\ process' = entry
         /\ child' = [child EXCEPT ![entry] = "booting"]
         /\ requests' = [c \in Processes |-> IF c \in {process, entry} THEN <<>> ELSE requests[c]]
         /\ replies' = [c \in Processes |-> IF c \in {process, entry} THEN <<>> ELSE replies[c]]
         /\ stage' = "starting"
         /\ UNCHANGED <<entry, checks, disturbed>>

\* _start() reads the message that says the child is up; start-up is not charged to the entry.
Greet == /\ stage = "starting"
         /\ replies[process] # <<>>
         /\ replies' = [replies EXCEPT ![process] = Tail(@)]
         /\ stage' = "sending"
         /\ UNCHANGED <<entry, process, child, requests, checks, disturbed>>

\* The child was not up in START_TIMEOUT seconds.
StartTooSlow == /\ stage = "starting"
                /\ replies[process] = <<>>
                /\ IsAlive(process)
                /\ disturbed' = disturbed \cup {entry}
                /\ Fail("died")

\* recv() finds the other end closed.
StartDied == /\ stage = "starting"
             /\ replies[process] = <<>>
             /\ ~IsAlive(process)
             /\ Fail("died")
             /\ UNCHANGED disturbed

Send == /\ stage = "sending"
        /\ IsAlive(process)
        /\ requests' = [requests EXCEPT ![process] = Append(@, entry)]
        /\ stage' = "waiting"
        /\ UNCHANGED <<entry, process, child, replies, checks, disturbed>>

\* send() raises BrokenPipeError.
SendFails == /\ stage = "sending"
             /\ ~IsAlive(process)
             /\ Fail("died")
             /\ UNCHANGED disturbed

\* poll() and recv(): whatever is first in the pipe is the reply.
Receive == /\ stage = "waiting"
           /\ replies[process] # <<>>
           /\ Head(replies[process]) # Garbled
           /\ Record(Head(replies[process]))
           /\ replies' = [replies EXCEPT ![process] = Tail(@)]
           /\ Advance
           /\ UNCHANGED <<process, child, requests, disturbed>>

\* The except Exception of check_pyc: the pipe may be out of step, so the child goes too.
ReceiveUnreadable == /\ stage = "waiting"
                     /\ replies[process] # <<>>
                     /\ Head(replies[process]) = Garbled
                     /\ Fail("unreadable")
                     /\ UNCHANGED disturbed

ReceiveNothing == /\ stage = "waiting"
                  /\ replies[process] = <<>>
                  /\ ~IsAlive(process)
                  /\ Fail("died")
                  /\ UNCHANGED disturbed

\* Slips: the child that is too slow is kept for the next entry; the limit 0 is taken for no time at all.
TimeoutKeepingChild == /\ stage = "waiting"
                       /\ Timed
                       /\ replies[process] = <<>>
                       /\ IsAlive(process)
                       /\ disturbed' = disturbed \cup {entry}
                       /\ Record(Failure("timeout"))
                       /\ Advance
                       /\ UNCHANGED <<process, child, requests, replies>>
TimeoutWhenUntimed == /\ stage = "waiting"
                      /\ ~Timed
                      /\ replies[process] = <<>>
                      /\ IsAlive(process)
                      /\ disturbed' = disturbed \cup {entry}
                      /\ Fail("timeout")

\* poll() runs out; what the child sends before it is stopped is lost with the pipe.
Timeout == /\ stage = "waiting"
           /\ Timed
           /\ replies[process] = <<>>
           /\ IsAlive(process)
           /\ disturbed' = disturbed \cup {entry}
           /\ Fail("timeout")

\* atexit.register(_runner.stop)
Exit == /\ stage = "end"
        /\ IF process = Nobody THEN UNCHANGED <<process, child, requests, replies>> ELSE Stop
        /\ stage' = "exited"
        /\ UNCHANGED <<entry, checks, disturbed>>

Gate == \/ Reuse \/ Start \/ Greet \/ StartTooSlow \/ StartDied
        \/ Send \/ SendFails
        \/ Receive \/ ReceiveUnreadable \/ ReceiveNothing \/ Timeout
        \/ Exit

-----------------------------------------------------------------------------
(* The children *)

Now == IF stage \in {"starting", "sending", "waiting"} THEN {entry} ELSE {}

\* _child_main() has imported the decompiler and says so.
Boot(c) == /\ child[c] = "booting"
           /\ child' = [child EXCEPT ![c] = "idle"]
           /\ replies' = [replies EXCEPT ![c] = Append(@, Ready)]
           /\ UNCHANGED <<entry, stage, process, requests, checks, disturbed>>

\* _decompile_worker() takes a path ...
Take(c) == /\ child[c] = "idle"
           /\ requests[c] # <<>>
           /\ child' = [child EXCEPT ![c] = "working"]
           /\ UNCHANGED <<entry, stage, process, requests, replies, checks, disturbed>>

\* ... and sends back what came of it: an exception of the decompiler is an answer like any other.
Answer(c) == /\ child[c] = "working"
             /\ child' = [child EXCEPT ![c] = "idle"]
             /\ replies' = [replies EXCEPT ![c] = Append(@, AnswerTo(Head(requests[c])))]
             /\ requests' = [requests EXCEPT ![c] = Tail(@)]
             /\ UNCHANGED <<entry, stage, process, checks, disturbed>>

\* A reply that does not unpickle in the gate.
AnswerGarbled(c) == /\ child[c] = "working"
                    /\ child' = [child EXCEPT ![c] = "idle"]
                    /\ replies' = [replies EXCEPT ![c] = Append(@, Garbled)]
                    /\ requests' = [requests EXCEPT ![c] = Tail(@)]
                    /\ disturbed' = disturbed \cup Now
                    /\ UNCHANGED <<entry, stage, process, checks>>

\* The decompiler loops for ever, possibly in C code.
Hang(c) == /\ child[c] = "working"
           /\ child' = [child EXCEPT ![c] = "stuck"]
           /\ UNCHANGED <<entry, stage, process, requests, replies, checks, disturbed>>

\* The child dies: a crash of the interpreter, or the system ends it.  What it has sent can still be read.
Die(c) == /\ IsAlive(c)
          /\ child' = [child EXCEPT ![c] = "dead"]
          /\ disturbed' = disturbed \cup Now
          /\ UNCHANGED <<entry, stage, process, requests, replies, checks>>

Child(c) == Boot(c) \/ Take(c) \/ Answer(c) \/ AnswerGarbled(c) \/ Hang(c) \/ Die(c)

Next == Gate \/ \E c \in Processes : Child(c)

\* The gate is one thread that nothing suspends, and its polls run out by the clock of the system.  Of a
\* child nothing is assumed.
Spec == Init /\ [][Next]_vars /\ WF_vars(Gate)

-----------------------------------------------------------------------------
(* What it is for *)

\* The answer recorded for an entry is the answer to that entry, and never to one before it that came late:
\* a pipe that may be out of step is never used again.
OwnAnswer == \A f \in Files : \A g \in Files : checks[f] = AnswerTo(g) => f = g

\* "so a hang or a crash costs one entry and not the run" (_DecompileRunner): an entry is given up only when
\* something went wrong during its own check.  A child that dies between two entries costs neither.
FaultsStayWithTheirEntry == \A f \in Files : (\E why \in Reasons : checks[f] = Failure(why)) => f \in disturbed

\* There is at most one child, the one the gate knows of, and none once the gate has gone.
NoOrphans == \A c \in Processes : IsAlive(c) => c = process /\ stage # "exited"

\* With a time limit the run ends with every entry judged, whatever the children do.
EveryEntryIsJudged == <>(stage = "exited" /\ \A f \in Files : checks[f] # Unchecked)

=============================================================================
