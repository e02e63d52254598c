--------------------------- MODULE BlockMachines ---------------------------
(***************************************************************************)
(* The rewritten code run beside the code it was written from: 3.10's      *)
(* interpreter, with its stack of blocks, on `code`, and 3.11's, with the  *)
(* exception table, on `result`.  Each runs on its own to its next event,  *)
(* something the program can be seen to do: a name loaded or stored, a     *)
(* call, a test, an exception raised or compared, the exit of a `with`,    *)
(* the end.  The event is one step of both, with the same outcome.         *)
(*                                                                         *)
(* Values are left out: of the interpreters' stacks only the exceptions    *)
(* are kept.  An exception is named by the place in `code` that raised it. *)
(***************************************************************************)
EXTENDS BlockHandlers

VARIABLES old, new
machineVars == <<old, new>>

\* A block is the handler of a protected body, [handler, error 0], or a handler being run, [handler 0, error].
Body(h) == [handler |-> h, error |-> 0]
Running(e) == [handler |-> 0, error |-> e]
\* `raised` is the last exception raised; `left` is where an exception left the function from.
Start == /\ old = [pc |-> 1, blocks |-> <<>>, raised |-> 0]
         /\ new = [pc |-> 1, exc |-> <<>>, top |-> 0, jump |-> FALSE, idle |-> 0, left |-> 0]

\* Unwinding leaves the handlers being run, and runs the handler of the innermost body.
OldRaise(m, e) ==
    LET bodies == {x \in DOMAIN m.blocks : m.blocks[x].handler # 0}
        x == Max(bodies)
    IN  IF bodies = {} THEN [pc |-> 0, blocks |-> <<>>, raised |-> e]
        ELSE [m EXCEPT !.pc = m.blocks[x].handler, !.raised = e, !.blocks = Append(SubSeq(m.blocks, 1, x - 1), Running(e))]
\* The computed table says where an exception goes. `top` is the exception on top of the stack; PUSH_EXC_INFO makes it
\* the one that is handled, the last of `exc`.
NewRaise(m, e) == [m EXCEPT !.pc = table[m.pc], !.top = e, !.idle = 0, !.left = IF table[m.pc] = 0 THEN m.pc ELSE 0]

OldKind(ins) ==
    CASE ins.op = "CALL_FUNCTION" -> IF ins.n = 3 THEN "exit" ELSE "call"
      [] ins.op = "SETUP_WITH" -> "enter"
      [] ins.op = "JUMP_IF_NOT_EXC_MATCH" -> "match"
      [] ins.op \in {"LOAD_GLOBAL", "STORE_FAST", "DELETE_FAST", "RAISE_VARARGS", "WITH_EXCEPT_START", "RETURN_VALUE",
                     "POP_JUMP_IF_FALSE", "POP_JUMP_IF_TRUE", "FOR_ITER"} -> ins.op
      [] OTHER -> "silent"
NewKind(ins) ==
    CASE ins.op = "CALL" -> "exit"
      [] ins.op = "CALL_FUNCTION" -> "call"
      [] ins.op = "BEFORE_WITH" -> "enter"
      [] ins.op = "CHECK_EXC_MATCH" -> "match"
      [] OTHER -> OldKind(ins)
OldEvent == IF old.pc = 0 THEN <<"raised", old.raised>> ELSE <<OldKind(code[old.pc]), code[old.pc].id>>
NewEvent == IF new.pc = 0 THEN <<"raised", new.top>> ELSE <<NewKind(result[new.pc]), result[new.pc].id>>

OldSilent ==
    LET ins == code[old.pc]
        next == [old EXCEPT !.pc = @ + 1]
    IN  /\ result # <<>> /\ OldEvent[1] = "silent"
        /\ old' = CASE ins.op = "SETUP_FINALLY" -> [next EXCEPT !.blocks = Append(@, Body(ins.to))]
                    [] ins.op \in {"POP_BLOCK", "POP_EXCEPT"} -> [next EXCEPT !.blocks = Front(@)]
                    [] ins.op \in {"JUMP_FORWARD", "JUMP_ABSOLUTE"} -> [old EXCEPT !.pc = ins.to]
                    [] ins.op = "RERAISE" -> OldRaise(old, Last(old.blocks).error)
                    [] OTHER -> next
        /\ UNCHANGED new
Top(exc) == IF exc = <<>> THEN 0 ELSE Last(exc)
NewSilent ==
    LET ins == result[new.pc]
        next == [new EXCEPT !.pc = @ + 1, !.idle = @ + 1]
        left == IF new.exc = <<>> THEN <<>> ELSE Front(new.exc)
    IN  /\ result # <<>> /\ OldEvent[1] # "silent" /\ NewEvent[1] = "silent" /\ new.idle <= Len(result)
        /\ new' = CASE ins.op = "PUSH_EXC_INFO" -> [next EXCEPT !.exc = Append(@, new.top)]
                    [] ins.op = "POP_EXCEPT" -> [next EXCEPT !.exc = left, !.top = IF result[new.pc - 1].op = "COPY" THEN @ ELSE Top(left)]
                    [] ins.op \in {"JUMP_FORWARD", "JUMP_ABSOLUTE"} -> [next EXCEPT !.pc = ins.to]
                    [] ins.op = "POP_JUMP_FORWARD_IF_FALSE" /\ new.jump -> [next EXCEPT !.pc = ins.to]
                    [] ins.op = "RERAISE" -> NewRaise(new, new.top)
                    [] OTHER -> next
        /\ UNCHANGED old

\* What an event may lead to.
Outcomes(kind) ==
    CASE kind \in {"call", "enter", "exit", "WITH_EXCEPT_START"} -> {"on", "raise"}
      [] kind = "RAISE_VARARGS" -> {"raise"}
      [] kind \in {"match", "POP_JUMP_IF_FALSE", "POP_JUMP_IF_TRUE", "FOR_ITER"} -> {"on", "jump"}
      [] kind = "RETURN_VALUE" -> {"end"}
      [] kind = "raised" -> {}
      [] OTHER -> {"on"}
Event ==
    /\ result # <<>> /\ OldEvent[1] # "silent" /\ NewEvent = OldEvent
    /\ \E outcome \in Outcomes(OldEvent[1]) :
         LET oldNext == [old EXCEPT !.pc = @ + 1]
             newNext == [new EXCEPT !.pc = @ + 1, !.idle = 0]
         IN  /\ old' = CASE outcome = "raise" -> OldRaise(old, old.pc)
                         [] outcome = "jump" -> [old EXCEPT !.pc = code[old.pc].to]
                         [] outcome = "end" -> [old EXCEPT !.pc = 0, !.raised = 0]
                         [] OTHER -> IF OldEvent[1] = "enter" THEN [oldNext EXCEPT !.blocks = Append(@, Body(code[old.pc].to))] ELSE oldNext
             /\ new' = CASE outcome = "raise" -> NewRaise(new, old.pc)
                         [] OldEvent[1] = "match" -> [newNext EXCEPT !.jump = (outcome = "jump")]
                         [] outcome = "jump" -> [new EXCEPT !.pc = result[@].to, !.idle = 0]
                         [] outcome = "end" -> [new EXCEPT !.pc = 0, !.top = 0]
                         [] OTHER -> newNext

MachineInit == Init /\ Start
RunStep == (OldSilent \/ NewSilent \/ Event) /\ UNCHANGED rewriterVars
Next == (Rewrite /\ UNCHANGED machineVars) \/ RunStep
vars == <<rewriterVars, machineVars>>
Spec == MachineInit /\ [][Next]_vars

----------------------------------------------------------------------------
(* Properties *)

\* The table covers no clean-up, so an exception that leaves a handler through one leaves the function, also where the
\* statement stands in the body of another, whose handler 3.10 runs next.
LeftFromInnerCleanup ==
    /\ new.pc = 0 /\ new.left # 0
    /\ \E r \in Range(regions) : new.left \in r.cleanup..r.cleanup + 2 /\ out[r.start].old \in DOMAIN Cover(code)

\* The rewritten code does what the code it was written from does, in the same order, until both end in the same way or
\* an exception leaves the handlers of a statement inside another (LeftFromInnerCleanup): up to there the machines are
\* never at two different events, there it is the same exception, and the new one does not turn without end on its own.
SameRun ==
    result # <<>> =>
        /\ OldEvent[1] # "silent" /\ NewEvent[1] # "silent" =>
             NewEvent = OldEvent \/ (LeftFromInnerCleanup /\ new.top = old.raised)
        /\ new.idle <= Len(result)

\* At each call, test of a class and exit both machines come to, the same exceptions are being handled in both, innermost last: what a bare
\* `raise` would raise again and sys.exc_info() would show; and only a handler that was entered is left.
SameHandled ==
    result # <<>> =>
        /\ OldEvent[1] \in {"call", "match", "enter", "exit", "WITH_EXCEPT_START", "RAISE_VARARGS"} /\ NewEvent = OldEvent =>
             LET running == SelectSeq(old.blocks, LAMBDA b : b.handler = 0)
             IN  new.exc = [x \in DOMAIN running |-> running[x].error]
        /\ new.pc # 0 /\ result[new.pc].op = "POP_EXCEPT" => new.exc # <<>>
=============================================================================
