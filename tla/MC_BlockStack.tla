--------------------------- MODULE MC_BlockStack ---------------------------
(***************************************************************************)
(* Functions of one to three nested statements: try with typed, named and  *)
(* bare clauses, else and finally, in and around for, if and with, left by *)
(* every kind of exit, as 3.10 compiles them.                              *)
(*                                                                         *)
(* Two shapes are left out, since the rewriting does not keep them: a      *)
(* statement that protects code inside a handler (an except clause or a    *)
(* finally body that has a try or a with in it; ProtectedInHandler below), *)
(* and a finally body that ends in an exit of its own.  What a statement   *)
(* inside another does is compared until an exception leaves its handlers  *)
(* (LeftFromInnerCleanup).                                                 *)
(***************************************************************************)
EXTENDS BlockMachines

Py == INSTANCE Compile310

None == <<>>
Do(kind) == <<Py!Stmt(kind)>>
Calls == Do("call")
Typed(body) == Py!Clause(TRUE, FALSE, body)
Named(body) == Py!Clause(TRUE, TRUE, body)
Bare(body) == Py!Clause(FALSE, FALSE, body)
Try(body, clauses, orelse, final) == <<[Py!Stmt("try") EXCEPT !.body = body, !.clauses = clauses, !.orelse = orelse, !.final = final]>>
With(body) == <<[Py!Stmt("with") EXCEPT !.body = body]>>
Loop(body) == <<[Py!Stmt("for") EXCEPT !.body = body]>>
Cond(body, orelse) == <<[Py!Stmt("if") EXCEPT !.body = body, !.orelse = orelse]>>

\* One statement, with every way to leave its body and its clauses, and what follows it.
OneTry ==
    {Try(b, c, e, f) \o a :
        b \in {Calls, Do("return value"), Do("raise")},
        c \in {<<Typed(Calls)>>, <<Named(Do("return value"))>>, <<Named(Calls), Bare(Do("return"))>>, <<Typed(Do("return")), Named(Do("raise"))>>},
        e \in {None, Calls}, f \in {None, Calls}, a \in {None, Calls \o Do("return value")}}
\* One inside the body of another.
Inner ==
    {Try(Calls, <<Typed(Calls)>>, None, None), Try(Calls, <<Named(Do("return value"))>>, None, None), Try(Do("return value"), None, None, Calls),
     With(Calls), With(Do("return value")), Cond(Do("return"), None), Loop(Cond(Do("break"), None)), Loop(Cond(Do("return value"), None))}
Around(x) ==
    {Try(Calls \o x, <<Named(Calls)>>, None, None), Try(x, None, None, Calls), With(x), With(x \o Calls), Try(Calls, <<Typed(Calls)>>, x, None),
     Try(x, <<Typed(Do("raise")), Bare(Do("return"))>>, Calls, Calls), Cond(x, None) \o Calls, Loop(x \o Calls)}
\* What a clause or a finally body may hold.
Plain == {Cond(Calls, None), Cond(Do("return"), None), Loop(Calls), Calls \o Do("raise"), Do("pass")}
Handling(x) == {Try(Calls, <<Named(x), Bare(Calls)>>, None, None), Try(Calls, <<Typed(Calls), Named(x)>>, Calls, None), Try(Calls, <<Bare(x)>>, None, Calls)}
\* Statements left by break and continue.
Left == {Do("break"), Calls \o Do("continue"), Cond(Do("continue"), Do("break"))}
Leaving(x) ==
    {Loop(Try(x, <<Typed(Calls)>>, None, None)), Loop(Try(Calls, <<Named(x), Bare(x)>>, None, None) \o Calls), Loop(Try(x, None, None, Calls)) \o Calls,
     Loop(With(x)), Loop(Try(Calls, <<Named(Calls)>>, x, Calls)), Loop(With(Try(x, <<Named(x)>>, None, None)))}
Programs ==
    OneTry \cup UNION {Around(x) : x \in Inner} \cup UNION {Handling(x) : x \in Plain} \cup UNION {Leaving(x) : x \in Left}
      \cup {Try(Calls, None, None, f) \o Calls : f \in {Calls, Cond(Calls, None), Loop(Calls)}}
Compiled == {Py!Compile(p) : p \in Programs}

\* A clause or a finally body that holds a try or a with.
Guarded == {Try(Calls, <<Typed(Calls)>>, None, None), Try(Calls, None, None, Calls), With(Calls)}
ProtectedInHandler == {Py!Compile(p) : p \in UNION {{Try(Calls, <<Bare(x)>>, None, None), Try(Calls, None, None, Calls \o x)} : x \in Guarded}}
=============================================================================
