------------------------------ MODULE MC_Decode ------------------------------
(***************************************************************************)
(* Sources for TLC: every kind of instruction with arguments of one byte    *)
(* and of several, jumps over short and long distances that make each other *)
(* longer, every change of lines, and exception tables whole and cut.       *)
(***************************************************************************)
EXTENDS DecodeRoundTrip

Ins(kind, n, flags, x, y, to, on, wide) ==
    [kind |-> kind, n |-> n, flags |-> flags, x |-> x, y |-> y, to |-> to, line |-> on, wide |-> wide]

Plain(kind, n, flags) == Ins(kind, n, flags, "a", "a", 1, 1, "near")
Jump(kind, to)        == Ins(kind, 0, 0, "a", "a", to, 1, "near")
Nop                   == Plain("nop", 0, 0)

Small == {0, 3, 7, 8, 15, 16, 17}

Singles ==
    {Plain(kind, n, 0) : kind \in {"const", "name", "keywords", "small", "call"}, n \in Small}
    \cup {Plain(kind, n, flags) : kind \in {"global", "attr"}, n \in Small, flags \in {0, 1}}
    \cup {Plain("super", n, flags) : n \in Small, flags \in 0 .. 3}
    \cup {Plain("compare", n, flags) : n \in 0 .. 5, flags \in {0, 1}}
    \cup {Plain("binary", n, 0) : n \in {0, 12, 25}}
    \cup {Plain("function", n, 0) : n \in 0 .. 15}
    \cup {Plain("convert", n, flags) : n \in 0 .. 3, flags \in {0, 1}}
    \cup {Plain("unpack", n, flags) : n \in {0, 2}, flags \in {0, 1, 3}}
    \cup {Plain("slice", n, 0) : n \in {2, 3}} \cup {Plain("contains", n, 0) : n \in {0, 1}}
    \cup {Ins("local", 0, 0, x, x, 1, 1, "near") : x \in {"a", "b"}}
    \cup {Ins("cell", 0, 0, x, x, 1, 1, "near") : x \in {"b", "c", "d"}}
    \cup {Ins(kind, 0, 0, x, y, 1, 1, "near") : kind \in {"pair", "loads"}, x, y \in {"a", "b"}}

(* From 3.12 a conditional jump goes forward only.                          *)
Fits(v, source) ==
    \A k \in DOMAIN source : Has(v, source[k].kind) /\ (source[k].kind = "if" /\ v > 11 => source[k].to > k)

OneEach == {<<ins, Nop>> : ins \in Singles} \cup {<<Ins("pair", 0, 0, "b", "a", 1, 1, "near"), ins>> : ins \in Singles}

(* Jumps over n instructions, and two that cross.                           *)
Pad(n) == [k \in 1 .. n |-> Nop]
Far    == {0, 2, 5, 6, 7, 8, 12, 13, 14, 15, 16}

Forwards == {"forward", "if", "for", "setup"}

Leaps ==
    {<<Jump(kind, n + 2)>> \o Pad(n) \o <<Plain("name", m, 0)>> : kind \in Forwards, n \in Far, m \in {1, 17}}
    \cup {<<Plain("attr", m, 1)>> \o Pad(n) \o <<Jump(kind, 1), Nop>> : kind \in {"back", "async"}, n \in Far, m \in {1, 17}}
    \cup {<<Nop, Jump("if", n + 4)>> \o Pad(n) \o <<Jump("back", 2), Nop>> : n \in Far}
    \cup {<<Jump("for", n + 3)>> \o Pad(n) \o <<Jump("back", 1), Jump("if", 1), Nop>> : n \in Far}

(* Lines.                                                                   *)
Lines == {1, 2, 5, 30, NoLine}

OnLines(ins, on, wide) == [ins EXCEPT !.line = on, !.wide = wide]

Lined ==
    {<<OnLines(Plain("name", 1, 0), l1, w), OnLines(Plain("attr", 17, 1), l2, w), OnLines(Nop, l3, "near")>> :
        l1, l2, l3 \in Lines, w \in {"near", "far", "none"}}
    \cup {<<OnLines(Nop, l1, "near")>> \o Pad(8) \o <<OnLines(Nop, l2, "near")>> : l1, l2 \in Lines}

HasLines(v, source) == v = 9 => \A k \in DOMAIN source : source[k].line # NoLine

(* Handlers.                                                                *)
Handlers == {[start |-> s, length |-> l, target |-> t, depth |-> d, lasti |-> b] :
                s \in {0, 17}, l \in {1, 3, 4}, t \in {5, 64}, d \in {0, 2}, b \in BOOLEAN}

Tables == {<<h>> : h \in Handlers} \cup {<<h, g>> : h \in Handlers, g \in {h \in Handlers : h.length = 4 /\ h.lasti /\ h.depth = 2}}

MCHosts == {9, 11, 12, 14}

MCCodes ==
    UNION {{Assemble(v, source, 1, << >>, 0) : source \in {s \in OneEach \cup Leaps : Fits(v, s)}} : v \in Versions}
    \cup UNION {{Assemble(v, source, first, << >>, 0) : first \in {1, 20}, source \in {s \in Lined : HasLines(v, s)}} : v \in Versions}
    \cup {Assemble(v, <<Nop>>, 1, table, cut) : v \in {11}, table \in Tables, cut \in 0 .. 4}

LaterHosts == 11 .. 14

(* Some of the instructions of 3.9, for a host whose opcodes have other     *)
(* numbers.                                                                 *)
OldCodes == {Assemble(9, <<ins, Nop>>, 1, << >>, 0) : ins \in {s \in Singles : s.kind \in {"const", "name", "global", "compare", "call"}}}
==============================================================================
