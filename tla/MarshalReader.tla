---------------------------- MODULE MarshalReader ----------------------------
(***************************************************************************)
(* loader.py: MarshalParser, the reader of the data that follow the header  *)
(* of a .pyc file written by another Python version.                        *)
(*                                                                          *)
(* load() calls itself for every part of an object.  The calls that are     *)
(* open are the frames of a stack here, and a step is one call that finds   *)
(* its type byte, or one that has all its parts and returns.                *)
(*                                                                          *)
(* The data are a sequence of tokens: a type byte, its 0x80 flag, and what  *)
(* load() reads in one go after it (a size, an index, the bytes of a        *)
(* number or a string, the integers of a code object).  Data cut off inside *)
(* a token are data without it, for _read() raises before it gives          *)
(* anything.  Sizes and indexes are not negative, as a writer has them.     *)
(*                                                                          *)
(* An object is its place in heap, as it is an address in Python: two       *)
(* parts that are one object have one place.                                *)
(***************************************************************************)
EXTENDS Integers, Sequences

CONSTANTS Data,              \* the sequences of tokens that may be in the file
          SlicesHash         \* the host is 3.12 or later, where a slice has a hash

Sized      == {"tuple", "list", "set", "frozenset"}
Containers == Sized \cup {"slice", "dict", "code"}
Types      == Containers \cup {"none", "null", "atom", "ref", "unsupported"}

(* The type bytes of one kind are one type: "(" and ")" are tuples, "atom"  *)
(* stands for the numbers, strings, True, False, Ellipsis and               *)
(* StopIteration.  n is the size of a container or the index of a           *)
(* reference, atom the bytes of an atom.                                    *)
Token == [type : Types, flag : BOOLEAN, n : Nat, atom : Seq(Nat)]

ASSUME DataAssumption   == Data \subseteq Seq(Token)
ASSUME VersionAssumption == SlicesHash \in BOOLEAN

VARIABLES new_layout,        \* self.target_version >= (3, 11)
          data,              \* self.data
          offset,            \* self.offset, in tokens
          refs,              \* self.refs
          heap,              \* the objects made so far
          frames,            \* the calls of load() that are open, outermost first
          status,            \* "reading", "returned" or the exception raised
          result             \* what the outermost load() returned

vars == <<new_layout, data, offset, refs, heap, frames, status, result>>

-----------------------------------------------------------------------------
(* Objects.  None and _MARSHAL_NULL exist once.                             *)

Node == [kind : Types, atom : Seq(Nat), items : Seq(Nat), hash : BOOLEAN]

Object(kind, atom, items, hash) == [kind |-> kind, atom |-> atom, items |-> items, hash |-> hash]

None == 1
Null == 2
Singletons == <<Object("none", << >>, << >>, TRUE), Object("null", << >>, << >>, TRUE)>>

(* Whether Python can put an object of this kind with these parts in a set. *)
Hashes(kind, items) ==
    CASE kind \in {"list", "set", "dict"} -> FALSE
      [] kind = "slice" -> SlicesHash
      [] kind = "tuple" -> \A i \in DOMAIN items : heap[items[i]].hash
      [] OTHER -> TRUE

(* A code object of 3.11 and later has one table of local names, and one    *)
(* byte for each name that says what the name is.                           *)
Fields ==
    IF new_layout
    THEN <<"co_code", "co_consts", "co_names", "localsplusnames", "localspluskinds",
           "co_filename", "co_name", "co_qualname", "co_linetable", "co_exceptiontable">>
    ELSE <<"co_code", "co_consts", "co_names", "co_varnames", "co_freevars", "co_cellvars",
           "co_filename", "co_name", "co_linetable">>

Field(parts, name) == parts[CHOOSE i \in DOMAIN Fields : Fields[i] = name]

TupleFields == {"co_consts", "co_names", "localsplusnames", "co_varnames", "co_freevars", "co_cellvars"}
TextFields  == {"co_filename", "co_name", "co_qualname"}

(* The parts have the types a writer gives them.  _names() and _bytes()     *)
(* raise on some others and make something of the rest.                     *)
Ordinary(parts) ==
    \A i \in DOMAIN Fields :
        Fields[i] \notin TextFields =>
            heap[parts[i]].kind = IF Fields[i] \in TupleFields THEN "tuple" ELSE "atom"

-----------------------------------------------------------------------------
(* The calls that are open.  slot is the index _reserve_ref() gave, counted *)
(* from 1, and 0 when the type byte has no flag; parts is what the calls    *)
(* inside it have returned.                                                 *)

Frame == [kind : Containers, slot : Nat, size : Nat, parts : Seq(Nat)]

Top == frames[Len(frames)]

(* A slip: a dict ends at a key None.                                       *)
FullAtNone(f) ==
    IF f.kind = "dict"
    THEN Len(f.parts) % 2 = 1 /\ f.parts[Len(f.parts)] \in {None, Null}
    ELSE Len(f.parts) = f.size

(* A dict has no size: a NULL where a key should be ends it.                *)
Full(f) ==
    IF f.kind = "dict"
    THEN Len(f.parts) % 2 = 1 /\ f.parts[Len(f.parts)] = Null
    ELSE Len(f.parts) = f.size

(* The hash of a set's items is needed when all have been read, that of a   *)
(* dict's key as soon as its value has.                                     *)
Unhashable(f) ==
    \/ f.kind \in {"set", "frozenset"} /\ Full(f) /\ \E i \in DOMAIN f.parts : ~heap[f.parts[i]].hash
    \/ f.kind = "dict" /\ Len(f.parts) % 2 = 0 /\ f.parts # << >> /\ ~heap[f.parts[Len(f.parts) - 1]].hash

Calls   == status = "reading" /\ frames # << >>
Loading == status = "reading" /\ (frames # << >> => ~Full(Top) /\ ~Unhashable(Top))
Here    == data[offset + 1]

Finds(types) == Loading /\ offset < Len(data) /\ Here.type \in types

(* load() returns an object to the call in outer that is open innermost.    *)
Return(outer, object) ==
    IF outer = << >>
    THEN /\ frames' = outer
         /\ status' = "returned"
         /\ result' = object
    ELSE /\ frames' = [outer EXCEPT ![Len(outer)].parts = Append(@, object)]
         /\ UNCHANGED <<status, result>>

Raise(exception) ==
    /\ status' = exception
    /\ UNCHANGED <<new_layout, data, offset, refs, heap, frames, result>>

-----------------------------------------------------------------------------
Fresh ==
    /\ offset = 0
    /\ refs = << >>
    /\ heap = Singletons
    /\ frames = << >>
    /\ status = "reading"
    /\ result = None

Init == new_layout \in BOOLEAN /\ data \in Data /\ Fresh

(* _read() asks for more than there is.                                     *)
EndOfData == Loading /\ offset >= Len(data) /\ Raise("EOFError")

UnknownType == Finds({"unsupported"}) /\ Raise("ValueError")

(* TYPE_REF: the object of an index, or the None that holds its place.      *)
LoadReference ==
    /\ Finds({"ref"})
    /\ Here.n < Len(refs)
    /\ Return(frames, refs[Here.n + 1])
    /\ offset' = offset + 1
    /\ UNCHANGED <<new_layout, data, refs, heap>>

UnknownReference == Finds({"ref"}) /\ Here.n >= Len(refs) /\ Raise("IndexError")

(* Slips: a container takes no place until it is complete; a place that    *)
(* holds None is taken again.                                               *)
KeptWhenMade(object) == IF Here.flag /\ object # None THEN Append(refs, object) ELSE refs
KeptInFreePlace(object) ==
    IF Here.flag /\ ~(\E s \in DOMAIN refs : refs[s] = None) THEN Append(refs, object) ELSE refs

Kept(object) == IF Here.flag THEN Append(refs, object) ELSE refs

LoadSingleton ==
    /\ Finds({"none", "null"})
    /\ LET object == IF Here.type = "none" THEN None ELSE Null
       IN  Return(frames, object) /\ refs' = Kept(object)
    /\ offset' = offset + 1
    /\ UNCHANGED <<new_layout, data, heap>>

LoadAtom ==
    /\ Finds({"atom"})
    /\ heap' = Append(heap, Object("atom", Here.atom, << >>, TRUE))
    /\ Return(frames, Len(heap) + 1)
    /\ refs' = Kept(Len(heap) + 1)
    /\ offset' = offset + 1
    /\ UNCHANGED <<new_layout, data>>

(* The calls a container makes for its parts, after its index is reserved.  *)
SizeOf(token) ==
    CASE token.type = "slice" -> 3
      [] token.type = "code"  -> Len(Fields)
      [] token.type = "dict"  -> 0
      [] OTHER                -> token.n

OpenContainer ==
    /\ Finds(Containers)
    /\ refs' = Kept(None)
    /\ frames' = Append(frames, [kind  |-> Here.type,
                                 slot  |-> IF Here.flag THEN Len(refs) + 1 ELSE 0,
                                 size  |-> SizeOf(Here),
                                 parts |-> << >>])
    /\ offset' = offset + 1
    /\ UNCHANGED <<new_layout, data, heap, status, result>>

(* A container has all its parts: it is made, put in the place reserved for *)
(* it, and returned.                                                        *)
Contents(f) == IF f.kind = "dict" THEN SubSeq(f.parts, 1, Len(f.parts) - 1) ELSE f.parts

(* A slip: the place taken last is filled.                                  *)
PlacedLast(f, object) == IF f.slot = 0 THEN refs ELSE [refs EXCEPT ![Len(refs)] = object]

Placed(f, object) == IF f.slot = 0 THEN refs ELSE [refs EXCEPT ![f.slot] = object]

CloseContainer ==
    /\ Calls
    /\ Full(Top) /\ ~Unhashable(Top)
    /\ heap' = Append(heap, Object(Top.kind, << >>, Contents(Top), Hashes(Top.kind, Contents(Top))))
    /\ refs' = Placed(Top, Len(heap) + 1)
    /\ Return(SubSeq(frames, 1, Len(frames) - 1), Len(heap) + 1)
    /\ UNCHANGED <<new_layout, data, offset>>

(* set(), a dict's assignment, and the conversions of a code object's parts *)
(* raise a TypeError (or a ValueError: the caller does not tell).           *)
RefuseParts ==
    /\ Calls
    /\ \/ Unhashable(Top)
       \/ Top.kind = "code" /\ Full(Top) /\ ~Ordinary(Top.parts)
    /\ Raise("TypeError")

Next ==
    \/ EndOfData
    \/ UnknownType
    \/ LoadReference
    \/ UnknownReference
    \/ LoadSingleton
    \/ LoadAtom
    \/ OpenContainer
    \/ CloseContainer
    \/ RefuseParts

Spec == Init /\ [][Next]_vars /\ WF_vars(Next)

Outcomes == {"reading", "returned", "EOFError", "ValueError", "IndexError", "TypeError"}

-----------------------------------------------------------------------------
(* The attributes of a code object that has been read, and the table the    *)
(* decoder (decode._Resolver) looks the arguments of LOAD_FAST and of       *)
(* LOAD_DEREF up in.                                                        *)

LOCAL_BIT == 32
CELL_BIT  == 64
FREE_BIT  == 128

Has(byte, bit) == (byte \div bit) % 2 = 1

Names(h, code, name) == h[Field(h[code].items, name)].items

(* What a sequence has at some places, in order.                            *)
Chosen(s, places) ==
    LET upto[n \in Nat] == IF n = 0 THEN << >>
                           ELSE IF n \in places THEN Append(upto[n - 1], s[n]) ELSE upto[n - 1]
    IN  upto[Len(s)]

(* The names whose kind has a bit, in the order of the table.               *)
OfKind(h, code, bit) ==
    LET names == Names(h, code, "localsplusnames")
        kinds == h[Field(h[code].items, "localspluskinds")].atom
    IN  Chosen(names, {i \in DOMAIN names \cap DOMAIN kinds : Has(kinds[i], bit)})

Varnames(h, code) == IF new_layout THEN OfKind(h, code, LOCAL_BIT) ELSE Names(h, code, "co_varnames")
Cellvars(h, code) == IF new_layout THEN OfKind(h, code, CELL_BIT)  ELSE Names(h, code, "co_cellvars")
Freevars(h, code) == IF new_layout THEN OfKind(h, code, FREE_BIT)  ELSE Names(h, code, "co_freevars")

(* Names are compared as text.                                              *)
In(h, names, name) == \E i \in DOMAIN names : h[names[i]].atom = h[name].atom

(* A slip: a cell that is an argument is listed twice.                      *)
EveryCell(h, code) == Cellvars(h, code)

OnlyCells(h, code) ==
    LET cells == Cellvars(h, code)
    IN  Chosen(cells, {i \in DOMAIN cells : ~In(h, Varnames(h, code), cells[i])})

FastTable(h, code) ==
    IF new_layout
    THEN Varnames(h, code) \o OnlyCells(h, code) \o Freevars(h, code)
    ELSE Varnames(h, code)
FreeTable(h, code) ==
    IF new_layout
    THEN FastTable(h, code)
    ELSE Cellvars(h, code) \o Freevars(h, code)

-----------------------------------------------------------------------------
(* Properties.                                                              *)

(* Every part, reference and result is an object that exists, and every     *)
(* open call has its place in refs.                                         *)
Made == 1 .. Len(heap)

TypeOK ==
    /\ new_layout \in BOOLEAN
    /\ data \in Seq(Token)
    /\ offset \in 0 .. Len(data)
    /\ heap \in Seq(Node)
    /\ \A o \in Made : \A i \in DOMAIN heap[o].items : heap[o].items[i] < o
    /\ refs \in Seq(Made)
    /\ frames \in Seq(Frame)
    /\ \A k \in DOMAIN frames :
          /\ frames[k].slot \in 0 .. Len(refs)
          /\ \A i \in DOMAIN frames[k].parts : frames[k].parts[i] \in Made
    /\ status \in Outcomes
    /\ result \in Made

(* No two calls share a place in refs, and an inner call's place comes      *)
(* after an outer one's: the order in which the writer numbered them.       *)
SlotsNest ==
    \A j, k \in DOMAIN frames :
        j < k /\ frames[j].slot # 0 /\ frames[k].slot # 0 => frames[j].slot < frames[k].slot

Open == {frames[k].slot : k \in DOMAIN frames} \ {0}

(* An index, once its object is complete, names that object for ever.       *)
FinishedStay ==
    [][\A s \in DOMAIN refs :
          s \notin Open => s \in DOMAIN refs' /\ refs'[s] = refs[s]]_vars
==============================================================================
