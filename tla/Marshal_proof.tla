--------------------------- MODULE Marshal_proof ---------------------------
(***************************************************************************)
(* Proofs about the reader (MarshalReader.tla): first for every sequence   *)
(* of tokens, made by a writer or not, and for both layouts of a code      *)
(* object; then on data that a writer made (MarshalRoundTrip.tla), for any *)
(* graphs, whole or cut short.                                             *)
(***************************************************************************)
EXTENDS MarshalRoundTrip, Induction, SequenceTheorems

-----------------------------------------------------------------------------
(* Sequences: adding an element, and taking the last ones off.              *)

LEMMA Appended ==
    ASSUME NEW S, NEW s \in Seq(S), NEW x \in S
    PROVE  /\ Append(s, x) \in Seq(S)
           /\ Len(Append(s, x)) = Len(s) + 1
           /\ Len(s) \in Nat
           /\ DOMAIN s = 1 .. Len(s)
           /\ DOMAIN Append(s, x) = 1 .. Len(s) + 1
           /\ \A i \in 1 .. Len(s) : Append(s, x)[i] = s[i]
           /\ Append(s, x)[Len(s) + 1] = x
BY AppendProperties, LenProperties

LEMMA Prefix ==
    ASSUME NEW S, NEW s \in Seq(S), s # << >>
    PROVE  LET front == SubSeq(s, 1, Len(s) - 1)
           IN  /\ front \in Seq(S)
               /\ Len(front) = Len(s) - 1
               /\ Len(s) \in Nat \ {0}
               /\ DOMAIN s = 1 .. Len(s)
               /\ DOMAIN front = 1 .. Len(s) - 1
               /\ \A i \in 1 .. Len(s) - 1 : front[i] = s[i]
<1> DEFINE n == Len(s) - 1
           front == SubSeq(s, 1, n)
<1>1. Len(s) \in Nat \ {0} /\ DOMAIN s = 1 .. Len(s)
  BY EmptySeq, LenProperties
<1>2. \A i \in 1 .. n : s[i] \in S
  BY <1>1, ElementOfSeq
<1>3. n \in 0 .. Len(s)
  BY <1>1
<1> HIDE DEF n
<1>4. /\ front \in Seq(S)
      /\ Len(front) = IF 1 <= n THEN n - 1 + 1 ELSE 0
      /\ \A i \in 1 .. n - 1 + 1 : front[i] = s[1 + i - 1]
  BY <1>2, <1>3, SubSeqProperties
<1>5. /\ front \in Seq(S)
      /\ Len(front) = n
      /\ \A i \in 1 .. n : front[i] = s[i]
  BY <1>3, <1>4
<1>6. DOMAIN front = 1 .. n
  BY <1>5, LenProperties
<1> QED
  BY <1>1, <1>5, <1>6 DEF n

LEMMA OfElements ==
    ASSUME NEW S, NEW T, NEW s \in Seq(S), \A i \in DOMAIN s : s[i] \in T
    PROVE  s \in Seq(T)
BY LenProperties, IsASeq

-----------------------------------------------------------------------------
(* Frames whose places exist and whose parts have been made.                *)

Placeable(calls, places, made) ==
    /\ calls \in Seq(Frame)
    /\ \A k \in DOMAIN calls :
          /\ calls[k].slot \in 0 .. places
          /\ \A i \in DOMAIN calls[k].parts : calls[k].parts[i] \in 1 .. made

LEMMA MorePlaces ==
    ASSUME NEW calls, NEW p \in Nat, NEW m \in Nat, Placeable(calls, p, m),
           NEW q \in Nat, NEW n \in Nat, p <= q, m <= n
    PROVE  Placeable(calls, q, n)
<1>1. /\ \A x \in 0 .. p : x \in 0 .. q
      /\ \A x \in 1 .. m : x \in 1 .. n
  OBVIOUS
<1> QED
  BY <1>1, Zenon DEF Placeable

(* What load() does to the call it returns to.                              *)
LEMMA Returned ==
    ASSUME NEW outer, NEW p \in Nat, NEW m \in Nat, Placeable(outer, p, m),
           NEW object \in 1 .. m, Return(outer, object),
           status \in Outcomes, result \in 1 .. m
    PROVE  /\ Placeable(frames', p, m)
           /\ DOMAIN frames' = DOMAIN outer
           /\ \A k \in DOMAIN outer : frames'[k].slot = outer[k].slot
           /\ status' \in Outcomes
           /\ result' \in 1 .. m
<1>1. CASE outer = << >>
  BY <1>1 DEF Return, Outcomes
<1>2. CASE outer # << >>
  <2> DEFINE last == Len(outer)
             new  == [outer[last] EXCEPT !.parts = Append(@, object)]
  <2>1. /\ outer \in Seq(Frame)
        /\ DOMAIN outer = 1 .. last
        /\ last \in DOMAIN outer
        /\ outer[last] \in Frame
    <3>1. outer \in Seq(Frame)
      BY DEF Placeable
    <3> QED
      BY <1>2, <3>1, EmptySeq, LenProperties, ElementOfSeq
  <2>2. /\ frames' = [outer EXCEPT ![last] = new]
        /\ status' = status /\ result' = result
    BY <1>2 DEF Return
  <2>3. outer[last].parts \in Seq(Nat)
    BY <2>1 DEF Frame
  <2>4. /\ Append(outer[last].parts, object) \in Seq(Nat)
        /\ \A i \in DOMAIN Append(outer[last].parts, object) :
              Append(outer[last].parts, object)[i] \in 1 .. m
    <3>1. object \in Nat
      OBVIOUS
    <3>2. \A i \in DOMAIN outer[last].parts : outer[last].parts[i] \in 1 .. m
      BY <2>1 DEF Placeable
    <3> QED
      BY <2>3, <3>1, <3>2, Appended, SMTT(30)
  <2>5. /\ new \in Frame
        /\ new.slot = outer[last].slot
        /\ new.parts = Append(outer[last].parts, object)
    BY <2>1, <2>4 DEF Frame
  <2> HIDE DEF new
  <2>6. /\ frames' \in Seq(Frame)
        /\ DOMAIN frames' = DOMAIN outer
        /\ \A k \in DOMAIN outer : frames'[k] = IF k = last THEN new ELSE outer[k]
    BY <2>1, <2>2, <2>5, ExceptSeq
  <2> HIDE DEF last
  <2>7. \A k \in DOMAIN outer : frames'[k].slot = outer[k].slot
    BY <2>5, <2>6
  <2>8. Placeable(frames', p, m)
    BY <2>4, <2>5, <2>6 DEF Placeable
  <2> QED
    BY <2>2, <2>6, <2>7, <2>8
<1> QED
  BY <1>1, <1>2

-----------------------------------------------------------------------------
(* Objects.                                                                 *)

Objects(objects) ==
    /\ objects \in Seq(Node)
    /\ \A o \in 1 .. Len(objects) : \A i \in DOMAIN objects[o].items : objects[o].items[i] \in 1 .. o - 1

LEMMA MadeObject ==
    ASSUME NEW objects, Objects(objects), NEW kind \in Types, NEW atom \in Seq(Nat), NEW items \in Seq(Nat),
           \A i \in DOMAIN items : items[i] \in 1 .. Len(objects), NEW hash \in BOOLEAN
    PROVE  LET more == Append(objects, Object(kind, atom, items, hash))
           IN  /\ Objects(more)
               /\ Len(objects) \in Nat
               /\ Len(more) = Len(objects) + 1
<1> DEFINE object == Object(kind, atom, items, hash)
           more   == Append(objects, object)
<1>1. object \in Node /\ object.items = items
  BY DEF Object, Node
<1> HIDE DEF object
<1>2. /\ more \in Seq(Node)
      /\ Len(more) = Len(objects) + 1
      /\ Len(objects) \in Nat
      /\ \A o \in 1 .. Len(objects) : more[o] = objects[o]
      /\ more[Len(objects) + 1] = object
  BY <1>1, Appended DEF Objects
<1>3. ASSUME NEW o \in 1 .. Len(more), NEW i \in DOMAIN more[o].items
      PROVE  more[o].items[i] \in 1 .. o - 1
  <2>1. CASE o = Len(objects) + 1
    BY <1>1, <1>2, <2>1
  <2>2. CASE o # Len(objects) + 1
    <3>1. o \in 1 .. Len(objects)
      BY <1>2, <2>2
    <3> QED
      BY <1>2, <3>1 DEF Objects
  <2> QED
    BY <2>1, <2>2
<1> QED
  BY <1>2, <1>3 DEF Objects, object

(* The type invariant, as what it says of the parts of the state.           *)
Typed ==
    /\ new_layout \in BOOLEAN
    /\ data \in Seq(Token)
    /\ offset \in 0 .. Len(data)
    /\ Objects(heap)
    /\ Len(heap) \in Nat \ {0, 1}
    /\ Len(refs) \in Nat
    /\ refs \in Seq(1 .. Len(heap))
    /\ Placeable(frames, Len(refs), Len(heap))
    /\ status \in Outcomes
    /\ result \in 1 .. Len(heap)

LEMMA TypedImpliesTypeOK == Typed => TypeOK
<1> SUFFICES ASSUME Typed PROVE TypeOK
  OBVIOUS
<1>1. \A o \in 1 .. Len(heap) : \A i \in DOMAIN heap[o].items : heap[o].items[i] < o
  BY DEF Typed, Objects
<1> QED
  BY <1>1 DEF Typed, TypeOK, Made, Objects, Placeable

LEMMA FreshTyped ==
    ASSUME Fresh, new_layout \in BOOLEAN, data \in Seq(Token)
    PROVE  Typed
<1> USE DEF Fresh
<1>1. Len(data) \in Nat
  BY LenProperties
<1>2. << >> \in Seq(Nat)
  BY EmptySeq
<1> DEFINE none == Object("none", << >>, << >>, TRUE)
           null == Object("null", << >>, << >>, TRUE)
<1>3. /\ none \in Node /\ none.items = << >>
      /\ null \in Node /\ null.items = << >>
  BY <1>2 DEF Object, Node, Types
<1>4. /\ Singletons \in Seq(Node)
      /\ Len(Singletons) = 2
      /\ \A o \in 1 .. 2 : Singletons[o].items = << >>
  <2>1. Singletons = <<none, null>>
    BY DEF Singletons
  <2> HIDE DEF none, null
  <2> QED
    BY <1>3, <2>1
<1>5. Objects(heap)
  BY <1>4 DEF Objects
<1>6. /\ refs \in Seq(1 .. Len(heap))
      /\ Len(refs) = 0
      /\ Placeable(frames, Len(refs), Len(heap))
  BY EmptySeq DEF Placeable
<1> QED
  BY <1>1, <1>4, <1>5, <1>6 DEF Typed, Outcomes, None

LEMMA InitTyped == Init => Typed
BY FreshTyped, DataAssumption DEF Init

LEMMA TokenFacts ==
    ASSUME Typed, offset < Len(data)
    PROVE  /\ Here \in Token
           /\ offset + 1 \in 0 .. Len(data)
<1>1. data \in Seq(Token) /\ Len(data) \in Nat
  BY LenProperties DEF Typed
<1> QED
  BY <1>1, ElementOfSeq DEF Typed, Here

(* A larger heap leaves what was typed typed.                               *)
LEMMA KeptTyped ==
    ASSUME Typed, Here \in Token, NEW m \in Nat, Len(heap) <= m, NEW object \in 1 .. m
    PROVE  /\ refs \in Seq(1 .. m)
           /\ Kept(object) \in Seq(1 .. m)
           /\ Len(Kept(object)) \in Nat
           /\ Len(Kept(object)) = IF Here.flag THEN Len(refs) + 1 ELSE Len(refs)
           /\ Len(refs) <= Len(Kept(object))
           /\ \A s \in DOMAIN refs : s \in DOMAIN Kept(object) /\ Kept(object)[s] = refs[s]
<1>1. refs \in Seq(1 .. m)
  <2>1. \A s \in DOMAIN refs : refs[s] \in 1 .. m
    <3>1. \A s \in DOMAIN refs : refs[s] \in 1 .. Len(heap)
      BY LenProperties, ElementOfSeq DEF Typed
    <3> QED
      BY <3>1 DEF Typed
  <2> QED
    BY <2>1, OfElements DEF Typed
<1>2. /\ Append(refs, object) \in Seq(1 .. m)
      /\ Len(Append(refs, object)) = Len(refs) + 1
      /\ \A s \in DOMAIN refs : s \in DOMAIN Append(refs, object) /\ Append(refs, object)[s] = refs[s]
  BY <1>1, Appended
<1>3. Len(refs) \in Nat
  BY DEF Typed
<1>4. CASE Here.flag
  <2>1. Kept(object) = Append(refs, object)
    BY <1>4 DEF Kept
  <2>2. Len(refs) + 1 \in Nat /\ Len(refs) <= Len(refs) + 1
    BY <1>3
  <2> QED
    BY <1>1, <1>2, <1>4, <2>1, <2>2, Zenon
<1>5. CASE ~Here.flag
  <2>1. Kept(object) = refs
    BY <1>5 DEF Kept
  <2>2. Len(refs) <= Len(refs)
    BY <1>3
  <2> QED
    BY <1>1, <1>3, <1>5, <2>1, <2>2, Zenon
<1> QED
  BY <1>4, <1>5

-----------------------------------------------------------------------------
(* One lemma for each action: the type invariant is kept, and what happens  *)
(* to the places in refs and to the calls.                                  *)

LEMMA RaiseStep ==
    ASSUME Typed, EndOfData \/ UnknownType \/ UnknownReference \/ RefuseParts
    PROVE  Typed' /\ refs' = refs /\ frames' = frames
<1>1. /\ UNCHANGED <<new_layout, data, offset, refs, heap, frames, result>>
      /\ status' \in Outcomes
  BY DEF EndOfData, UnknownType, UnknownReference, RefuseParts, Raise, Outcomes
<1> QED
  BY <1>1 DEF Typed, Objects, Placeable

SameCalls ==
    /\ DOMAIN frames' = DOMAIN frames
    /\ \A k \in DOMAIN frames : frames'[k].slot = frames[k].slot

PlacesKept == \A s \in DOMAIN refs : s \in DOMAIN refs' /\ refs'[s] = refs[s]

LEMMA ReferenceStep ==
    ASSUME Typed, LoadReference
    PROVE  Typed' /\ SameCalls /\ PlacesKept
<1> DEFINE object == refs[Here.n + 1]
<1>1. /\ offset < Len(data) /\ Here.n < Len(refs)
      /\ Return(frames, object)
      /\ offset' = offset + 1
      /\ UNCHANGED <<new_layout, data, refs, heap>>
  BY DEF LoadReference, Finds
<1>2. Here \in Token /\ offset' \in 0 .. Len(data')
  BY <1>1, TokenFacts
<1>3. object \in 1 .. Len(heap)
  <2>1. Here.n + 1 \in 1 .. Len(refs)
    <3>1. Here.n \in Nat
      BY <1>2 DEF Token
    <3>2. Len(refs) \in Nat
      BY DEF Typed
    <3> QED
      BY <1>1, <3>1, <3>2
  <2> QED
    BY <2>1, ElementOfSeq DEF Typed
<1> HIDE DEF object
<1>4. /\ Placeable(frames', Len(refs), Len(heap))
      /\ DOMAIN frames' = DOMAIN frames
      /\ \A k \in DOMAIN frames : frames'[k].slot = frames[k].slot
      /\ status' \in Outcomes
      /\ result' \in 1 .. Len(heap)
  BY <1>1, <1>3, Returned DEF Typed
<1>5. Typed'
  BY <1>1, <1>2, <1>4 DEF Typed, Objects, Placeable
<1> QED
  BY <1>1, <1>4, <1>5 DEF SameCalls, PlacesKept

LEMMA SingletonStep ==
    ASSUME Typed, LoadSingleton
    PROVE  Typed' /\ SameCalls /\ PlacesKept
<1>1. PICK object \in {None, Null} :
         /\ offset < Len(data)
         /\ Return(frames, object) /\ refs' = Kept(object)
         /\ offset' = offset + 1
         /\ UNCHANGED <<new_layout, data, heap>>
  BY DEF LoadSingleton, Finds
<1>2. Here \in Token /\ offset' \in 0 .. Len(data')
  BY <1>1, TokenFacts
<1>3. object \in 1 .. Len(heap) /\ Len(heap) \in Nat
  <2>1. Len(heap) \in Nat \ {0, 1}
    BY DEF Typed
  <2>2. object \in {1, 2}
    BY DEF None, Null
  <2> QED
    BY <2>1, <2>2
<1>4. /\ refs' \in Seq(1 .. Len(heap))
      /\ Len(refs') \in Nat /\ Len(refs) <= Len(refs')
      /\ PlacesKept
  <2>1. Len(heap) <= Len(heap)
    BY <1>3
  <2>2. /\ Kept(object) \in Seq(1 .. Len(heap))
        /\ Len(Kept(object)) \in Nat /\ Len(refs) <= Len(Kept(object))
        /\ \A s \in DOMAIN refs : s \in DOMAIN Kept(object) /\ Kept(object)[s] = refs[s]
    BY <1>2, <1>3, <2>1, KeptTyped
  <2> QED
    BY <1>1, <2>2, Zenon DEF PlacesKept
<1>5. /\ Placeable(frames', Len(refs), Len(heap))
      /\ SameCalls
      /\ status' \in Outcomes
      /\ result' \in 1 .. Len(heap)
  BY <1>1, <1>3, Returned DEF Typed, SameCalls
<1>6. Placeable(frames', Len(refs'), Len(heap))
  BY <1>3, <1>4, <1>5, MorePlaces DEF Typed
<1>7. Typed'
  BY <1>1, <1>2, <1>4, <1>5, <1>6 DEF Typed, Objects, Placeable
<1> QED
  BY <1>4, <1>5, <1>7

LEMMA AtomStep ==
    ASSUME Typed, LoadAtom
    PROVE  Typed' /\ SameCalls /\ PlacesKept
<1> DEFINE made == Len(heap) + 1
<1>1. /\ offset < Len(data)
      /\ heap' = Append(heap, Object("atom", Here.atom, << >>, TRUE))
      /\ Return(frames, made)
      /\ refs' = Kept(made)
      /\ offset' = offset + 1
      /\ UNCHANGED <<new_layout, data>>
  BY DEF LoadAtom, Finds
<1>2. Here \in Token /\ offset' \in 0 .. Len(data')
  BY <1>1, TokenFacts
<1>3. Objects(heap') /\ Len(heap') = made /\ made \in Nat \ {0, 1} /\ Len(heap) <= made
  <2>1. Here.atom \in Seq(Nat) /\ << >> \in Seq(Nat) /\ "atom" \in Types
    BY <1>2, EmptySeq DEF Token, Types
  <2>2. \A i \in DOMAIN << >> : << >>[i] \in 1 .. Len(heap)
    OBVIOUS
  <2>3. Objects(heap) /\ Len(heap) \in Nat \ {0, 1}
    BY DEF Typed
  <2>4. Objects(heap') /\ Len(heap') = Len(heap) + 1
    BY <1>1, <2>1, <2>2, <2>3, MadeObject
  <2> QED
    BY <2>3, <2>4
<1> HIDE DEF made
<1>4. /\ refs' \in Seq(1 .. made)
      /\ Len(refs') \in Nat /\ Len(refs) <= Len(refs')
      /\ PlacesKept
  <2>1. made \in 1 .. made /\ made \in Nat
    BY <1>3
  <2>2. /\ Kept(made) \in Seq(1 .. made)
        /\ Len(Kept(made)) \in Nat /\ Len(refs) <= Len(Kept(made))
        /\ \A s \in DOMAIN refs : s \in DOMAIN Kept(made) /\ Kept(made)[s] = refs[s]
    BY <1>2, <1>3, <2>1, KeptTyped
  <2> QED
    BY <1>1, <2>2, Zenon DEF PlacesKept
<1>5. /\ Placeable(frames, Len(refs), made)
      /\ result \in 1 .. made
      /\ made \in 1 .. made
  BY <1>3, MorePlaces DEF Typed
<1>6. /\ Placeable(frames', Len(refs), made)
      /\ SameCalls
      /\ status' \in Outcomes
      /\ result' \in 1 .. made
  BY <1>1, <1>3, <1>5, Returned DEF Typed, SameCalls
<1>7. Placeable(frames', Len(refs'), made)
  BY <1>3, <1>4, <1>6, MorePlaces DEF Typed
<1>8. Typed'
  BY <1>1, <1>2, <1>3, <1>4, <1>6, <1>7 DEF Typed, Objects, Placeable
<1> QED
  BY <1>4, <1>6, <1>8

LEMMA Sizes ==
    ASSUME Here \in Token
    PROVE  SizeOf(Here) \in Nat
<1>1. Len(Fields) \in Nat
  <2>1. CASE new_layout
    BY <2>1 DEF Fields
  <2>2. CASE ~new_layout
    BY <2>2 DEF Fields
  <2> QED
    BY <2>1, <2>2
<1>2. Here.n \in Nat
  BY DEF Token
<1> QED
  BY <1>1, <1>2 DEF SizeOf

LEMMA OpenStep ==
    ASSUME Typed, OpenContainer
    PROVE  /\ Typed' /\ PlacesKept
           /\ DOMAIN frames' = 1 .. Len(frames) + 1
           /\ DOMAIN frames = 1 .. Len(frames) /\ Len(frames) \in Nat
           /\ \A k \in DOMAIN frames : frames'[k].slot = frames[k].slot
           /\ frames'[Len(frames) + 1].slot \in {0, Len(refs) + 1}
<1> DEFINE call == [kind  |-> Here.type,
                    slot  |-> IF Here.flag THEN Len(refs) + 1 ELSE 0,
                    size  |-> SizeOf(Here),
                    parts |-> << >>]
<1>1. /\ offset < Len(data)
      /\ Here.type \in Containers
      /\ refs' = Kept(None)
      /\ frames' = Append(frames, call)
      /\ offset' = offset + 1
      /\ UNCHANGED <<new_layout, data, heap, status, result>>
  BY DEF OpenContainer, Finds
<1>2. Here \in Token /\ offset' \in 0 .. Len(data')
  BY <1>1, TokenFacts
<1>3. Len(heap) \in Nat \ {0, 1} /\ Len(refs) \in Nat
  BY DEF Typed
<1>4. /\ refs' \in Seq(1 .. Len(heap))
      /\ Len(refs') \in Nat
      /\ Len(refs') = IF Here.flag THEN Len(refs) + 1 ELSE Len(refs)
      /\ Len(refs) <= Len(refs')
      /\ PlacesKept
  <2>1. None \in 1 .. Len(heap) /\ Len(heap) <= Len(heap)
    BY <1>3 DEF None
  <2>2. /\ Kept(None) \in Seq(1 .. Len(heap))
        /\ Len(Kept(None)) \in Nat
        /\ Len(Kept(None)) = IF Here.flag THEN Len(refs) + 1 ELSE Len(refs)
        /\ Len(refs) <= Len(Kept(None))
        /\ \A s \in DOMAIN refs : s \in DOMAIN Kept(None) /\ Kept(None)[s] = refs[s]
    BY <1>2, <1>3, <2>1, KeptTyped
  <2> QED
    BY <1>1, <2>2, Zenon DEF PlacesKept
<1>5. /\ call \in Frame
      /\ call.slot \in {0, Len(refs) + 1}
      /\ call.slot \in 0 .. Len(refs')
      /\ call.parts = << >>
  <2>1. call.slot \in {0, Len(refs) + 1}
    OBVIOUS
  <2>2. call.slot \in 0 .. Len(refs')
    BY <1>3, <1>4
  <2>3. << >> \in Seq(Nat) /\ SizeOf(Here) \in Nat
    BY <1>2, EmptySeq, Sizes
  <2> QED
    BY <1>1, <1>3, <2>1, <2>2, <2>3 DEF Frame
<1> HIDE DEF call
<1>6. /\ frames' \in Seq(Frame)
      /\ DOMAIN frames' = 1 .. Len(frames) + 1
      /\ DOMAIN frames = 1 .. Len(frames) /\ Len(frames) \in Nat
      /\ \A k \in 1 .. Len(frames) : frames'[k] = frames[k]
      /\ frames'[Len(frames) + 1] = call
  BY <1>1, <1>5, Appended DEF Typed, Placeable
<1>7. Placeable(frames', Len(refs'), Len(heap))
  <2>1. Placeable(frames, Len(refs'), Len(heap))
    BY <1>3, <1>4, MorePlaces DEF Typed
  <2>2. ASSUME NEW k \in DOMAIN frames'
        PROVE  /\ frames'[k].slot \in 0 .. Len(refs')
               /\ \A i \in DOMAIN frames'[k].parts : frames'[k].parts[i] \in 1 .. Len(heap)
    <3>1. CASE k = Len(frames) + 1
      BY <1>5, <1>6, <3>1
    <3>2. CASE k # Len(frames) + 1
      <4>1. k \in DOMAIN frames /\ frames'[k] = frames[k]
        BY <1>6, <3>2
      <4> QED
        BY <2>1, <4>1 DEF Placeable
    <3> QED
      BY <3>1, <3>2
  <2> QED
    BY <1>6, <2>2 DEF Placeable
<1>8. Typed'
  BY <1>1, <1>2, <1>3, <1>4, <1>7 DEF Typed, Objects, Placeable
<1> QED
  BY <1>4, <1>5, <1>6, <1>8

LEMMA CloseStep ==
    ASSUME Typed, CloseContainer
    PROVE  /\ Typed'
           /\ DOMAIN frames = 1 .. Len(frames) /\ Len(frames) \in Nat \ {0}
           /\ DOMAIN frames' = 1 .. Len(frames) - 1
           /\ \A k \in DOMAIN frames' : frames'[k].slot = frames[k].slot
           /\ DOMAIN refs' = DOMAIN refs
           /\ \A s \in DOMAIN refs : s # Top.slot => refs'[s] = refs[s]
<1> DEFINE made  == Len(heap) + 1
           outer == SubSeq(frames, 1, Len(frames) - 1)
           items == Contents(Top)
<1>1. /\ frames # << >> /\ Full(Top)
      /\ heap' = Append(heap, Object(Top.kind, << >>, items, Hashes(Top.kind, items)))
      /\ refs' = Placed(Top, made)
      /\ Return(outer, made)
      /\ UNCHANGED <<new_layout, data, offset>>
  BY DEF CloseContainer, Calls
<1>2. /\ outer \in Seq(Frame)
      /\ Len(frames) \in Nat \ {0}
      /\ DOMAIN frames = 1 .. Len(frames)
      /\ DOMAIN outer = 1 .. Len(frames) - 1
      /\ \A k \in 1 .. Len(frames) - 1 : outer[k] = frames[k]
  <2>1. frames \in Seq(Frame)
    BY DEF Typed, Placeable
  <2> QED
    BY <1>1, <2>1, Prefix
<1>3. /\ Len(frames) \in DOMAIN frames
      /\ Top \in Frame
      /\ Top.slot \in 0 .. Len(refs)
      /\ \A i \in DOMAIN Top.parts : Top.parts[i] \in 1 .. Len(heap)
  <2>1. frames \in Seq(Frame) /\ Len(frames) \in DOMAIN frames
    BY <1>2 DEF Typed, Placeable
  <2>2. Top \in Frame
    BY <1>2, <2>1, ElementOfSeq DEF Top
  <2> QED
    BY <2>1, <2>2 DEF Typed, Placeable, Top
<1>4. /\ items \in Seq(Nat)
      /\ \A i \in DOMAIN items : items[i] \in 1 .. Len(heap)
  <2>1. Top.parts \in Seq(Nat)
    BY <1>3 DEF Frame
  <2>2. CASE Top.kind = "dict"
    <3>1. Top.parts # << >>
      <4>1. Len(Top.parts) % 2 = 1
        BY <1>1, <2>2, Zenon DEF Full
      <4>2. Len(<< >>) % 2 # 1
        BY EmptySeq
      <4> QED
        BY <4>1, <4>2, Zenon
    <3>2. items = SubSeq(Top.parts, 1, Len(Top.parts) - 1)
      BY <2>2 DEF Contents
    <3>3. /\ items \in Seq(Nat)
          /\ \A i \in DOMAIN items : i \in DOMAIN Top.parts /\ items[i] = Top.parts[i]
      BY <2>1, <3>1, <3>2, Prefix, SMTT(30)
    <3> QED
      BY <1>3, <3>3
  <2>3. CASE Top.kind # "dict"
    BY <1>3, <2>1, <2>3 DEF Contents
  <2> QED
    BY <2>2, <2>3
<1> HIDE DEF items
<1>5. Objects(heap') /\ Len(heap') = made /\ made \in Nat \ {0, 1} /\ Len(heap) <= made /\ Len(heap) \in Nat
  <2>1. Top.kind \in Types /\ << >> \in Seq(Nat)
    BY <1>3, EmptySeq DEF Frame, Containers, Types
  <2>2. Hashes(Top.kind, items) \in BOOLEAN
    BY VersionAssumption DEF Hashes
  <2>3. Objects(heap) /\ Len(heap) \in Nat \ {0, 1}
    BY DEF Typed
  <2>4. Objects(heap') /\ Len(heap') = Len(heap) + 1
    BY <1>1, <1>4, <2>1, <2>2, <2>3, MadeObject
  <2> QED
    BY <2>3, <2>4
<1> HIDE DEF made
<1>6. /\ refs' \in Seq(1 .. made)
      /\ Len(refs') = Len(refs)
      /\ DOMAIN refs' = DOMAIN refs
      /\ \A s \in DOMAIN refs : s # Top.slot => refs'[s] = refs[s]
  <2>1. refs \in Seq(1 .. made) /\ DOMAIN refs = 1 .. Len(refs)
    <3>1. refs \in Seq(1 .. Len(heap)) /\ DOMAIN refs = 1 .. Len(refs)
      BY LenProperties DEF Typed
    <3>2. \A s \in DOMAIN refs : refs[s] \in 1 .. made
      BY <1>5, <3>1, ElementOfSeq
    <3> QED
      BY <3>1, <3>2, OfElements
  <2>2. CASE Top.slot = 0
    BY <1>1, <2>1, <2>2 DEF Placed
  <2>3. CASE Top.slot # 0
    <3>1. Top.slot \in 1 .. Len(refs) /\ made \in 1 .. made
      BY <1>3, <1>5, <2>3 DEF Typed
    <3>2. refs' = [refs EXCEPT ![Top.slot] = made]
      BY <1>1, <2>3 DEF Placed
    <3>3. refs' \in Seq(1 .. made) /\ Len(refs') = Len(refs)
      BY <2>1, <3>1, <3>2, ExceptSeq
    <3> QED
      BY <3>2, <3>3
  <2> QED
    BY <2>2, <2>3
<1>7. Placeable(outer, Len(refs), made)
  <2>1. Placeable(outer, Len(refs), Len(heap))
    BY <1>2 DEF Typed, Placeable
  <2> QED
    BY <1>5, <2>1, MorePlaces DEF Typed
<1> HIDE DEF outer
<1>8. /\ Placeable(frames', Len(refs), made)
      /\ DOMAIN frames' = DOMAIN outer
      /\ \A k \in DOMAIN outer : frames'[k].slot = outer[k].slot
      /\ status' \in Outcomes
      /\ result' \in 1 .. made
  <2>1. made \in 1 .. made /\ made \in Nat /\ result \in 1 .. made /\ status \in Outcomes /\ Len(refs) \in Nat
    BY <1>5 DEF Typed
  <2> QED
    BY <1>1, <1>7, <2>1, Returned
<1>9. Typed'
  BY <1>1, <1>5, <1>6, <1>8 DEF Typed, Objects, Placeable
<1> QED
  BY <1>2, <1>6, <1>8, <1>9

-----------------------------------------------------------------------------
(* The theorems.                                                            *)

LEMMA TypedStep ==
    ASSUME Typed, [Next]_vars
    PROVE  Typed'
<1>1. CASE EndOfData \/ UnknownType \/ UnknownReference \/ RefuseParts
  BY <1>1, RaiseStep
<1>2. CASE LoadReference
  BY <1>2, ReferenceStep
<1>3. CASE LoadSingleton
  BY <1>3, SingletonStep
<1>4. CASE LoadAtom
  BY <1>4, AtomStep
<1>5. CASE OpenContainer
  BY <1>5, OpenStep
<1>6. CASE CloseContainer
  BY <1>6, CloseStep
<1>7. CASE UNCHANGED vars
  BY <1>7 DEF vars, Typed, Objects, Placeable
<1> QED
  BY <1>1, <1>2, <1>3, <1>4, <1>5, <1>6, <1>7 DEF Next

LEMMA AlwaysTyped == Spec => []Typed
<1>1. Init => Typed
  BY InitTyped
<1>2. Typed /\ [Next]_vars => Typed'
  BY TypedStep
<1> QED
  BY <1>1, <1>2, PTL DEF Spec

(* Whatever the data hold, every part of every object, every entry of refs  *)
(* and the result is an object that exists, and the calls that are open     *)
(* have their places in refs: load(), _load_inner() and _load_code().       *)
THEOREM TypeCorrect == Spec => []TypeOK
<1>1. Typed => TypeOK
  BY TypedImpliesTypeOK
<1> QED
  BY <1>1, AlwaysTyped, PTL

LEMMA SlotsNestStep ==
    ASSUME Typed, SlotsNest, [Next]_vars
    PROVE  SlotsNest'
<1>1. CASE SameCalls
  BY <1>1 DEF SameCalls, SlotsNest
<1>2. CASE OpenContainer
  <2>1. /\ DOMAIN frames' = 1 .. Len(frames) + 1
        /\ DOMAIN frames = 1 .. Len(frames) /\ Len(frames) \in Nat
        /\ \A k \in DOMAIN frames : frames'[k].slot = frames[k].slot
        /\ frames'[Len(frames) + 1].slot \in {0, Len(refs) + 1}
    BY <1>2, OpenStep
  <2>2. Len(refs) \in Nat /\ \A k \in DOMAIN frames : frames[k].slot \in 0 .. Len(refs)
    BY DEF Typed, Placeable
  <2> SUFFICES ASSUME NEW j \in DOMAIN frames', NEW k \in DOMAIN frames',
                      j < k, frames'[j].slot # 0, frames'[k].slot # 0
               PROVE  frames'[j].slot < frames'[k].slot
    BY DEF SlotsNest
  <2>3. j \in DOMAIN frames
    BY <2>1
  <2>4. CASE k \in DOMAIN frames
    BY <2>1, <2>3, <2>4 DEF SlotsNest
  <2>5. CASE k = Len(frames) + 1
    BY <2>1, <2>2, <2>3, <2>5
  <2> QED
    BY <2>1, <2>4, <2>5
<1>3. CASE CloseContainer
  <2>1. /\ DOMAIN frames = 1 .. Len(frames) /\ Len(frames) \in Nat \ {0}
        /\ DOMAIN frames' = 1 .. Len(frames) - 1
        /\ \A k \in DOMAIN frames' : frames'[k].slot = frames[k].slot
    BY <1>3, CloseStep
  <2>2. \A k \in DOMAIN frames' : k \in DOMAIN frames
    BY <2>1
  <2> QED
    BY <2>1, <2>2 DEF SlotsNest
<1>4. CASE EndOfData \/ UnknownType \/ UnknownReference \/ RefuseParts
  BY <1>1, <1>4, RaiseStep DEF SameCalls
<1>5. CASE UNCHANGED vars
  BY <1>1, <1>5 DEF vars, SameCalls
<1> QED
  BY <1>1, <1>2, <1>3, <1>4, <1>5, ReferenceStep, SingletonStep, AtomStep DEF Next

(* Open calls have places of their own, in the order in which they began,   *)
(* which is the order the writer numbered its objects in: _reserve_ref().   *)
THEOREM PlacesNest == Spec => []SlotsNest
<1>1. Init => SlotsNest
  BY DEF Init, Fresh, SlotsNest
<1>2. Typed /\ SlotsNest /\ [Next]_vars => SlotsNest'
  BY SlotsNestStep
<1> QED
  BY <1>1, <1>2, AlwaysTyped, PTL DEF Spec

LEMMA FinishedStep ==
    ASSUME Typed, [Next]_vars
    PROVE  \A s \in DOMAIN refs : s \notin Open => s \in DOMAIN refs' /\ refs'[s] = refs[s]
<1>1. CASE PlacesKept
  BY <1>1 DEF PlacesKept
<1>2. CASE CloseContainer
  <2>1. /\ DOMAIN frames = 1 .. Len(frames) /\ Len(frames) \in Nat \ {0}
        /\ DOMAIN refs' = DOMAIN refs
        /\ \A s \in DOMAIN refs : s # Top.slot => refs'[s] = refs[s]
    BY <1>2, CloseStep
  <2>2. DOMAIN refs = 1 .. Len(refs) /\ Len(refs) \in Nat
    BY LenProperties DEF Typed
  <2>3. ASSUME NEW s \in DOMAIN refs, s \notin Open
        PROVE  s # Top.slot
    <3>1. s # 0
      BY <2>2
    <3>2. Len(frames) \in DOMAIN frames
      BY <2>1
    <3> QED
      BY <2>3, <3>1, <3>2 DEF Open, Top
  <2> QED
    BY <2>1, <2>3
<1>3. CASE EndOfData \/ UnknownType \/ UnknownReference \/ RefuseParts
  BY <1>1, <1>3, RaiseStep DEF PlacesKept
<1>4. CASE UNCHANGED vars
  BY <1>1, <1>4 DEF vars, PlacesKept
<1> QED
  BY <1>1, <1>2, <1>3, <1>4, ReferenceStep, SingletonStep, AtomStep, OpenStep DEF Next

(* A reference gives the same object however late it is read: once the      *)
(* object of an index is complete, _set_ref() never changes it.             *)
THEOREM FinishedObjectsStay == Spec => FinishedStay
<1>1. Typed /\ [Next]_vars =>
          [\A s \in DOMAIN refs : s \notin Open => s \in DOMAIN refs' /\ refs'[s] = refs[s]]_vars
  BY FinishedStep
<1> QED
  BY <1>1, AlwaysTyped, PTL DEF Spec, FinishedStay

-----------------------------------------------------------------------------
(* The reader is in step with the writer.  After each of its steps there    *)
(* is a number of steps of the writer after which the two have the same     *)
(* calls open, each with as many parts (Linked), and the reader has read    *)
(* what the writer had written (Simulates).  A function, what, gives for    *)
(* every object that was made the node it was made for; that no two         *)
(* objects are for one node is what has to be shown when an object is made  *)
(* that is not shared, for the writer does not number those: each has one   *)
(* owner, and the owner's call has gone past it (OwnersFit).                *)

-----------------------------------------------------------------------------
(* What a graph says of its nodes and of their parts.                       *)

LEMMA GraphFacts ==
    ASSUME NEW graph, NEW new, IsGraph(graph, new)
    PROVE  /\ Len(graph) \in Nat \ {0}
           /\ DOMAIN graph = 1 .. Len(graph)
           /\ Root(graph) \in DOMAIN graph
           /\ \A i \in DOMAIN graph :
                 /\ i \in Nat
                 /\ graph[i] \in GraphNode
                 /\ graph[i].parts \in Seq(Nat)
                 /\ \A k \in DOMAIN graph[i].parts : graph[i].parts[k] \in 1 .. i - 1
                 /\ Writable(graph, graph[i], new)
<1>1. graph \in Seq(GraphNode) /\ graph # << >>
  BY DEF IsGraph
<1>2. Len(graph) \in Nat \ {0} /\ DOMAIN graph = 1 .. Len(graph)
  BY <1>1, EmptySeq, LenProperties
<1>3. \A i \in DOMAIN graph : graph[i] \in GraphNode
  BY <1>1, <1>2, ElementOfSeq
<1>4. \A i \in DOMAIN graph : graph[i].parts \in Seq(Nat)
  BY <1>3 DEF GraphNode
<1>5. \A i \in DOMAIN graph : (\A k \in DOMAIN graph[i].parts : graph[i].parts[k] \in 1 .. i - 1) /\ Writable(graph, graph[i], new)
  BY Zenon DEF IsGraph
<1>6. Root(graph) \in DOMAIN graph /\ \A i \in DOMAIN graph : i \in Nat
  BY <1>2 DEF Root
<1> QED
  BY <1>2, <1>3, <1>4, <1>5, <1>6, Zenon

(* What is written after the type byte of an object: its parts, and the     *)
(* NULL of a dict.                                                          *)
LEMMA PartsFacts ==
    ASSUME NEW graph, NEW new, IsGraph(graph, new), NEW i \in DOMAIN graph
    PROVE  LET own == graph[i].parts
               all == Parts(graph, i)
           IN  /\ Len(own) \in Nat /\ DOMAIN own = 1 .. Len(own)
               /\ all \in Seq(0 .. i - 1) /\ DOMAIN all = 1 .. Len(all)
               /\ Len(all) = IF graph[i].kind = "dict" THEN Len(own) + 1 ELSE Len(own)
               /\ \A k \in 1 .. Len(own) : all[k] = own[k] /\ own[k] \in 1 .. i - 1
               /\ graph[i].kind = "dict" => all[Len(own) + 1] = 0
<1> DEFINE own == graph[i].parts
           end == IF graph[i].kind = "dict" THEN <<0>> ELSE << >>
<1>1. /\ own \in Seq(Nat) /\ Len(own) \in Nat /\ DOMAIN own = 1 .. Len(own)
      /\ \A k \in 1 .. Len(own) : own[k] \in 1 .. i - 1
      /\ i \in Nat \ {0}
  BY GraphFacts, LenProperties
<1>2. Parts(graph, i) = own \o end
  BY DEF Parts
<1> HIDE DEF own
<1>3. own \in Seq(0 .. i - 1)
  <2>1. \A k \in DOMAIN own : own[k] \in 0 .. i - 1
    BY <1>1
  <2> QED
    BY <1>1, <2>1, OfElements
<1>4. /\ end \in Seq(0 .. i - 1)
      /\ Len(end) = IF graph[i].kind = "dict" THEN 1 ELSE 0
      /\ graph[i].kind = "dict" => end[1] = 0
  <2>1. CASE graph[i].kind = "dict"
    <3>1. end = <<0>>
      BY <2>1
    <3>2. 0 \in 0 .. i - 1
      BY <1>1
    <3> QED
      BY <2>1, <3>1, <3>2
  <2>2. CASE graph[i].kind # "dict"
    <3>1. end = << >>
      BY <2>2
    <3> QED
      BY <2>2, <3>1, EmptySeq
  <2> QED
    BY <2>1, <2>2
<1> HIDE DEF end
<1>5. /\ own \o end \in Seq(0 .. i - 1)
      /\ Len(own \o end) = Len(own) + Len(end)
      /\ \A k \in 1 .. Len(own) + Len(end) : (own \o end)[k] = IF k <= Len(own) THEN own[k] ELSE end[k - Len(own)]
  BY <1>3, <1>4, ConcatProperties
<1>6. DOMAIN (own \o end) = 1 .. Len(own \o end)
  BY <1>5, LenProperties
<1>7. /\ \A k \in 1 .. Len(own) : (own \o end)[k] = own[k]
      /\ graph[i].kind = "dict" => (own \o end)[Len(own) + 1] = 0
  <2>1. Len(end) \in Nat
    BY <1>4
  <2>2. \A k \in 1 .. Len(own) : (own \o end)[k] = own[k]
    BY <1>1, <1>5, <2>1
  <2>3. ASSUME graph[i].kind = "dict" PROVE (own \o end)[Len(own) + 1] = 0
    BY <1>1, <1>4, <1>5, <2>3
  <2> QED
    BY <2>2, <2>3
<1>8. Len(own \o end) = IF graph[i].kind = "dict" THEN Len(own) + 1 ELSE Len(own)
  BY <1>1, <1>4, <1>5
<1> QED
  BY <1>1, <1>2, <1>5, <1>6, <1>7, <1>8 DEF own

-----------------------------------------------------------------------------
(* The writer.                                                              *)

Call == [node : Nat, done : Nat]

(* The calls that are open go from the root down to parts of parts.         *)
CallsFit(graph, calls) ==
    /\ calls \in Seq(Call)
    /\ \A k \in DOMAIN calls :
          /\ calls[k].node \in DOMAIN graph
          /\ graph[calls[k].node].kind \in Containers
          /\ calls[k].done <= Len(Parts(graph, calls[k].node))
    /\ \A k \in DOMAIN calls : k + 1 \in DOMAIN calls =>
          /\ calls[k].done < Len(Parts(graph, calls[k].node))
          /\ calls[k + 1].node = Parts(graph, calls[k].node)[calls[k].done + 1]
    /\ \A j, k \in DOMAIN calls : j < k => calls[k].node < calls[j].node
    /\ calls # << >> => calls[1].node = Root(graph)

LEMMA CallFacts ==
    ASSUME NEW graph, NEW calls, CallsFit(graph, calls)
    PROVE  /\ Len(calls) \in Nat /\ DOMAIN calls = 1 .. Len(calls)
           /\ \A k \in DOMAIN calls : calls[k] \in Call /\ calls[k].node \in Nat /\ calls[k].done \in Nat
           /\ calls # << >> => Len(calls) \in DOMAIN calls
<1>1. calls \in Seq(Call)
  BY DEF CallsFit
<1>2. Len(calls) \in Nat /\ DOMAIN calls = 1 .. Len(calls)
  BY <1>1, LenProperties
<1>3. calls # << >> => Len(calls) \in DOMAIN calls
  BY <1>1, <1>2, EmptySeq
<1>4. \A k \in DOMAIN calls : calls[k] \in Call
  BY <1>1, <1>2, ElementOfSeq
<1>5. \A k \in DOMAIN calls : calls[k].node \in Nat /\ calls[k].done \in Nat
  BY <1>4 DEF Call
<1> QED
  BY <1>2, <1>3, <1>4, <1>5

(* The innermost call has one more of its parts written.                    *)
LEMMA OneMoreFits ==
    ASSUME NEW graph, NEW calls, CallsFit(graph, calls),
           calls # << >> => calls[Len(calls)].done < Len(Parts(graph, calls[Len(calls)].node)),
           \A i \in DOMAIN graph : Len(Parts(graph, i)) \in Nat
    PROVE  /\ CallsFit(graph, OneMore(calls))
           /\ Len(OneMore(calls)) = Len(calls)
           /\ DOMAIN OneMore(calls) = DOMAIN calls
           /\ \A k \in DOMAIN calls : OneMore(calls)[k] =
                 [node |-> calls[k].node, done |-> IF k = Len(calls) THEN calls[k].done + 1 ELSE calls[k].done]
<1>1. CASE calls = << >>
  <2>1. OneMore(calls) = calls /\ DOMAIN calls = {}
    <3>1. Len(calls) = 0
      BY <1>1
    <3> QED
      BY <1>1, <3>1, CallFacts DEF OneMore
  <2> QED
    BY <2>1
<1>2. CASE calls # << >>
  <2> DEFINE last == Len(calls)
             top  == [node |-> calls[last].node, done |-> calls[last].done + 1]
             more == OneMore(calls)
  <2>1. last \in DOMAIN calls /\ last \in Nat /\ DOMAIN calls = 1 .. last /\ calls \in Seq(Call)
    BY <1>2, CallFacts DEF CallsFit
  <2>2. \A k \in DOMAIN calls : calls[k] \in Call /\ calls[k].node \in Nat /\ calls[k].done \in Nat
    BY CallFacts
  <2>3. more = [calls EXCEPT ![last] = top]
    <3>1. more = [calls EXCEPT ![last] = [calls[last] EXCEPT !.done = @ + 1]]
      BY <1>2 DEF OneMore
    <3>2. [calls[last] EXCEPT !.done = @ + 1] = top
      BY <2>1, <2>2 DEF Call
    <3> QED
      BY <3>1, <3>2
  <2>4. top \in Call
    BY <2>1, <2>2, SMTT(30) DEF Call
  <2>5. /\ more \in Seq(Call) /\ Len(more) = last
        /\ \A k \in 1 .. last : more[k] = IF k = last THEN top ELSE calls[k]
    BY <2>1, <2>3, <2>4, ExceptSeq
  <2>6. DOMAIN more = DOMAIN calls
    BY <2>1, <2>5, LenProperties
  <2>7. \A k \in DOMAIN calls :
          more[k] = [node |-> calls[k].node, done |-> IF k = last THEN calls[k].done + 1 ELSE calls[k].done]
    <3>1. \A k \in DOMAIN calls : calls[k] = [node |-> calls[k].node, done |-> calls[k].done]
      BY <2>2 DEF Call
    <3> QED
      BY <2>1, <2>5, <3>1
  <2>a. top.node = calls[last].node /\ top.done = calls[last].done + 1
    OBVIOUS
  <2> HIDE DEF more, last, top
  <2>8. \A k \in DOMAIN calls : more[k].node = calls[k].node
    BY <2>1, <2>5, <2>a
  <2>9. \A k \in DOMAIN calls : more[k].done = IF k = last THEN calls[k].done + 1 ELSE calls[k].done
    BY <2>1, <2>5, <2>a
  <2>10. \A k \in DOMAIN more :
          /\ more[k].node \in DOMAIN graph
          /\ graph[more[k].node].kind \in Containers
          /\ more[k].done <= Len(Parts(graph, more[k].node))
    <3> SUFFICES ASSUME NEW k \in DOMAIN calls
                 PROVE  /\ calls[k].node \in DOMAIN graph
                        /\ graph[calls[k].node].kind \in Containers
                        /\ more[k].done <= Len(Parts(graph, calls[k].node))
      BY <2>6, <2>8
    <3>1. /\ calls[k].node \in DOMAIN graph
          /\ graph[calls[k].node].kind \in Containers
          /\ calls[k].done <= Len(Parts(graph, calls[k].node))
      BY DEF CallsFit
    <3>2. Len(Parts(graph, calls[k].node)) \in Nat
      BY <3>1
    <3>3. more[k].done <= Len(Parts(graph, calls[k].node))
      <4> HIDE DEF Parts
      <4>1. calls[k].done \in Nat
        BY <2>2
      <4>2. k = last => calls[k].done < Len(Parts(graph, calls[k].node))
        BY <1>2 DEF last
      <4> QED
        BY <2>9, <3>1, <3>2, <4>1, <4>2
    <3> QED
      BY <3>1, <3>3
  <2>11. \A k \in DOMAIN more : k + 1 \in DOMAIN more =>
          /\ more[k].done < Len(Parts(graph, more[k].node))
          /\ more[k + 1].node = Parts(graph, more[k].node)[more[k].done + 1]
    <3> SUFFICES ASSUME NEW k \in DOMAIN calls, k + 1 \in DOMAIN calls
                 PROVE  /\ calls[k].done < Len(Parts(graph, calls[k].node))
                        /\ calls[k + 1].node = Parts(graph, calls[k].node)[calls[k].done + 1]
                        /\ k # last
      BY <2>6, <2>8, <2>9
    <3>1. k # last
      BY <2>1
    <3> QED
      BY <3>1 DEF CallsFit
  <2>12. \A j, k \in DOMAIN more : j < k => more[k].node < more[j].node
    BY <2>6, <2>8 DEF CallsFit
  <2>13. more # << >> => more[1].node = Root(graph)
    <3>1. 1 \in DOMAIN calls
      BY <2>1
    <3> QED
      BY <1>2, <2>8, <3>1 DEF CallsFit
  <2>14. CallsFit(graph, more)
    BY <2>5, <2>10, <2>11, <2>12, <2>13, Zenon DEF CallsFit
  <2> QED
    BY <2>5, <2>6, <2>7, <2>14 DEF more, last
<1> QED
  BY <1>1, <1>2

(* The innermost call returns.                                              *)
LEMMA OuterFits ==
    ASSUME NEW graph, NEW calls, CallsFit(graph, calls), calls # << >>
    PROVE  LET outer == SubSeq(calls, 1, Len(calls) - 1)
           IN  /\ CallsFit(graph, outer)
               /\ Len(calls) \in Nat \ {0}
               /\ Len(outer) = Len(calls) - 1
               /\ DOMAIN calls = 1 .. Len(calls)
               /\ DOMAIN outer = 1 .. Len(calls) - 1
               /\ \A k \in DOMAIN outer : outer[k] = calls[k]
               /\ outer # << >> => outer[Len(outer)].done < Len(Parts(graph, outer[Len(outer)].node))
<1> DEFINE outer == SubSeq(calls, 1, Len(calls) - 1)
<1>1. /\ outer \in Seq(Call)
      /\ Len(outer) = Len(calls) - 1
      /\ Len(calls) \in Nat \ {0}
      /\ DOMAIN calls = 1 .. Len(calls)
      /\ DOMAIN outer = 1 .. Len(calls) - 1
      /\ \A i \in 1 .. Len(calls) - 1 : outer[i] = calls[i]
  <2>1. calls \in Seq(Call)
    BY DEF CallsFit
  <2> QED
    BY <2>1, Prefix
<1> HIDE DEF outer
<1>2. \A k \in DOMAIN outer : k \in DOMAIN calls /\ k + 1 \in DOMAIN calls /\ outer[k] = calls[k]
  BY <1>1
<1>3. \A k \in DOMAIN outer :
          /\ calls[k].node \in DOMAIN graph
          /\ graph[calls[k].node].kind \in Containers
          /\ calls[k].done <= Len(Parts(graph, calls[k].node))
          /\ calls[k].done < Len(Parts(graph, calls[k].node))
          /\ calls[k + 1].node = Parts(graph, calls[k].node)[calls[k].done + 1]
  BY <1>2, Zenon DEF CallsFit
<1>4. \A j, k \in DOMAIN outer : j < k => outer[k].node < outer[j].node
  BY <1>2 DEF CallsFit
<1>5. outer # << >> => Len(outer) \in DOMAIN outer /\ 1 \in DOMAIN outer
  <2>1. outer # << >> => Len(outer) \in Nat \ {0}
    BY <1>1, EmptySeq
  <2> QED
    BY <1>1, <2>1
<1>6. outer # << >> => outer[1].node = Root(graph)
  BY <1>2, <1>5, Zenon DEF CallsFit
<1>7. CallsFit(graph, outer)
  BY <1>1, <1>2, <1>3, <1>4, <1>6, Zenon DEF CallsFit
<1>8. outer # << >> => outer[Len(outer)].done < Len(Parts(graph, outer[Len(outer)].node))
  BY <1>2, <1>3, <1>5, Zenon
<1> QED
  BY <1>1, <1>2, <1>7, <1>8 DEF outer

NumbersFit(graph, calls, numbers) ==
    /\ numbers \in Seq(Nat)
    /\ \A p \in DOMAIN numbers : numbers[p] \in DOMAIN graph
    /\ \A p, q \in DOMAIN numbers : numbers[p] = numbers[q] => p = q
    /\ \A k \in DOMAIN calls : graph[calls[k].node].shared => \E p \in DOMAIN numbers : numbers[p] = calls[k].node

WriterStates(graph) ==
    {w \in [calls : Seq(Call), numbers : Seq(Nat), tokens : Seq(Token), ended : BOOLEAN] :
        /\ CallsFit(graph, w.calls)
        /\ NumbersFit(graph, w.calls, w.numbers)
        /\ w.ended => w.calls = << >>
        /\ w.calls = << >> /\ ~w.ended => w.numbers = << >> /\ w.tokens = << >>}

LEMMA StateFacts ==
    ASSUME NEW graph, NEW new, IsGraph(graph, new), NEW w \in WriterStates(graph)
    PROVE  /\ w.calls \in Seq(Call) /\ w.numbers \in Seq(Nat) /\ w.tokens \in Seq(Token) /\ w.ended \in BOOLEAN
           /\ w = [calls |-> w.calls, numbers |-> w.numbers, tokens |-> w.tokens, ended |-> w.ended]
           /\ CallsFit(graph, w.calls) /\ NumbersFit(graph, w.calls, w.numbers)
           /\ w.ended => w.calls = << >>
           /\ w.calls = << >> /\ ~w.ended => w.numbers = << >> /\ w.tokens = << >>
           /\ DOMAIN w.numbers = 1 .. Len(w.numbers) /\ Len(w.numbers) \in Nat
           /\ DOMAIN w.tokens = 1 .. Len(w.tokens) /\ Len(w.tokens) \in Nat
<1>1. /\ w.calls \in Seq(Call) /\ w.numbers \in Seq(Nat) /\ w.tokens \in Seq(Token) /\ w.ended \in BOOLEAN
      /\ w = [calls |-> w.calls, numbers |-> w.numbers, tokens |-> w.tokens, ended |-> w.ended]
  BY DEF WriterStates
<1>2. /\ CallsFit(graph, w.calls) /\ NumbersFit(graph, w.calls, w.numbers)
      /\ w.ended => w.calls = << >>
      /\ w.calls = << >> /\ ~w.ended => w.numbers = << >> /\ w.tokens = << >>
  BY Zenon DEF WriterStates
<1> QED
  BY <1>1, <1>2, LenProperties

LEMMA IsState ==
    ASSUME NEW graph, NEW calls, NEW numbers, NEW tokens \in Seq(Token), NEW ended \in BOOLEAN,
           CallsFit(graph, calls), NumbersFit(graph, calls, numbers),
           ended => calls = << >>, calls = << >> /\ ~ended => numbers = << >> /\ tokens = << >>
    PROVE  [calls |-> calls, numbers |-> numbers, tokens |-> tokens, ended |-> ended] \in WriterStates(graph)
<1> DEFINE w == [calls |-> calls, numbers |-> numbers, tokens |-> tokens, ended |-> ended]
<1>1. calls \in Seq(Call) /\ numbers \in Seq(Nat)
  BY DEF CallsFit, NumbersFit
<1>2. w \in [calls : Seq(Call), numbers : Seq(Nat), tokens : Seq(Token), ended : BOOLEAN]
  BY <1>1
<1>3. w.calls = calls /\ w.numbers = numbers /\ w.tokens = tokens /\ w.ended = ended
  OBVIOUS
<1> HIDE DEF w
<1>4. w \in WriterStates(graph)
  BY <1>2, <1>3, Zenon DEF WriterStates
<1> QED
  BY <1>4 DEF w

LEMMA PartsLengths ==
    ASSUME NEW graph, NEW new, IsGraph(graph, new)
    PROVE  \A i \in DOMAIN graph : Len(Parts(graph, i)) \in Nat
<1> SUFFICES ASSUME NEW i \in DOMAIN graph PROVE Len(Parts(graph, i)) \in Nat
  OBVIOUS
<1>1. Parts(graph, i) \in Seq(0 .. i - 1)
  BY PartsFacts
<1> QED
  BY <1>1, LenProperties

(* What the writer writes next.                                             *)
Unended(graph, w) == ~w.ended /\ ~AllWritten(graph, w)

LEMMA AskedFacts ==
    ASSUME NEW graph, NEW new, IsGraph(graph, new), NEW w \in WriterStates(graph), Unended(graph, w)
    PROVE  LET i == Asked(graph, w)
               top == Innermost(w)
           IN  /\ i \in Nat
               /\ i # 0 => i \in DOMAIN graph
               /\ w.calls = << >> => i = Root(graph)
               /\ w.calls # << >> =>
                     /\ Len(w.calls) \in DOMAIN w.calls
                     /\ top.node \in DOMAIN graph /\ top.done \in Nat
                     /\ top.done < Len(Parts(graph, top.node))
                     /\ top.done + 1 \in DOMAIN Parts(graph, top.node)
                     /\ i = Parts(graph, top.node)[top.done + 1]
               /\ \A k \in DOMAIN w.calls : i < w.calls[k].node
<1> DEFINE i == Asked(graph, w)
           top == Innermost(w)
           calls == w.calls
<1>1. CallsFit(graph, calls)
  BY StateFacts
<1>2. CASE calls = << >>
  <2>1. i = Root(graph) /\ Len(calls) = 0
    BY <1>2 DEF Asked
  <2>2. DOMAIN calls = {}
    BY <1>1, <2>1, CallFacts
  <2>3. i \in DOMAIN graph /\ i \in Nat
    BY <2>1, GraphFacts
  <2> QED
    BY <1>2, <2>1, <2>2, <2>3
<1>3. CASE calls # << >>
  <2>1. /\ Len(calls) \in DOMAIN calls /\ top = calls[Len(calls)]
        /\ Len(calls) \in Nat /\ DOMAIN calls = 1 .. Len(calls)
        /\ top.done \in Nat
    BY <1>1, <1>3, CallFacts DEF Innermost
  <2>2. top.node \in DOMAIN graph /\ top.done <= Len(Parts(graph, top.node))
    BY <1>1, <2>1, Zenon DEF CallsFit
  <2>3. top.done # Len(Parts(graph, top.node))
    BY <1>3 DEF Unended, AllWritten
  <2>4. /\ Parts(graph, top.node) \in Seq(0 .. top.node - 1)
        /\ DOMAIN Parts(graph, top.node) = 1 .. Len(Parts(graph, top.node))
        /\ Len(Parts(graph, top.node)) \in Nat
    BY <2>2, PartsFacts, PartsLengths
  <2>5. top.done < Len(Parts(graph, top.node)) /\ top.done + 1 \in DOMAIN Parts(graph, top.node)
    <3> HIDE DEF top
    <3> QED
      BY <2>1, <2>2, <2>3, <2>4
  <2>6. i = Parts(graph, top.node)[top.done + 1]
    BY <1>3 DEF Asked
  <2>7. i \in 0 .. top.node - 1
    BY <2>4, <2>5, <2>6, ElementOfSeq
  <2>8. top.node \in Nat /\ \A k \in DOMAIN graph : k \in Nat /\ DOMAIN graph = 1 .. Len(graph) /\ Len(graph) \in Nat
    BY <2>2, GraphFacts
  <2>9. i \in Nat /\ i < top.node /\ (i # 0 => i \in DOMAIN graph)
    <3> HIDE DEF i, top
    <3> QED
      BY <2>2, <2>7, <2>8
  <2>10. ASSUME NEW k \in DOMAIN calls PROVE i < calls[k].node
    <3>1. CASE k = Len(calls)
      BY <2>1, <2>9, <3>1
    <3>2. CASE k # Len(calls)
      <4>1. k < Len(calls)
        BY <2>1, <3>2
      <4>2. top.node < calls[k].node
        BY <1>1, <2>1, <4>1, Zenon DEF CallsFit
      <4>3. calls[k].node \in Nat
        BY <1>1, CallFacts
      <4> HIDE DEF i, top, calls
      <4> QED
        BY <2>8, <2>9, <4>2, <4>3
    <3> QED
      BY <3>1, <3>2
  <2> QED
    BY <1>3, <2>1, <2>2, <2>5, <2>6, <2>9, <2>10
<1> QED
  BY <1>2, <1>3

LEMMA OpenedFits ==
    ASSUME NEW graph
    PROVE  Opened \in WriterStates(graph)
<1>1. /\ << >> \in Seq(Call) /\ << >> \in Seq(Nat) /\ << >> \in Seq(Token)
      /\ DOMAIN << >> = {}
  BY EmptySeq
<1>2. CallsFit(graph, << >>) /\ NumbersFit(graph, << >>, << >>)
  BY <1>1 DEF CallsFit, NumbersFit
<1> QED
  BY <1>1, <1>2, IsState DEF Opened

(* A number for an object that has none yet.                                *)
LEMMA NumberFacts ==
    ASSUME NEW graph, NEW new, IsGraph(graph, new), NEW w \in WriterStates(graph), NEW i \in DOMAIN graph, Known(w, i) = {}
    PROVE  LET more == Number(graph, w, i)
               n    == Len(w.numbers)
           IN  /\ NumbersFit(graph, w.calls, more)
               /\ graph[i].shared \in BOOLEAN
               /\ n \in Nat /\ DOMAIN w.numbers = 1 .. n
               /\ Len(more) = IF graph[i].shared THEN n + 1 ELSE n
               /\ DOMAIN more = IF graph[i].shared THEN 1 .. n + 1 ELSE 1 .. n
               /\ \A p \in 1 .. n : more[p] = w.numbers[p]
               /\ \A p \in 1 .. n : w.numbers[p] # i
               /\ graph[i].shared => more[n + 1] = i
<1> DEFINE more == Number(graph, w, i)
           n == Len(w.numbers)
<1>1. /\ w.numbers \in Seq(Nat) /\ NumbersFit(graph, w.calls, w.numbers)
      /\ n \in Nat /\ DOMAIN w.numbers = 1 .. n
  BY StateFacts
<1>2. i \in Nat /\ graph[i] \in GraphNode
  BY GraphFacts
<1>3. graph[i].shared \in BOOLEAN
  BY <1>2 DEF GraphNode
<1>4. \A p \in 1 .. n : w.numbers[p] # i
  BY <1>1 DEF Known
<1>5. CASE graph[i].shared
  <2>1. more = Append(w.numbers, i)
    BY <1>5 DEF Number, Flagged
  <2>2. /\ more \in Seq(Nat) /\ Len(more) = n + 1 /\ DOMAIN more = 1 .. n + 1
        /\ \A p \in 1 .. n : more[p] = w.numbers[p]
        /\ more[n + 1] = i
    BY <1>1, <1>2, <2>1, Appended
  <2> HIDE DEF more, n
  <2>3. \A p \in DOMAIN more : more[p] \in DOMAIN graph
    <3>1. \A p \in 1 .. n : w.numbers[p] \in DOMAIN graph
      BY <1>1 DEF NumbersFit
    <3>2. \A p \in 1 .. n + 1 : p \in 1 .. n \/ p = n + 1
      BY <1>1
    <3> QED
      BY <2>2, <3>1, <3>2
  <2>4. \A p, q \in DOMAIN more : more[p] = more[q] => p = q
    <3>1. \A p, q \in 1 .. n : w.numbers[p] = w.numbers[q] => p = q
      BY <1>1 DEF NumbersFit
    <3>2. \A p \in 1 .. n + 1 : p \in 1 .. n \/ p = n + 1
      BY <1>1
    <3> QED
      BY <1>4, <2>2, <3>1, <3>2
  <2>5. \A k \in DOMAIN w.calls : graph[w.calls[k].node].shared => \E p \in DOMAIN more : more[p] = w.calls[k].node
    <3> SUFFICES ASSUME NEW k \in DOMAIN w.calls, graph[w.calls[k].node].shared
                 PROVE  \E p \in DOMAIN more : more[p] = w.calls[k].node
      OBVIOUS
    <3>1. PICK p \in 1 .. n : w.numbers[p] = w.calls[k].node
      BY <1>1 DEF NumbersFit
    <3>2. p \in DOMAIN more
      BY <1>1, <2>2
    <3> QED
      BY <2>2, <3>1, <3>2
  <2>6. NumbersFit(graph, w.calls, more)
    BY <2>2, <2>3, <2>4, <2>5 DEF NumbersFit
  <2> QED
    BY <1>1, <1>4, <1>5, <2>2, <2>6 DEF more, n
<1>6. CASE ~graph[i].shared
  <2>1. more = w.numbers
    BY <1>6 DEF Number, Flagged
  <2> QED
    BY <1>1, <1>3, <1>4, <1>6, <2>1
<1> QED
  BY <1>3, <1>5, <1>6

LEMMA LeafFits ==
    ASSUME NEW graph, NEW new, IsGraph(graph, new), NEW w \in WriterStates(graph), Unended(graph, w),
           NEW numbers, NumbersFit(graph, w.calls, numbers), NEW token \in Token
    PROVE  Leaf(w, numbers, token) \in WriterStates(graph)
<1> DEFINE calls == w.calls
           more  == OneMore(calls)
<1>1. CallsFit(graph, calls) /\ w.tokens \in Seq(Token)
  BY StateFacts
<1>2. calls # << >> => calls[Len(calls)].done < Len(Parts(graph, calls[Len(calls)].node))
  BY AskedFacts DEF Innermost
<1>3. /\ CallsFit(graph, more) /\ Len(more) = Len(calls) /\ DOMAIN more = DOMAIN calls
      /\ \A k \in DOMAIN calls : more[k].node = calls[k].node
  <2>1. /\ CallsFit(graph, more) /\ Len(more) = Len(calls) /\ DOMAIN more = DOMAIN calls
        /\ \A k \in DOMAIN calls : more[k] =
              [node |-> calls[k].node, done |-> IF k = Len(calls) THEN calls[k].done + 1 ELSE calls[k].done]
    BY <1>1, <1>2, PartsLengths, OneMoreFits
  <2> HIDE DEF more, calls
  <2>2. ASSUME NEW k \in DOMAIN calls PROVE more[k].node = calls[k].node
    BY <2>1
  <2> QED
    BY <2>1, <2>2
<1> HIDE DEF more
<1>4. NumbersFit(graph, more, numbers)
  BY <1>3, Zenon DEF NumbersFit
<1>5. Append(w.tokens, token) \in Seq(Token)
  BY <1>1, Appended
<1>6. calls = << >> => more = << >>
  BY DEF more, OneMore
<1>7. (calls = << >>) \in BOOLEAN /\ (more = << >> /\ ~(calls = << >>) => FALSE)
  <2>1. ASSUME more = << >>, calls # << >> PROVE FALSE
    <3>1. Len(calls) = 0
      BY <1>3, <2>1
    <3> QED
      BY <1>1, <2>1, <3>1, EmptySeq, StateFacts
  <2> QED
    BY <2>1
<1>8. [calls |-> more, numbers |-> numbers, tokens |-> Append(w.tokens, token), ended |-> (calls = << >>)] \in WriterStates(graph)
  BY <1>3, <1>4, <1>5, <1>6, <1>7, IsState
<1> QED
  BY <1>8 DEF Leaf, more

-----------------------------------------------------------------------------
(* What the writer writes.                                                  *)

LEMMA KnownFacts ==
    ASSUME NEW graph, NEW new, IsGraph(graph, new), NEW w \in WriterStates(graph), NEW i \in Nat, Known(w, i) # {}
    PROVE  LET k == CHOOSE j \in Known(w, i) : TRUE
           IN  k \in DOMAIN w.numbers /\ k \in Nat \ {0} /\ w.numbers[k] = i
<1>1. DOMAIN w.numbers = 1 .. Len(w.numbers) /\ Len(w.numbers) \in Nat
  BY StateFacts
<1>2. (CHOOSE j \in Known(w, i) : TRUE) \in Known(w, i)
  OBVIOUS
<1> QED
  BY <1>1, <1>2 DEF Known

LEMMA Puts ==
    ASSUME NEW type \in Types, NEW flag \in BOOLEAN, NEW n \in Nat, NEW atom \in Seq(Nat)
    PROVE  Put(type, flag, n, atom) \in Token
BY DEF Put, Token

(* The token that the writer puts for an object.                            *)
TokenOf(graph, w, i) ==
    IF i = 0 THEN Put("null", FALSE, 0, << >>)
    ELSE IF graph[i].kind = "none" THEN Put("none", FALSE, 0, << >>)
    ELSE IF Known(w, i) # {} THEN Put("ref", FALSE, (CHOOSE k \in Known(w, i) : TRUE) - 1, << >>)
    ELSE IF graph[i].kind = "atom" THEN Put("atom", Flagged(graph, i), 0, graph[i].atom)
    ELSE Put(graph[i].kind, Flagged(graph, i), Len(graph[i].parts), << >>)

LEMMA TokenFits ==
    ASSUME NEW graph, NEW new, IsGraph(graph, new), NEW w \in WriterStates(graph),
           NEW i \in Nat, i # 0 => i \in DOMAIN graph
    PROVE  TokenOf(graph, w, i) \in Token
<1> DEFINE token == TokenOf(graph, w, i)
<1>1. CASE i = 0
  <2>1. token = Put("null", FALSE, 0, << >>)
    BY <1>1 DEF TokenOf
  <2>2. "null" \in Types /\ << >> \in Seq(Nat)
    BY EmptySeq DEF Types
  <2> QED
    BY <2>1, <2>2, Puts
<1>2. CASE i # 0
  <2>1. i \in DOMAIN graph /\ graph[i] \in GraphNode /\ graph[i].parts \in Seq(Nat)
    BY <1>2, GraphFacts
  <2>2. graph[i].kind \in Types /\ graph[i].shared \in BOOLEAN /\ graph[i].atom \in Seq(Nat)
    BY <2>1 DEF GraphNode, Types
  <2>3. Len(graph[i].parts) \in Nat /\ << >> \in Seq(Nat)
    BY <2>1, LenProperties, EmptySeq
  <2>4. "none" \in Types /\ "ref" \in Types /\ "atom" \in Types
    BY DEF Types
  <2>5. CASE graph[i].kind = "none"
    <3>1. token = Put("none", FALSE, 0, << >>)
      BY <1>2, <2>5 DEF TokenOf
    <3> QED
      BY <2>3, <2>4, <3>1, Puts
  <2>6. CASE graph[i].kind # "none" /\ Known(w, i) # {}
    <3>1. token = Put("ref", FALSE, (CHOOSE k \in Known(w, i) : TRUE) - 1, << >>)
      BY <1>2, <2>6, Zenon DEF TokenOf
    <3>2. (CHOOSE k \in Known(w, i) : TRUE) \in Nat \ {0}
      BY <2>6, KnownFacts
    <3>3. (CHOOSE k \in Known(w, i) : TRUE) - 1 \in Nat
      BY <3>2
    <3>4. token \in Token
      <4> HIDE DEF token
      <4> QED
        BY <2>3, <2>4, <3>1, <3>3, Puts
    <3> QED
      BY <3>4
  <2>7. CASE graph[i].kind = "atom" /\ Known(w, i) = {}
    <3>1. graph[i].kind # "none"
      BY <2>7
    <3>2. token = Put("atom", Flagged(graph, i), 0, graph[i].atom)
      BY <1>2, <2>7, <3>1, Zenon DEF TokenOf
    <3> QED
      BY <2>2, <2>4, <3>2, Puts DEF Flagged
  <2>8. CASE graph[i].kind \notin {"none", "atom"} /\ Known(w, i) = {}
    <3>1. graph[i].kind # "none" /\ graph[i].kind # "atom"
      BY <2>8
    <3>2. token = Put(graph[i].kind, Flagged(graph, i), Len(graph[i].parts), << >>)
      BY <1>2, <2>8, <3>1, Zenon DEF TokenOf
    <3> QED
      BY <2>2, <2>3, <3>2, Puts DEF Flagged
  <2> QED
    BY <2>5, <2>6, <2>7, <2>8
<1> QED
  BY <1>1, <1>2

(* An object that is not written in one go.                                 *)
Opens(graph, w, i) == i # 0 /\ graph[i].kind \in Containers /\ Known(w, i) = {}

LEMMA WriteCases ==
    ASSUME NEW graph, NEW new, IsGraph(graph, new), NEW w \in WriterStates(graph),
           NEW i \in Nat, i # 0 => i \in DOMAIN graph
    PROVE  /\ Opens(graph, w, i) =>
                WriteObject(graph, w, i) =
                  [calls   |-> Append(w.calls, [node |-> i, done |-> 0]),
                   numbers |-> Number(graph, w, i),
                   tokens  |-> Append(w.tokens, TokenOf(graph, w, i)),
                   ended   |-> FALSE]
           /\ ~Opens(graph, w, i) =>
                WriteObject(graph, w, i) =
                  Leaf(w, IF i # 0 /\ graph[i].kind = "atom" /\ Known(w, i) = {} THEN Number(graph, w, i) ELSE w.numbers,
                       TokenOf(graph, w, i))
<1>1. CASE i = 0
  BY <1>1 DEF Opens, WriteObject, TokenOf
<1>2. CASE i # 0
  <2>1. graph[i].kind \in Containers \cup {"none", "atom"}
    <3>1. graph[i] \in GraphNode
      BY <1>2, GraphFacts
    <3> QED
      BY <3>1 DEF GraphNode
  <2>2. "none" \notin Containers /\ "atom" \notin Containers /\ "none" # "atom"
    BY DEF Containers, Sized
  <2>3. CASE graph[i].kind = "none"
    <3>1. ~Opens(graph, w, i) /\ graph[i].kind # "atom"
      BY <2>2, <2>3 DEF Opens
    <3> QED
      BY <1>2, <2>3, <3>1, Zenon DEF WriteObject, TokenOf
  <2>4. CASE graph[i].kind # "none" /\ Known(w, i) # {}
    <3>1. ~Opens(graph, w, i)
      BY <2>4 DEF Opens
    <3> QED
      BY <1>2, <2>4, <3>1, Zenon DEF WriteObject, TokenOf
  <2>5. CASE graph[i].kind = "atom" /\ Known(w, i) = {}
    <3>1. ~Opens(graph, w, i) /\ graph[i].kind # "none"
      BY <2>2, <2>5 DEF Opens
    <3> QED
      BY <1>2, <2>5, <3>1, Zenon DEF WriteObject, TokenOf
  <2>6. CASE graph[i].kind \in Containers /\ Known(w, i) = {}
    <3>1. Opens(graph, w, i) /\ graph[i].kind # "none" /\ graph[i].kind # "atom"
      BY <1>2, <2>2, <2>6 DEF Opens
    <3> QED
      BY <1>2, <2>6, <3>1, Zenon DEF WriteObject, TokenOf
  <2> QED
    BY <2>1, <2>3, <2>4, <2>5, <2>6, Zenon
<1> QED
  BY <1>1, <1>2

-----------------------------------------------------------------------------
(* Every step of the writer leaves a state of the writer.                   *)

LEMMA PushFits ==
    ASSUME NEW graph, NEW new, IsGraph(graph, new), NEW w \in WriterStates(graph), Unended(graph, w),
           NEW i \in Nat, i = Asked(graph, w), Opens(graph, w, i)
    PROVE  /\ CallsFit(graph, Append(w.calls, [node |-> i, done |-> 0]))
           /\ NumbersFit(graph, Append(w.calls, [node |-> i, done |-> 0]), Number(graph, w, i))
<1> DEFINE calls == w.calls
           n == Len(calls)
           call == [node |-> i, done |-> 0]
           more == Append(calls, call)
           numbers == Number(graph, w, i)
<1>1. /\ i \in DOMAIN graph /\ graph[i].kind \in Containers /\ Known(w, i) = {}
      /\ calls = << >> => i = Root(graph)
      /\ \A k \in DOMAIN calls : i < calls[k].node
  BY AskedFacts DEF Opens
<1>2. /\ calls # << >> => /\ n \in DOMAIN calls
                          /\ calls[n].done < Len(Parts(graph, calls[n].node))
                          /\ i = Parts(graph, calls[n].node)[calls[n].done + 1]
  BY AskedFacts DEF Innermost
<1>3. CallsFit(graph, calls)
  BY StateFacts
<1>4. call \in Call /\ call.node = i /\ call.done = 0
  BY DEF Call
<1>5. /\ calls \in Seq(Call) /\ more \in Seq(Call) /\ n \in Nat
      /\ DOMAIN calls = 1 .. n /\ DOMAIN more = 1 .. n + 1
      /\ \A k \in 1 .. n : more[k] = calls[k]
      /\ more[n + 1] = call
  <2>1. calls \in Seq(Call)
    BY <1>3 DEF CallsFit
  <2> QED
    BY <1>4, <2>1, Appended
<1>6. \A k \in 1 .. n + 1 : k \in 1 .. n \/ k = n + 1
  BY <1>5
<1>7. Len(Parts(graph, i)) \in Nat
  BY <1>1, PartsLengths
<1> HIDE DEF more, call, numbers
<1>8. ASSUME NEW k \in DOMAIN more
      PROVE  /\ more[k].node \in DOMAIN graph
             /\ graph[more[k].node].kind \in Containers
             /\ more[k].done <= Len(Parts(graph, more[k].node))
  <2>1. CASE k \in 1 .. n
    BY <1>3, <1>5, <2>1 DEF CallsFit
  <2>2. CASE k = n + 1
    BY <1>1, <1>4, <1>5, <1>7, <2>2
  <2> QED
    BY <1>5, <1>6, <2>1, <2>2
<1>9. ASSUME NEW k \in DOMAIN more, k + 1 \in DOMAIN more
      PROVE  /\ more[k].done < Len(Parts(graph, more[k].node))
             /\ more[k + 1].node = Parts(graph, more[k].node)[more[k].done + 1]
  <2>1. CASE k \in 1 .. n - 1
    <3>1. k \in DOMAIN calls /\ k + 1 \in DOMAIN calls /\ k \in 1 .. n /\ k + 1 \in 1 .. n
      BY <1>5, <2>1
    <3> QED
      BY <1>3, <1>5, <3>1, Zenon DEF CallsFit
  <2>2. CASE k = n
    <3>1. k \in 1 .. n /\ calls # << >>
      <4>1. k \in 1 .. n
        BY <1>5, <1>9, <2>2
      <4>2. calls # << >>
        <5>1. calls = << >> => n = 0
          OBVIOUS
        <5> QED
          BY <1>5, <4>1, <5>1
      <4> QED
        BY <4>1, <4>2
    <3> QED
      BY <1>2, <1>4, <1>5, <2>2, <3>1
  <2> QED
    BY <1>5, <1>9, <2>1, <2>2
<1>10. ASSUME NEW j \in DOMAIN more, NEW k \in DOMAIN more, j < k PROVE more[k].node < more[j].node
  <2>1. j \in 1 .. n
    BY <1>5, <1>10
  <2>2. CASE k \in 1 .. n
    BY <1>3, <1>5, <1>10, <2>1, <2>2, Zenon DEF CallsFit
  <2>3. CASE k = n + 1
    BY <1>1, <1>4, <1>5, <2>1, <2>3
  <2> QED
    BY <1>5, <1>6, <2>2, <2>3
<1>11. more[1].node = Root(graph)
  <2>1. CASE calls = << >>
    <3>1. n = 0
      BY <2>1
    <3> QED
      BY <1>1, <1>4, <1>5, <2>1, <3>1
  <2>2. CASE calls # << >>
    <3>1. 1 \in 1 .. n
      BY <1>2, <1>5, <2>2
    <3> QED
      BY <1>3, <1>5, <2>2, <3>1, Zenon DEF CallsFit
  <2> QED
    BY <2>1, <2>2
<1>12. CallsFit(graph, more)
  BY <1>5, <1>8, <1>9, <1>10, <1>11, Zenon DEF CallsFit
<1>13. NumbersFit(graph, more, numbers)
  <2>1. /\ NumbersFit(graph, calls, numbers)
        /\ graph[i].shared => Len(w.numbers) + 1 \in DOMAIN numbers /\ numbers[Len(w.numbers) + 1] = i
    <3>1. /\ NumbersFit(graph, calls, numbers) /\ Len(w.numbers) \in Nat
          /\ DOMAIN numbers = IF graph[i].shared THEN 1 .. Len(w.numbers) + 1 ELSE 1 .. Len(w.numbers)
          /\ graph[i].shared => numbers[Len(w.numbers) + 1] = i
      BY <1>1, NumberFacts DEF numbers
    <3> QED
      BY <3>1
  <2>2. ASSUME NEW k \in DOMAIN more, graph[more[k].node].shared
        PROVE  \E p \in DOMAIN numbers : numbers[p] = more[k].node
    <3>1. CASE k \in 1 .. n
      BY <1>5, <2>1, <2>2, <3>1, Zenon DEF NumbersFit
    <3>2. CASE k = n + 1
      BY <1>4, <1>5, <2>1, <2>2, <3>2
    <3> QED
      BY <1>5, <1>6, <3>1, <3>2
  <2> QED
    BY <2>1, <2>2, Zenon DEF NumbersFit
<1> QED
  BY <1>12, <1>13 DEF more, call, numbers

LEMMA BackFits ==
    ASSUME NEW graph, NEW new, IsGraph(graph, new), NEW w \in WriterStates(graph), w.calls # << >>
    PROVE  LET outer == SubSeq(w.calls, 1, Len(w.calls) - 1)
           IN  /\ Back(w) \in WriterStates(graph)
               /\ Back(w) = [calls |-> OneMore(outer), numbers |-> w.numbers, tokens |-> w.tokens, ended |-> (outer = << >>)]
<1> DEFINE outer == SubSeq(w.calls, 1, Len(w.calls) - 1)
           more  == OneMore(outer)
<1>1. Back(w) = [calls |-> more, numbers |-> w.numbers, tokens |-> w.tokens, ended |-> (outer = << >>)]
  BY DEF Back
<1>2. /\ CallsFit(graph, outer)
      /\ DOMAIN outer = 1 .. Len(outer) /\ Len(outer) \in Nat
      /\ DOMAIN outer \subseteq DOMAIN w.calls
      /\ \A k \in DOMAIN outer : outer[k] = w.calls[k]
      /\ outer # << >> => outer[Len(outer)].done < Len(Parts(graph, outer[Len(outer)].node))
  <2>1. CallsFit(graph, w.calls)
    BY StateFacts
  <2>2. /\ CallsFit(graph, outer)
        /\ Len(w.calls) \in Nat \ {0}
        /\ Len(outer) = Len(w.calls) - 1
        /\ DOMAIN w.calls = 1 .. Len(w.calls)
        /\ DOMAIN outer = 1 .. Len(w.calls) - 1
        /\ \A k \in DOMAIN outer : outer[k] = w.calls[k]
        /\ outer # << >> => outer[Len(outer)].done < Len(Parts(graph, outer[Len(outer)].node))
    BY <2>1, OuterFits
  <2> HIDE DEF outer
  <2> QED
    BY <2>2
<1> HIDE DEF outer
<1>3. /\ CallsFit(graph, more) /\ Len(more) = Len(outer) /\ DOMAIN more = DOMAIN outer
      /\ \A k \in DOMAIN outer : more[k].node = outer[k].node
  <2>1. /\ CallsFit(graph, more) /\ Len(more) = Len(outer) /\ DOMAIN more = DOMAIN outer
        /\ \A k \in DOMAIN outer : more[k] =
              [node |-> outer[k].node, done |-> IF k = Len(outer) THEN outer[k].done + 1 ELSE outer[k].done]
    BY <1>2, PartsLengths, OneMoreFits
  <2> HIDE DEF more
  <2>2. ASSUME NEW k \in DOMAIN outer PROVE more[k].node = outer[k].node
    BY <2>1
  <2> QED
    BY <2>1, <2>2
<1>4. NumbersFit(graph, w.calls, w.numbers) /\ w.tokens \in Seq(Token)
  BY StateFacts
<1> HIDE DEF more
<1>5. NumbersFit(graph, more, w.numbers)
  <2>1. \A k \in DOMAIN more : k \in DOMAIN w.calls /\ more[k].node = w.calls[k].node
    BY <1>2, <1>3
  <2> QED
    BY <1>4, <2>1, Zenon DEF NumbersFit
<1>6. /\ (outer = << >>) \in BOOLEAN
      /\ outer = << >> => more = << >>
      /\ ~(more = << >> /\ ~(outer = << >>))
  <2>1. outer = << >> => more = << >>
    BY DEF more, OneMore
  <2>2. ASSUME more = << >>, outer # << >> PROVE FALSE
    <3>1. Len(outer) = 0 /\ outer \in Seq(Call)
      BY <1>2, <1>3, <2>2 DEF CallsFit
    <3> QED
      BY <2>2, <3>1, EmptySeq
  <2> QED
    BY <2>1, <2>2
<1>7. [calls |-> more, numbers |-> w.numbers, tokens |-> w.tokens, ended |-> (outer = << >>)] \in WriterStates(graph)
  BY <1>3, <1>4, <1>5, <1>6, IsState
<1> QED
  BY <1>1, <1>7 DEF more, outer

LEMMA WriteStepFits ==
    ASSUME NEW graph, NEW new, IsGraph(graph, new), NEW w \in WriterStates(graph)
    PROVE  WriteStep(graph, w) \in WriterStates(graph)
<1>1. CASE w.ended
  BY <1>1 DEF WriteStep
<1>2. CASE ~w.ended /\ AllWritten(graph, w)
  <2>1. WriteStep(graph, w) = Back(w) /\ w.calls # << >>
    BY <1>2 DEF WriteStep, AllWritten
  <2> QED
    BY <2>1, BackFits
<1>3. CASE Unended(graph, w)
  <2> DEFINE i == Asked(graph, w)
             token == TokenOf(graph, w, i)
  <2>1. i \in Nat /\ (i # 0 => i \in DOMAIN graph)
    BY <1>3, AskedFacts
  <2>2. WriteStep(graph, w) = WriteObject(graph, w, i)
    BY <1>3 DEF WriteStep, Unended
  <2>3. token \in Token
    BY <2>1, TokenFits
  <2> HIDE DEF i, token
  <2>4. CASE Opens(graph, w, i)
    <3>1. WriteObject(graph, w, i) =
            [calls   |-> Append(w.calls, [node |-> i, done |-> 0]),
             numbers |-> Number(graph, w, i),
             tokens  |-> Append(w.tokens, token),
             ended   |-> FALSE]
      BY <2>1, <2>4, WriteCases DEF token
    <3>2. /\ CallsFit(graph, Append(w.calls, [node |-> i, done |-> 0]))
          /\ NumbersFit(graph, Append(w.calls, [node |-> i, done |-> 0]), Number(graph, w, i))
      BY <1>3, <2>1, <2>4, PushFits DEF i
    <3>3. Append(w.tokens, token) \in Seq(Token)
      BY <2>3, Appended, StateFacts
    <3>4. Append(w.calls, [node |-> i, done |-> 0]) # << >>
      <4>1. Len(Append(w.calls, [node |-> i, done |-> 0])) = Len(w.calls) + 1 /\ Len(w.calls) \in Nat
        <5>1. w.calls \in Seq(Call) /\ [node |-> i, done |-> 0] \in Call
          BY <2>1, StateFacts DEF Call
        <5> QED
          BY <5>1, Appended
      <4>2. Len(<< >>) = 0
        OBVIOUS
      <4> QED
        BY <4>1, <4>2
    <3> QED
      BY <2>2, <3>1, <3>2, <3>3, <3>4, IsState
  <2>5. CASE ~Opens(graph, w, i)
    <3> DEFINE numbers == IF i # 0 /\ graph[i].kind = "atom" /\ Known(w, i) = {} THEN Number(graph, w, i) ELSE w.numbers
    <3>1. WriteObject(graph, w, i) = Leaf(w, numbers, token)
      BY <2>1, <2>5, WriteCases DEF token
    <3>2. NumbersFit(graph, w.calls, numbers)
      BY <2>1, NumberFacts, StateFacts
    <3> HIDE DEF numbers
    <3> QED
      BY <1>3, <2>2, <2>3, <3>1, <3>2, LeafFits
  <2> QED
    BY <2>4, <2>5
<1> QED
  BY <1>1, <1>2, <1>3 DEF Unended

(* The states of a writer are those after each number of steps.             *)
LEMMA WriterSteps ==
    ASSUME NEW graph, NEW new, IsGraph(graph, new)
    PROVE  /\ \A n \in Nat : Writer(graph)[n] \in WriterStates(graph)
           /\ Writer(graph)[0] = Opened
           /\ \A n \in Nat : Writer(graph)[n + 1] = WriteStep(graph, Writer(graph)[n])
<1> DEFINE S == WriterStates(graph)
           F == [w \in S |-> WriteStep(graph, w)]
           Step(f) == [n \in Nat |-> IF n = 0 THEN Opened ELSE WriteStep(graph, f[n - 1])]
<1>1. F \in [S -> S]
  <2>1. \A w \in S : WriteStep(graph, w) \in S
    BY WriteStepFits
  <2> HIDE DEF S
  <2> QED
    BY <2>1
<1>2. Opened \in S
  BY OpenedFits
<1>3. PICK g \in [Nat -> S] : g[0] = Opened /\ \A n \in Nat : g[n + 1] = F[g[n]]
  <2> HIDE DEF S, F
  <2> QED
    BY <1>1, <1>2, Iterated
<1>4. \A n \in Nat : g[n + 1] = WriteStep(graph, g[n])
  <2> HIDE DEF S
  <2> QED
    BY <1>3
<1>5. g = Step(g)
  <2> SUFFICES ASSUME NEW n \in Nat
               PROVE  g[n] = IF n = 0 THEN Opened ELSE WriteStep(graph, g[n - 1])
    <3> HIDE DEF S
    <3> QED
      BY <1>3
  <2>1. CASE n = 0
    BY <1>3, <2>1
  <2>2. CASE n # 0
    <3>1. n - 1 \in Nat /\ (n - 1) + 1 = n
      BY <2>2
    <3> QED
      BY <1>4, <2>2, <3>1
  <2> QED
    BY <2>1, <2>2
<1>6. Writer(graph) = Step(Writer(graph))
  <2>1. Writer(graph) = CHOOSE f : f = Step(f)
    BY DEF Writer
  <2> HIDE DEF Step
  <2> QED
    BY <1>5, <2>1
<1> DEFINE W == Writer(graph)
<1>7. W[0] = Opened /\ \A n \in Nat : W[n + 1] = WriteStep(graph, W[n])
  <2> HIDE DEF W
  <2>1. W = Step(W)
    BY <1>6 DEF W
  <2>2. \A n \in Nat : W[n] = IF n = 0 THEN Opened ELSE WriteStep(graph, W[n - 1])
    BY <2>1
  <2>3. \A n \in Nat : n + 1 \in Nat /\ n + 1 # 0 /\ (n + 1) - 1 = n
    OBVIOUS
  <2> QED
    BY <2>2, <2>3
<1>8. \A n \in Nat : W[n] \in S
  <2> DEFINE P == {n \in Nat : W[n] \in S}
  <2>1. 0 \in P
    BY <1>2, <1>7
  <2>2. ASSUME NEW n \in P PROVE n + 1 \in P
    <3>1. W[n + 1] = WriteStep(graph, W[n]) /\ n + 1 \in Nat /\ W[n] \in S
      BY <1>7
    <3>2. WriteStep(graph, W[n]) \in S
      BY <3>1, WriteStepFits
    <3> QED
      BY <3>1, <3>2
  <2>3. P \subseteq Nat
    OBVIOUS
  <2>4. P = Nat
    <3> HIDE DEF P
    <3> QED
      BY <2>1, <2>2, <2>3, Inductive
  <2> QED
    BY <2>4
<1> QED
  BY <1>7, <1>8

(* The writer never takes anything back.                                    *)
IsPrefix(s, t) == Len(s) <= Len(t) /\ \A k \in 1 .. Len(s) : t[k] = s[k]

(* What the writer does next, said once for the reader to be compared with. *)
LEMMA WriteOnce ==
    ASSUME NEW graph, NEW new, IsGraph(graph, new), NEW w \in WriterStates(graph), Unended(graph, w)
    PROVE  LET i == Asked(graph, w)
           IN  /\ WriteStep(graph, w) = WriteObject(graph, w, i)
               /\ WriteStep(graph, w).tokens = Append(w.tokens, TokenOf(graph, w, i))
               /\ TokenOf(graph, w, i) \in Token
<1> DEFINE i == Asked(graph, w)
<1>1. i \in Nat /\ (i # 0 => i \in DOMAIN graph)
  BY AskedFacts
<1>2. WriteStep(graph, w) = WriteObject(graph, w, i)
  BY DEF WriteStep, Unended
<1>3. TokenOf(graph, w, i) \in Token
  BY <1>1, TokenFits
<1> HIDE DEF i
<1>4. WriteObject(graph, w, i).tokens = Append(w.tokens, TokenOf(graph, w, i))
  <2>1. CASE Opens(graph, w, i)
    <3> DEFINE calls   == Append(w.calls, [node |-> i, done |-> 0])
               numbers == Number(graph, w, i)
               tokens  == Append(w.tokens, TokenOf(graph, w, i))
    <3>1. WriteObject(graph, w, i) = [calls |-> calls, numbers |-> numbers, tokens |-> tokens, ended |-> FALSE]
      BY <1>1, <2>1, WriteCases
    <3> HIDE DEF calls, numbers, tokens
    <3>2. WriteObject(graph, w, i).tokens = tokens
      BY <3>1
    <3> QED
      BY <3>2 DEF tokens
  <2>2. CASE ~Opens(graph, w, i)
    <3> DEFINE numbers == IF i # 0 /\ graph[i].kind = "atom" /\ Known(w, i) = {} THEN Number(graph, w, i) ELSE w.numbers
    <3>1. WriteObject(graph, w, i) = Leaf(w, numbers, TokenOf(graph, w, i))
      BY <1>1, <2>2, WriteCases
    <3> HIDE DEF numbers
    <3> QED
      BY <3>1 DEF Leaf
  <2> QED
    BY <2>1, <2>2
<1> QED
  BY <1>2, <1>3, <1>4 DEF i

LEMMA StepAppends ==
    ASSUME NEW graph, NEW new, IsGraph(graph, new), NEW w \in WriterStates(graph)
    PROVE  IsPrefix(w.tokens, WriteStep(graph, w).tokens)
<1>1. w.tokens \in Seq(Token) /\ Len(w.tokens) \in Nat
  BY StateFacts
<1>2. CASE Unended(graph, w)
  <2> DEFINE token == TokenOf(graph, w, Asked(graph, w))
  <2>1. WriteStep(graph, w).tokens = Append(w.tokens, token) /\ token \in Token
    BY <1>2, WriteOnce
  <2> HIDE DEF token
  <2> QED
    BY <1>1, <2>1, Appended DEF IsPrefix
<1>3. CASE ~Unended(graph, w)
  <2>1. WriteStep(graph, w).tokens = w.tokens
    <3>1. CASE w.ended
      BY <3>1 DEF WriteStep
    <3>2. CASE ~w.ended /\ AllWritten(graph, w)
      BY <3>2 DEF WriteStep, Back
    <3> QED
      BY <1>3, <3>1, <3>2 DEF Unended
  <2> QED
    BY <1>1, <2>1 DEF IsPrefix
<1> QED
  BY <1>2, <1>3

LEMMA TokensGrow ==
    ASSUME NEW graph, NEW new, IsGraph(graph, new), NEW m \in Nat
    PROVE  \A n \in m .. MaxSteps : IsPrefix(Writer(graph)[m].tokens, Writer(graph)[n].tokens)
<1> DEFINE tokens(n) == Writer(graph)[n].tokens
           P == {n \in Nat : IsPrefix(tokens(m), tokens(m + n))}
<1>1. \A n \in Nat : Len(tokens(n)) \in Nat
  <2> SUFFICES ASSUME NEW n \in Nat PROVE Len(tokens(n)) \in Nat
    OBVIOUS
  <2>1. Writer(graph)[n] \in WriterStates(graph)
    BY WriterSteps
  <2> QED
    BY <2>1, StateFacts
<1>2. \A n \in Nat : IsPrefix(tokens(n), tokens(n + 1))
  <2> SUFFICES ASSUME NEW n \in Nat PROVE IsPrefix(tokens(n), tokens(n + 1))
    OBVIOUS
  <2>1. Writer(graph)[n] \in WriterStates(graph) /\ Writer(graph)[n + 1] = WriteStep(graph, Writer(graph)[n])
    BY WriterSteps
  <2> QED
    BY <2>1, StepAppends
<1>3. 0 \in P
  <2>1. m + 0 = m
    OBVIOUS
  <2> QED
    BY <1>1, <2>1 DEF IsPrefix
<1> HIDE DEF tokens
<1>4. ASSUME NEW n \in P PROVE n + 1 \in P
  <2>1. n \in Nat /\ m + n \in Nat /\ m + (n + 1) = (m + n) + 1 /\ m + (n + 1) \in Nat
    OBVIOUS
  <2>2. IsPrefix(tokens(m), tokens(m + n)) /\ IsPrefix(tokens(m + n), tokens(m + (n + 1)))
    BY <1>2, <2>1
  <2>3. Len(tokens(m)) \in Nat /\ Len(tokens(m + n)) \in Nat /\ Len(tokens(m + (n + 1))) \in Nat
    BY <1>1, <2>1
  <2>4. IsPrefix(tokens(m), tokens(m + (n + 1)))
    BY <2>2, <2>3 DEF IsPrefix
  <2> QED
    BY <2>1, <2>4
<1>5. P = Nat
  <2>1. P \subseteq Nat
    OBVIOUS
  <2> HIDE DEF P
  <2> QED
    BY <1>3, <1>4, <2>1, Inductive
<1>6. ASSUME NEW n \in m .. MaxSteps PROVE IsPrefix(tokens(m), tokens(n))
  <2>1. n - m \in Nat /\ m + (n - m) = n
    BY StepsAssumption
  <2>2. n - m \in P
    BY <1>5, <2>1
  <2> QED
    BY <2>1, <2>2
<1> QED
  BY <1>6 DEF tokens

-----------------------------------------------------------------------------
(* The objects of the reader and the nodes of the graph.                    *)

(* what says of each object which node it is; the None is the node that is  *)
(* none, if there is one, and the NULL is 0.                                *)
Mirrors(graph, objects, what, o) ==
    /\ objects[o].kind = graph[what[o]].kind
    /\ objects[o].atom = graph[what[o]].atom
    /\ objects[o].hash = graph[what[o]].hash
    /\ Len(objects[o].items) = Len(graph[what[o]].parts)
    /\ \A k \in 1 .. Len(graph[what[o]].parts) : what[objects[o].items[k]] = graph[what[o]].parts[k]

HeapFits(graph, objects, what) ==
    /\ what \in [1 .. Len(objects) -> Int]
    /\ Len(objects) \in Nat \ {0, 1}
    /\ what[Null] = 0 /\ what[None] # 0
    /\ \A i \in DOMAIN graph : graph[i].kind = "none" <=> i = what[None]
    /\ \A o \in 3 .. Len(objects) : what[o] \in DOMAIN graph
    /\ \A o \in 1 .. Len(objects) : what[o] \in DOMAIN graph => Mirrors(graph, objects, what, o)
    /\ \A o, p \in 1 .. Len(objects) : what[o] = what[p] => o = p

Finished(objects, what, i) == \E o \in 1 .. Len(objects) : what[o] = i

More(objects, what, i) == [o \in 1 .. Len(objects) + 1 |-> IF o = Len(objects) + 1 THEN i ELSE what[o]]

(* An object that mirrors its node is made.                                 *)
MirrorOf(graph, objects, what, object, i) ==
    /\ object \in Node
    /\ object.kind = graph[i].kind
    /\ object.atom = graph[i].atom
    /\ object.hash = graph[i].hash
    /\ Len(object.items) = Len(graph[i].parts)
    /\ \A k \in 1 .. Len(graph[i].parts) :
          /\ object.items[k] \in 1 .. Len(objects)
          /\ what[object.items[k]] = graph[i].parts[k]

LEMMA HeapGrows ==
    ASSUME NEW graph, NEW new, IsGraph(graph, new), NEW objects, Objects(objects),
           NEW what, HeapFits(graph, objects, what), NEW i \in DOMAIN graph, ~Finished(objects, what, i),
           NEW object, MirrorOf(graph, objects, what, object, i)
    PROVE  LET all  == Append(objects, object)
               more == More(objects, what, i)
           IN  /\ HeapFits(graph, all, more)
               /\ Len(objects) \in Nat /\ Len(all) = Len(objects) + 1
               /\ \A o \in 1 .. Len(objects) : more[o] = what[o]
               /\ more[Len(objects) + 1] = i
<1> DEFINE n    == Len(objects)
           all  == Append(objects, object)
           more == More(objects, what, i)
<1>1. /\ all \in Seq(Node) /\ n \in Nat \ {0, 1}
      /\ Len(all) = n + 1
      /\ \A o \in 1 .. n : all[o] = objects[o]
      /\ all[n + 1] = object
  <2>1. objects \in Seq(Node) /\ object \in Node /\ n \in Nat \ {0, 1}
    BY DEF Objects, HeapFits, MirrorOf
  <2> QED
    BY <2>1, Appended
<1>2. i \in Nat /\ i \in Int
  BY GraphFacts
<1>3. what \in [1 .. n -> Int]
  BY DEF HeapFits
<1>4. /\ more \in [1 .. n + 1 -> Int]
      /\ \A o \in 1 .. n : more[o] = what[o]
      /\ more[n + 1] = i
  BY <1>1, <1>2, <1>3 DEF More
<1>5. \A o \in 1 .. n + 1 : o \in 1 .. n \/ o = n + 1
  BY <1>1
<1>6. \A o \in 1 .. n : what[o] # i
  BY DEF Finished
<1> HIDE DEF more, all, n
<1>a. 1 \in 1 .. n /\ 2 \in 1 .. n /\ \A o \in 3 .. n + 1 : o \in 3 .. n \/ o = n + 1
  BY <1>1
<1>7. more[Null] = 0 /\ more[None] # 0 /\ \A j \in DOMAIN graph : graph[j].kind = "none" <=> j = more[None]
  BY <1>4, <1>a DEF None, Null, HeapFits
<1>8. \A o \in 3 .. n + 1 : more[o] \in DOMAIN graph
  <2>1. \A o \in 3 .. n : o \in 1 .. n /\ what[o] \in DOMAIN graph
    <3>1. \A o \in 3 .. n : what[o] \in DOMAIN graph
      BY DEF HeapFits, n
    <3> QED
      BY <1>1, <3>1
  <2> QED
    BY <1>4, <1>a, <2>1
<1>9. ASSUME NEW o \in 1 .. n + 1, more[o] \in DOMAIN graph PROVE Mirrors(graph, all, more, o)
  <2>1. CASE o \in 1 .. n
    <3>1. what[o] \in DOMAIN graph /\ more[o] = what[o] /\ all[o] = objects[o]
      BY <1>1, <1>4, <1>9, <2>1
    <3>2. Mirrors(graph, objects, what, o)
      BY <2>1, <3>1, Zenon DEF HeapFits, n
    <3>3. ASSUME NEW k \in 1 .. Len(graph[what[o]].parts)
          PROVE  more[objects[o].items[k]] = graph[what[o]].parts[k]
      <4>1. objects[o] \in Node /\ \A j \in DOMAIN objects[o].items : objects[o].items[j] \in 1 .. o - 1
        <5>1. objects \in Seq(Node) /\ \A j \in DOMAIN objects[o].items : objects[o].items[j] \in 1 .. o - 1
          BY <2>1 DEF Objects, n
        <5> QED
          BY <2>1, <5>1, ElementOfSeq DEF n
      <4>2. DOMAIN objects[o].items = 1 .. Len(objects[o].items)
        <5>1. objects[o].items \in Seq(Nat)
          BY <4>1 DEF Node
        <5> QED
          BY <5>1, LenProperties
      <4>3. Len(objects[o].items) = Len(graph[what[o]].parts)
        BY <3>2 DEF Mirrors
      <4>4. objects[o].items[k] \in 1 .. o - 1
        BY <4>1, <4>2, <4>3
      <4>5. objects[o].items[k] \in 1 .. n
        BY <1>1, <2>1, <4>4
      <4> QED
        BY <1>4, <3>2, <4>5 DEF Mirrors
    <3> QED
      BY <3>1, <3>2, <3>3, Zenon DEF Mirrors
  <2>2. CASE o = n + 1
    <3>1. more[o] = i /\ all[o] = object
      BY <1>1, <1>4, <2>2
    <3>2. ASSUME NEW k \in 1 .. Len(graph[i].parts)
          PROVE  more[object.items[k]] = graph[i].parts[k]
      <4>1. object.items[k] \in 1 .. n /\ what[object.items[k]] = graph[i].parts[k]
        BY DEF MirrorOf, n
      <4> QED
        BY <1>4, <4>1
    <3>3. /\ object.kind = graph[i].kind /\ object.atom = graph[i].atom /\ object.hash = graph[i].hash
          /\ Len(object.items) = Len(graph[i].parts)
      BY Zenon DEF MirrorOf
    <3> QED
      BY <3>1, <3>2, <3>3, Zenon DEF Mirrors
  <2> QED
    BY <1>5, <2>1, <2>2
<1>10. \A o, p \in 1 .. n + 1 : more[o] = more[p] => o = p
  <2>1. \A o, p \in 1 .. n : what[o] = what[p] => o = p
    BY DEF HeapFits, n
  <2> QED
    BY <1>4, <1>5, <1>6, <2>1
<1>11. n + 1 \in Nat \ {0, 1}
  BY <1>1
<1>12. HeapFits(graph, all, more)
  BY <1>1, <1>4, <1>7, <1>8, <1>9, <1>10, <1>11, Zenon DEF HeapFits
<1> QED
  BY <1>1, <1>4, <1>12 DEF more, all, n

-----------------------------------------------------------------------------
(* The reader's calls and the writer's.                                     *)

(* The reader's call and the writer's call for the same object.             *)
FrameFits(graph, numbers, call, frame, what) ==
    /\ frame.kind = graph[call.node].kind
    /\ frame.kind # "dict" => frame.size = Len(graph[call.node].parts)
    /\ Len(frame.parts) = call.done
    /\ \A k \in 1 .. call.done : what[frame.parts[k]] = Parts(graph, call.node)[k]
    /\ frame.slot # 0 => frame.slot \in DOMAIN numbers /\ numbers[frame.slot] = call.node
    /\ \A p \in DOMAIN numbers : numbers[p] = call.node => frame.slot = p

FramesFit(graph, calls, numbers, fr, what) ==
    /\ Len(fr) = Len(calls)
    /\ \A k \in DOMAIN calls : FrameFits(graph, numbers, calls[k], fr[k], what)

(* An object that is not shared has been read for the part it is.           *)
Owned(graph, calls, objects, what, i) ==
    \E j \in DOMAIN graph : \E m \in DOMAIN graph[j].parts :
        /\ graph[j].parts[m] = i
        /\ Finished(objects, what, j) \/ \E k \in DOMAIN calls : calls[k].node = j /\ m <= calls[k].done

OwnersFit(graph, calls, objects, what) ==
    \A o \in 3 .. Len(objects) : ~graph[what[o]].shared => Owned(graph, calls, objects, what, what[o])

NumberedFit(graph, numbers, objects, what) ==
    \A o \in 3 .. Len(objects) : graph[what[o]].shared => \E p \in DOMAIN numbers : numbers[p] = what[o]

IsOpen(calls, i) == \E k \in DOMAIN calls : calls[k].node = i

PlacesFit(calls, numbers, places, what) ==
    /\ Len(places) = Len(numbers)
    /\ \A p \in DOMAIN numbers : IsOpen(calls, numbers[p]) \/ what[places[p]] = numbers[p]

Linked(graph, calls, numbers, objects, places, fr, what) ==
    /\ HeapFits(graph, objects, what)
    /\ \A k \in DOMAIN calls : ~Finished(objects, what, calls[k].node)
    /\ NumberedFit(graph, numbers, objects, what)
    /\ OwnersFit(graph, calls, objects, what)
    /\ calls = << >> => Len(objects) = 2
    /\ PlacesFit(calls, numbers, places, what)
    /\ FramesFit(graph, calls, numbers, fr, what)

(* The reader's state, as far as its types go.                              *)
ReaderTyped(objects, places, fr) ==
    /\ Objects(objects) /\ Len(objects) \in Nat \ {0, 1}
    /\ Len(places) \in Nat /\ places \in Seq(1 .. Len(objects))
    /\ Placeable(fr, Len(places), Len(objects))

(* A part of the innermost call is one of its object's, or a dict's NULL.   *)
LEMMA AskedPart ==
    ASSUME NEW graph, NEW new, IsGraph(graph, new), NEW w \in WriterStates(graph), Unended(graph, w),
           w.calls # << >>, Asked(graph, w) # 0
    PROVE  LET top == Innermost(w)
           IN  /\ top.node \in DOMAIN graph /\ top.done \in Nat
               /\ top.done + 1 \in DOMAIN graph[top.node].parts
               /\ graph[top.node].parts[top.done + 1] = Asked(graph, w)
<1> DEFINE top == Innermost(w)
           own == graph[top.node].parts
           all == Parts(graph, top.node)
<1>1. /\ top.node \in DOMAIN graph /\ top.done \in Nat
      /\ top.done < Len(all)
      /\ Asked(graph, w) = all[top.done + 1]
  BY AskedFacts
<1>2. /\ Len(own) \in Nat /\ DOMAIN own = 1 .. Len(own)
      /\ Len(all) = IF graph[top.node].kind = "dict" THEN Len(own) + 1 ELSE Len(own)
      /\ \A k \in 1 .. Len(own) : all[k] = own[k]
      /\ graph[top.node].kind = "dict" => all[Len(own) + 1] = 0
  BY <1>1, PartsFacts
<1> HIDE DEF top, own, all
<1>3. top.done + 1 \in 1 .. Len(own)
  <2>1. CASE graph[top.node].kind = "dict"
    <3>1. top.done + 1 # Len(own) + 1
      BY <1>1, <1>2, <2>1
    <3> QED
      BY <1>1, <1>2, <2>1, <3>1
  <2>2. CASE graph[top.node].kind # "dict"
    BY <1>1, <1>2, <2>2
  <2> QED
    BY <2>1, <2>2
<1> QED
  BY <1>1, <1>2, <1>3 DEF top, own

LEMMA Unfinished ==
    ASSUME NEW graph, NEW new, IsGraph(graph, new), NEW w \in WriterStates(graph), Unended(graph, w),
           NEW objects, NEW places, NEW fr, NEW what, Linked(graph, w.calls, w.numbers, objects, places, fr, what),
           NEW i, i = Asked(graph, w), i # 0, graph[i].kind # "none", Known(w, i) = {}
    PROVE  ~Finished(objects, what, i)
<1> SUFFICES ASSUME NEW o \in 1 .. Len(objects), what[o] = i PROVE FALSE
  BY DEF Finished
<1>1. i \in DOMAIN graph /\ i \in Nat
  BY AskedFacts
<1>2. HeapFits(graph, objects, what)
  BY DEF Linked
<1>3. o # None /\ o # Null
  BY <1>1, <1>2 DEF HeapFits
<1>4. o \in 3 .. Len(objects)
  <2>1. Len(objects) \in Nat
    BY <1>2 DEF HeapFits
  <2> QED
    BY <1>3, <2>1 DEF None, Null
<1>5. CASE graph[i].shared
  <2>1. \E p \in DOMAIN w.numbers : w.numbers[p] = i
    BY <1>4, <1>5 DEF Linked, NumberedFit
  <2> QED
    BY <2>1 DEF Known
<1>6. CASE ~graph[i].shared
  <2>1. w.calls # << >>
    BY <1>4 DEF Linked
  <2>2. Owned(graph, w.calls, objects, what, i)
    BY <1>4, <1>6 DEF Linked, OwnersFit
  <2>a. PICK j \in DOMAIN graph : \E m \in DOMAIN graph[j].parts :
           /\ graph[j].parts[m] = i
           /\ Finished(objects, what, j) \/ \E k \in DOMAIN w.calls : w.calls[k].node = j /\ m <= w.calls[k].done
    BY <2>2, Zenon DEF Owned
  <2>3. PICK m \in DOMAIN graph[j].parts :
           /\ graph[j].parts[m] = i
           /\ Finished(objects, what, j) \/ \E k \in DOMAIN w.calls : w.calls[k].node = j /\ m <= w.calls[k].done
    BY <2>a, Zenon
  <2> DEFINE top == Innermost(w)
  <2>4. /\ top.node \in DOMAIN graph /\ top.done \in Nat
        /\ top.done + 1 \in DOMAIN graph[top.node].parts
        /\ graph[top.node].parts[top.done + 1] = i
    BY <2>1, AskedPart
  <2>5. CallsFit(graph, w.calls) /\ Len(w.calls) \in DOMAIN w.calls /\ top = w.calls[Len(w.calls)]
    BY <2>1, AskedFacts, StateFacts DEF Innermost
  <2> HIDE DEF top
  <2>6. j = top.node /\ m = top.done + 1
    <3>1. \A a, b \in DOMAIN graph : \A k \in DOMAIN graph[a].parts, l \in DOMAIN graph[b].parts :
             graph[a].parts[k] = graph[b].parts[l] /\ ~graph[graph[a].parts[k]].shared
                /\ graph[graph[a].parts[k]].kind # "none" => a = b /\ k = l
      BY Zenon DEF IsGraph
    <3> QED
      BY <1>6, <2>3, <2>4, <3>1
  <2>7. ~Finished(objects, what, j)
    BY <2>5, <2>6, Zenon DEF Linked
  <2>8. PICK k \in DOMAIN w.calls : w.calls[k].node = j /\ m <= w.calls[k].done
    BY <2>3, <2>7
  <2>9. k = Len(w.calls)
    <3>1. DOMAIN w.calls = 1 .. Len(w.calls) /\ Len(w.calls) \in Nat /\ \A l \in DOMAIN w.calls : w.calls[l].node \in Nat
      BY <2>5, CallFacts
    <3>2. k < Len(w.calls) => top.node < w.calls[k].node
      BY <2>5, Zenon DEF CallsFit
    <3>3. w.calls[k].node = top.node /\ top.node \in Nat
      BY <2>5, <2>6, <2>8, <3>1
    <3> QED
      BY <3>1, <3>2, <3>3
  <2> QED
    BY <2>4, <2>5, <2>6, <2>8, <2>9
<1>7. graph[i].shared \in BOOLEAN
  BY <1>1, GraphFacts DEF GraphNode
<1> QED
  BY <1>5, <1>6, <1>7

(* More objects and more numbers do not change what has been read.          *)
LEMMA FramesStay ==
    ASSUME NEW graph, NEW calls, CallsFit(graph, calls), NEW numbers, NEW fr, NEW what, FramesFit(graph, calls, numbers, fr, what),
           NEW n \in Nat, NEW s, Placeable(fr, s, n),
           NEW more, \A o \in 1 .. n : more[o] = what[o],
           NEW all, \A p \in DOMAIN numbers : p \in DOMAIN all /\ all[p] = numbers[p],
           \A p \in DOMAIN all : p \in DOMAIN numbers \/ \A k \in DOMAIN calls : all[p] # calls[k].node
    PROVE  FramesFit(graph, calls, all, fr, more)
<1>1. Len(fr) = Len(calls) /\ DOMAIN fr = 1 .. Len(fr) /\ DOMAIN calls = 1 .. Len(calls) /\ fr \in Seq(Frame)
  BY LenProperties, CallFacts DEF FramesFit, Placeable
<1>2. ASSUME NEW k \in DOMAIN calls PROVE FrameFits(graph, all, calls[k], fr[k], more)
  <2>1. FrameFits(graph, numbers, calls[k], fr[k], what)
    BY DEF FramesFit
  <2>2. fr[k] \in Frame /\ \A j \in DOMAIN fr[k].parts : fr[k].parts[j] \in 1 .. n
    BY <1>1, ElementOfSeq DEF Placeable
  <2>3. DOMAIN fr[k].parts = 1 .. calls[k].done
    <3>1. fr[k].parts \in Seq(Nat)
      BY <2>2 DEF Frame
    <3>2. Len(fr[k].parts) = calls[k].done
      BY <2>1 DEF FrameFits
    <3> QED
      BY <3>1, <3>2, LenProperties
  <2>4. \A j \in 1 .. calls[k].done : more[fr[k].parts[j]] = Parts(graph, calls[k].node)[j]
    <3> SUFFICES ASSUME NEW j \in 1 .. calls[k].done PROVE more[fr[k].parts[j]] = Parts(graph, calls[k].node)[j]
      OBVIOUS
    <3>1. fr[k].parts[j] \in 1 .. n
      BY <2>2, <2>3
    <3>2. what[fr[k].parts[j]] = Parts(graph, calls[k].node)[j]
      BY <2>1, Zenon DEF FrameFits
    <3> QED
      BY <3>1, <3>2
  <2>5. \A p \in DOMAIN all : all[p] = calls[k].node => fr[k].slot = p
    BY <2>1 DEF FrameFits
  <2>6. fr[k].slot # 0 => fr[k].slot \in DOMAIN all /\ all[fr[k].slot] = calls[k].node
    BY <2>1 DEF FrameFits
  <2> QED
    BY <2>1, <2>4, <2>5, <2>6, Zenon DEF FrameFits
<1> QED
  BY <1>1, <1>2 DEF FramesFit

LEMMA OwnersStay ==
    ASSUME NEW graph, NEW calls, NEW objects, NEW what, OwnersFit(graph, calls, objects, what),
           NEW all, NEW more, Len(objects) \in Nat, Len(all) \in Nat, Len(objects) <= Len(all),
           \A o \in 1 .. Len(objects) : more[o] = what[o],
           NEW later,
           \A k \in DOMAIN calls :
              \/ Finished(all, more, calls[k].node)
              \/ \E l \in DOMAIN later : later[l].node = calls[k].node /\ \A m \in Nat : m <= calls[k].done => m <= later[l].done,
           \A i \in DOMAIN graph : DOMAIN graph[i].parts \subseteq Nat,
           \A o \in 3 .. Len(all) : o > Len(objects) /\ ~graph[more[o]].shared => Owned(graph, later, all, more, more[o])
    PROVE  OwnersFit(graph, later, all, more)
<1> SUFFICES ASSUME NEW o \in 3 .. Len(all), ~graph[more[o]].shared PROVE Owned(graph, later, all, more, more[o])
  BY DEF OwnersFit
<1>1. CASE o > Len(objects)
  BY <1>1
<1>2. CASE ~(o > Len(objects))
  <2>1. o \in 3 .. Len(objects) /\ more[o] = what[o]
    BY <1>2
  <2>a. PICK j \in DOMAIN graph : \E m \in DOMAIN graph[j].parts :
           /\ graph[j].parts[m] = what[o]
           /\ Finished(objects, what, j) \/ \E k \in DOMAIN calls : calls[k].node = j /\ m <= calls[k].done
    BY <1>1, <2>1, Zenon DEF OwnersFit, Owned
  <2>2. PICK m \in DOMAIN graph[j].parts :
           /\ graph[j].parts[m] = what[o]
           /\ Finished(objects, what, j) \/ \E k \in DOMAIN calls : calls[k].node = j /\ m <= calls[k].done
    BY <2>a, Zenon
  <2>3. Finished(objects, what, j) => Finished(all, more, j)
    <3>1. \A q \in 1 .. Len(objects) : q \in 1 .. Len(all)
      OBVIOUS
    <3> QED
      BY <3>1 DEF Finished
  <2>4. m \in Nat
    OBVIOUS
  <2>5. Finished(all, more, j) \/ \E k \in DOMAIN later : later[k].node = j /\ m <= later[k].done
    BY <2>2, <2>3, <2>4
  <2>6. graph[j].parts[m] = more[o]
    BY <2>1, <2>2
  <2> QED
    BY <2>5, <2>6, Zenon DEF Owned
<1> QED
  BY <1>1, <1>2

(* An object is returned to the innermost call.                             *)
LEMMA FramesReturn ==
    ASSUME NEW graph, NEW calls, CallsFit(graph, calls), calls # << >>,
           NEW numbers, NEW fr, NEW what, FramesFit(graph, calls, numbers, fr, what),
           NEW n, NEW s, Placeable(fr, s, n), NEW object \in Nat,
           calls[Len(calls)].done < Len(Parts(graph, calls[Len(calls)].node)),
           \A i \in DOMAIN graph : Len(Parts(graph, i)) \in Nat,
           what[object] = Parts(graph, calls[Len(calls)].node)[calls[Len(calls)].done + 1]
    PROVE  /\ FramesFit(graph, OneMore(calls), numbers, [fr EXCEPT ![Len(fr)].parts = Append(@, object)], what)
           /\ fr # << >>
<1> DEFINE last == Len(calls)
           top  == fr[last]
           new  == [top EXCEPT !.parts = Append(@, object)]
           later == [fr EXCEPT ![Len(fr)].parts = Append(@, object)]
           more == OneMore(calls)
<1>1. /\ Len(fr) = last /\ DOMAIN fr = 1 .. last /\ DOMAIN calls = 1 .. last /\ fr \in Seq(Frame)
      /\ last \in DOMAIN calls /\ last \in Nat
  BY LenProperties, CallFacts DEF FramesFit, Placeable
<1>2. top \in Frame
  BY <1>1, ElementOfSeq
<1>3. later = [fr EXCEPT ![last] = new]
  BY <1>1
<1>4. top.parts \in Seq(Nat) /\ top.slot \in Nat /\ top.size \in Nat /\ top.kind \in Containers
  BY <1>2 DEF Frame
<1>5. /\ Append(top.parts, object) \in Seq(Nat)
      /\ Len(Append(top.parts, object)) = Len(top.parts) + 1
      /\ Len(top.parts) \in Nat
      /\ \A k \in 1 .. Len(top.parts) : Append(top.parts, object)[k] = top.parts[k]
      /\ Append(top.parts, object)[Len(top.parts) + 1] = object
  BY <1>4, Appended
<1>6. new \in Frame
  BY <1>2, <1>5 DEF Frame
<1>7. new.kind = top.kind /\ new.slot = top.slot /\ new.size = top.size /\ new.parts = Append(top.parts, object)
  BY <1>2 DEF Frame
<1> HIDE DEF new, later
<1>8. /\ later \in Seq(Frame) /\ Len(later) = last
      /\ \A k \in 1 .. last : later[k] = IF k = last THEN new ELSE fr[k]
  BY <1>1, <1>3, <1>6, ExceptSeq
<1>9. /\ Len(more) = last /\ DOMAIN more = DOMAIN calls
      /\ \A k \in DOMAIN calls : more[k] =
            [node |-> calls[k].node, done |-> IF k = last THEN calls[k].done + 1 ELSE calls[k].done]
  BY OneMoreFits
<1> HIDE DEF more, last, top
<1>10. \A k \in DOMAIN calls : more[k].node = calls[k].node /\ more[k].done = IF k = last THEN calls[k].done + 1 ELSE calls[k].done
  <2> SUFFICES ASSUME NEW k \in DOMAIN calls
               PROVE more[k].node = calls[k].node /\ more[k].done = IF k = last THEN calls[k].done + 1 ELSE calls[k].done
    OBVIOUS
  <2> DEFINE d == IF k = last THEN calls[k].done + 1 ELSE calls[k].done
  <2>1. more[k] = [node |-> calls[k].node, done |-> d]
    BY <1>9
  <2> HIDE DEF d
  <2>2. more[k].node = calls[k].node /\ more[k].done = d
    BY <2>1
  <2> QED
    BY <2>2 DEF d
<1>11. ASSUME NEW k \in DOMAIN more PROVE FrameFits(graph, numbers, more[k], later[k], what)
  <2>1. k \in DOMAIN calls /\ k \in 1 .. last
    BY <1>1, <1>9
  <2>2. FrameFits(graph, numbers, calls[k], fr[k], what)
    BY <2>1 DEF FramesFit
  <2>3. CASE k = last
    <3>1. later[k] = new /\ fr[k] = top /\ more[k].node = calls[k].node /\ more[k].done = calls[k].done + 1
      BY <1>8, <1>10, <2>1, <2>3 DEF top
    <3>2. Len(top.parts) = calls[k].done
      BY <2>2, <3>1 DEF FrameFits
    <3>3. \A j \in 1 .. calls[k].done : what[top.parts[j]] = Parts(graph, calls[k].node)[j]
      BY <2>2, <3>1, Zenon DEF FrameFits
    <3>4. what[object] = Parts(graph, calls[k].node)[calls[k].done + 1]
      BY <2>3 DEF last
    <3>5. ASSUME NEW j \in 1 .. more[k].done PROVE what[new.parts[j]] = Parts(graph, calls[k].node)[j]
      <4>1. CASE j \in 1 .. calls[k].done
        BY <1>5, <1>7, <3>2, <3>3, <4>1
      <4>2. CASE j = calls[k].done + 1
        BY <1>5, <1>7, <3>2, <3>4, <4>2
      <4>3. calls[k].done \in Nat
        BY <1>5, <3>2
      <4> QED
        BY <3>1, <4>1, <4>2, <4>3
    <3>6. Len(new.parts) = more[k].done
      BY <1>5, <1>7, <3>1, <3>2
    <3>7. /\ top.kind = graph[calls[k].node].kind
          /\ top.kind # "dict" => top.size = Len(graph[calls[k].node].parts)
          /\ top.slot # 0 => top.slot \in DOMAIN numbers /\ numbers[top.slot] = calls[k].node
          /\ \A p \in DOMAIN numbers : numbers[p] = calls[k].node => top.slot = p
      BY <2>2, <3>1, Zenon DEF FrameFits
    <3> QED
      BY <1>7, <3>1, <3>5, <3>6, <3>7, Zenon DEF FrameFits
  <2>4. CASE k # last
    <3>1. later[k] = fr[k] /\ more[k].node = calls[k].node /\ more[k].done = calls[k].done
      BY <1>8, <1>10, <2>1, <2>4
    <3> QED
      BY <2>2, <3>1, Zenon DEF FrameFits
  <2> QED
    BY <2>3, <2>4
<1>12. FramesFit(graph, more, numbers, later, what)
  BY <1>8, <1>9, <1>11 DEF FramesFit
<1>13. fr # << >>
  <2>1. Len(<< >>) = 0 /\ last # 0
    BY <1>1
  <2> QED
    BY <1>1, <2>1
<1> QED
  BY <1>12, <1>13 DEF more, later

-----------------------------------------------------------------------------
(* An object is given to the innermost call.                                *)

ReturnTo(fr, object) == [fr EXCEPT ![Len(fr)].parts = Append(@, object)]

(* The call that is given an object is at one of its object's parts.        *)
Awaits(graph, calls, i) ==
    /\ calls # << >>
    /\ calls[Len(calls)].done < Len(Parts(graph, calls[Len(calls)].node))
    /\ i = Parts(graph, calls[Len(calls)].node)[calls[Len(calls)].done + 1]

LEMMA MoreDone ==
    ASSUME NEW graph, NEW new, IsGraph(graph, new), NEW calls, CallsFit(graph, calls), NEW i, Awaits(graph, calls, i)
    PROVE  LET more == OneMore(calls)
           IN  /\ CallsFit(graph, more) /\ DOMAIN more = DOMAIN calls /\ more # << >>
               /\ Len(calls) \in DOMAIN calls
               /\ \A k \in DOMAIN calls : calls[k].done \in Nat /\ more[k].done \in Nat
               /\ \A k \in DOMAIN calls : more[k].node = calls[k].node /\ calls[k].done <= more[k].done
               /\ more[Len(calls)].done = calls[Len(calls)].done + 1
<1> DEFINE more == OneMore(calls)
           last == Len(calls)
<1>1. /\ CallsFit(graph, more) /\ Len(more) = last /\ DOMAIN more = DOMAIN calls
      /\ \A k \in DOMAIN calls : more[k] =
            [node |-> calls[k].node, done |-> IF k = last THEN calls[k].done + 1 ELSE calls[k].done]
  BY PartsLengths, OneMoreFits DEF Awaits
<1>2. last \in DOMAIN calls /\ \A k \in DOMAIN calls : calls[k].done \in Nat /\ DOMAIN calls = 1 .. last /\ last \in Nat
  BY CallFacts DEF Awaits
<1> HIDE DEF more, last
<1>3. ASSUME NEW k \in DOMAIN calls
      PROVE  more[k].node = calls[k].node /\ more[k].done = IF k = last THEN calls[k].done + 1 ELSE calls[k].done
  <2> DEFINE d == IF k = last THEN calls[k].done + 1 ELSE calls[k].done
  <2>1. more[k] = [node |-> calls[k].node, done |-> d]
    BY <1>1
  <2> HIDE DEF d
  <2>2. more[k].node = calls[k].node /\ more[k].done = d
    BY <2>1
  <2> QED
    BY <2>2 DEF d
<1>4. more # << >>
  <2>1. Len(<< >>) = 0 /\ last # 0
    BY <1>2
  <2> QED
    BY <1>1, <2>1
<1> QED
  BY <1>1, <1>2, <1>3, <1>4 DEF more, last

LEMMA OwnPart ==
    ASSUME NEW graph, NEW new, IsGraph(graph, new), NEW j \in DOMAIN graph, NEW d \in Nat,
           d < Len(Parts(graph, j)), Parts(graph, j)[d + 1] # 0
    PROVE  d + 1 \in DOMAIN graph[j].parts /\ graph[j].parts[d + 1] = Parts(graph, j)[d + 1]
<1> DEFINE own == graph[j].parts
           all == Parts(graph, j)
<1>2. /\ Len(own) \in Nat /\ DOMAIN own = 1 .. Len(own)
      /\ Len(all) = IF graph[j].kind = "dict" THEN Len(own) + 1 ELSE Len(own)
      /\ \A k \in 1 .. Len(own) : all[k] = own[k]
      /\ graph[j].kind = "dict" => all[Len(own) + 1] = 0
  BY PartsFacts
<1> HIDE DEF own, all
<1>1. d < Len(all) /\ all[d + 1] # 0
  BY DEF all
<1>3. d + 1 \in 1 .. Len(own)
  <2>1. CASE graph[j].kind = "dict"
    <3>1. d + 1 # Len(own) + 1
      BY <1>1, <1>2, <2>1
    <3> QED
      BY <1>1, <1>2, <2>1, <3>1
  <2>2. CASE graph[j].kind # "dict"
    BY <1>1, <1>2, <2>2
  <2> QED
    BY <2>1, <2>2
<1> QED
  BY <1>2, <1>3 DEF own, all

(* An object that was made before is given to a call.                       *)
LEMMA OldReturned ==
    ASSUME NEW graph, NEW new, IsGraph(graph, new), NEW calls, CallsFit(graph, calls), NEW i, Awaits(graph, calls, i),
           NEW numbers, NEW objects, NEW places, NEW fr, NEW what,
           Linked(graph, calls, numbers, objects, places, fr, what), ReaderTyped(objects, places, fr),
           NEW object \in 1 .. Len(objects), what[object] = i
    PROVE  Linked(graph, OneMore(calls), numbers, objects, places, ReturnTo(fr, object), what) /\ fr # << >>
<1> DEFINE more == OneMore(calls)
<1>1. /\ CallsFit(graph, more) /\ DOMAIN more = DOMAIN calls /\ more # << >>
      /\ \A k \in DOMAIN calls : calls[k].done \in Nat /\ more[k].done \in Nat
      /\ \A k \in DOMAIN calls : more[k].node = calls[k].node /\ calls[k].done <= more[k].done
  BY MoreDone
<1>2. FramesFit(graph, more, numbers, ReturnTo(fr, object), what) /\ fr # << >>
  <2>1. object \in Nat /\ \A j \in DOMAIN graph : Len(Parts(graph, j)) \in Nat
    BY PartsLengths
  <2>2. FramesFit(graph, calls, numbers, fr, what) /\ Placeable(fr, Len(places), Len(objects))
    BY Zenon DEF Linked, ReaderTyped
  <2> QED
    BY <2>1, <2>2, FramesReturn DEF Awaits, ReturnTo
<1> HIDE DEF more
<1>3. OwnersFit(graph, more, objects, what)
  <2>1. \A k \in DOMAIN calls : \E l \in DOMAIN more : more[l].node = calls[k].node /\ \A m \in Nat : m <= calls[k].done => m <= more[l].done
    <3> SUFFICES ASSUME NEW k \in DOMAIN calls
                 PROVE more[k].node = calls[k].node /\ \A m \in Nat : m <= calls[k].done => m <= more[k].done
      BY <1>1
    <3> QED
      BY <1>1
  <2>2. \A j \in DOMAIN graph : DOMAIN graph[j].parts \subseteq Nat
    BY GraphFacts, LenProperties
  <2>3. OwnersFit(graph, calls, objects, what) /\ Len(objects) \in Nat
    BY DEF Linked, ReaderTyped
  <2>4. \A o \in 3 .. Len(objects) : ~(o > Len(objects))
    BY <2>3
  <2>5. Len(objects) <= Len(objects)
    BY <2>3
  <2> QED
    BY <2>1, <2>2, <2>3, <2>4, <2>5, OwnersStay
<1>4. PlacesFit(more, numbers, places, what)
  <2>1. \A j : IsOpen(calls, j) => IsOpen(more, j)
    BY <1>1 DEF IsOpen
  <2>2. PlacesFit(calls, numbers, places, what)
    BY DEF Linked
  <2> QED
    BY <2>1, <2>2, Zenon DEF PlacesFit
<1>5. \A k \in DOMAIN more : ~Finished(objects, what, more[k].node)
  BY <1>1, Zenon DEF Linked
<1>6. HeapFits(graph, objects, what) /\ NumberedFit(graph, numbers, objects, what)
  BY Zenon DEF Linked
<1>7. Linked(graph, more, numbers, objects, places, ReturnTo(fr, object), what)
  BY <1>1, <1>2, <1>3, <1>4, <1>5, <1>6, Zenon DEF Linked
<1> QED
  BY <1>2, <1>7 DEF more

(* An object is made and given to a call.  before are the calls that were   *)
(* open when it was made.                                                   *)
Receives(graph, calls, i, objects, what, object, numbers, before, places, fr, s) ==
    /\ CallsFit(graph, calls)
    /\ i \in DOMAIN graph
    /\ Awaits(graph, calls, i)
    /\ \A k \in DOMAIN calls : calls[k].node # i
    /\ Objects(objects)
    /\ HeapFits(graph, objects, what)
    /\ ~Finished(objects, what, i)
    /\ \A k \in DOMAIN calls : ~Finished(objects, what, calls[k].node)
    /\ MirrorOf(graph, objects, what, object, i)
    /\ NumberedFit(graph, numbers, objects, what)
    /\ graph[i].shared => \E p \in DOMAIN numbers : numbers[p] = i
    /\ OwnersFit(graph, before, objects, what)
    /\ \A k \in DOMAIN before : before[k].node = i \/ \E l \in DOMAIN calls : calls[l] = before[k]
    /\ PlacesFit(calls, numbers, places, More(objects, what, i))
    /\ Placeable(fr, s, Len(objects))
    /\ FramesFit(graph, calls, numbers, fr, More(objects, what, i))

LEMMA NewReturned ==
    ASSUME NEW graph, NEW new, IsGraph(graph, new), NEW calls, NEW i, NEW objects, NEW what, NEW object,
           NEW numbers, NEW before, NEW places, NEW fr, NEW s,
           Receives(graph, calls, i, objects, what, object, numbers, before, places, fr, s)
    PROVE  /\ Linked(graph, OneMore(calls), numbers, Append(objects, object), places,
                     ReturnTo(fr, Len(objects) + 1), More(objects, what, i))
           /\ fr # << >>
<1>0. /\ CallsFit(graph, calls) /\ i \in DOMAIN graph /\ Awaits(graph, calls, i)
      /\ \A k \in DOMAIN calls : calls[k].node # i
      /\ Objects(objects) /\ HeapFits(graph, objects, what) /\ ~Finished(objects, what, i)
      /\ \A k \in DOMAIN calls : ~Finished(objects, what, calls[k].node)
      /\ MirrorOf(graph, objects, what, object, i)
      /\ NumberedFit(graph, numbers, objects, what)
      /\ graph[i].shared => \E p \in DOMAIN numbers : numbers[p] = i
      /\ OwnersFit(graph, before, objects, what)
      /\ \A k \in DOMAIN before : before[k].node = i \/ \E l \in DOMAIN calls : calls[l] = before[k]
      /\ PlacesFit(calls, numbers, places, More(objects, what, i))
      /\ Placeable(fr, s, Len(objects)) /\ FramesFit(graph, calls, numbers, fr, More(objects, what, i))
  BY Zenon DEF Receives
<1> DEFINE more  == OneMore(calls)
           all   == Append(objects, object)
           later == More(objects, what, i)
           n     == Len(objects)
<1>1. /\ CallsFit(graph, more) /\ DOMAIN more = DOMAIN calls /\ more # << >>
      /\ Len(calls) \in DOMAIN calls
      /\ \A k \in DOMAIN calls : calls[k].done \in Nat /\ more[k].done \in Nat
      /\ \A k \in DOMAIN calls : more[k].node = calls[k].node /\ calls[k].done <= more[k].done
      /\ more[Len(calls)].done = calls[Len(calls)].done + 1
  BY <1>0, MoreDone
<1>2. /\ HeapFits(graph, all, later)
      /\ n \in Nat /\ Len(all) = n + 1
      /\ \A o \in 1 .. n : later[o] = what[o]
      /\ later[n + 1] = i
  BY <1>0, HeapGrows
<1>3. FramesFit(graph, more, numbers, ReturnTo(fr, n + 1), later) /\ fr # << >>
  <2> DEFINE made == n + 1
  <2>1. made \in Nat /\ \A j \in DOMAIN graph : Len(Parts(graph, j)) \in Nat
    BY <1>2, PartsLengths
  <2>2. FramesFit(graph, calls, numbers, fr, later) /\ Placeable(fr, s, n)
    BY <1>0 DEF later, n
  <2>3. /\ calls # << >> /\ calls[Len(calls)].done < Len(Parts(graph, calls[Len(calls)].node))
        /\ later[made] = Parts(graph, calls[Len(calls)].node)[calls[Len(calls)].done + 1]
    <3> HIDE DEF later, n
    <3> QED
      BY <1>0, <1>2 DEF Awaits
  <2> HIDE DEF made, later, n, more
  <2>4. FramesFit(graph, OneMore(calls), numbers, [fr EXCEPT ![Len(fr)].parts = Append(@, made)], later) /\ fr # << >>
    BY <2>1, <2>2, <2>3, <1>0, FramesReturn
  <2> QED
    BY <2>4 DEF ReturnTo, made, more
<1> HIDE DEF more, all, later, n
<1>4. Finished(all, later, i)
  BY <1>2 DEF Finished
<1>5. OwnersFit(graph, more, all, later)
  <2>1. \A k \in DOMAIN before :
          \/ Finished(all, later, before[k].node)
          \/ \E l \in DOMAIN more : more[l].node = before[k].node /\ \A m \in Nat : m <= before[k].done => m <= more[l].done
    <3> SUFFICES ASSUME NEW k \in DOMAIN before, before[k].node # i
                 PROVE  \E l \in DOMAIN more : more[l].node = before[k].node /\ \A m \in Nat : m <= before[k].done => m <= more[l].done
      BY <1>4
    <3>1. PICK l \in DOMAIN calls : calls[l] = before[k]
      BY <1>0
    <3> QED
      BY <1>1, <3>1
  <2>2. \A j \in DOMAIN graph : DOMAIN graph[j].parts \subseteq Nat
    BY GraphFacts, LenProperties
  <2>3. n \in Nat /\ Len(all) \in Nat /\ n <= Len(all)
    BY <1>2
  <2>4. ASSUME NEW o \in 3 .. Len(all), o > n PROVE Owned(graph, more, all, later, later[o])
    <3>1. later[o] = i
      <4>1. o = n + 1
        BY <1>2, <2>4
      <4> QED
        BY <1>2, <4>1
    <3> DEFINE j == calls[Len(calls)].node
               d == calls[Len(calls)].done
    <3>2. j \in DOMAIN graph /\ d \in Nat /\ d < Len(Parts(graph, j)) /\ i = Parts(graph, j)[d + 1]
      BY <1>0, <1>1 DEF CallsFit, Awaits
    <3>3. i # 0
      BY <1>0, GraphFacts
    <3>4. d + 1 \in DOMAIN graph[j].parts /\ graph[j].parts[d + 1] = i
      BY <3>2, <3>3, OwnPart
    <3>5. Len(calls) \in DOMAIN more /\ more[Len(calls)].node = j /\ d + 1 <= more[Len(calls)].done
      BY <1>1
    <3> HIDE DEF j, d
    <3> QED
      BY <3>1, <3>2, <3>4, <3>5, Zenon DEF Owned
  <2>5. /\ OwnersFit(graph, before, objects, what)
        /\ Len(objects) \in Nat /\ Len(all) \in Nat /\ Len(objects) <= Len(all)
        /\ \A o \in 1 .. Len(objects) : later[o] = what[o]
        /\ \A o \in 3 .. Len(all) : o > Len(objects) /\ ~graph[later[o]].shared => Owned(graph, more, all, later, later[o])
    BY <1>0, <1>2, <2>3, <2>4 DEF n
  <2> QED
    BY <2>1, <2>2, <2>5, OwnersStay, SMTT(30)
<1>6. PlacesFit(more, numbers, places, later)
  <2>1. \A j : IsOpen(calls, j) => IsOpen(more, j)
    BY <1>1 DEF IsOpen
  <2>2. PlacesFit(calls, numbers, places, later)
    BY <1>0 DEF later
  <2> QED
    BY <2>1, <2>2, Zenon DEF PlacesFit
<1>7. ASSUME NEW k \in DOMAIN more PROVE ~Finished(all, later, more[k].node)
  <2>1. k \in DOMAIN calls /\ more[k].node = calls[k].node /\ calls[k].node # i /\ ~Finished(objects, what, calls[k].node)
    BY <1>0, <1>1
  <2>2. \A o \in 1 .. n + 1 : o \in 1 .. n \/ o = n + 1
    BY <1>2
  <2> QED
    BY <1>2, <2>1, <2>2 DEF Finished, n
<1>8. NumberedFit(graph, numbers, all, later)
  <2> SUFFICES ASSUME NEW o \in 3 .. n + 1, graph[later[o]].shared PROVE \E p \in DOMAIN numbers : numbers[p] = later[o]
    BY <1>2 DEF NumberedFit
  <2>1. CASE o = n + 1
    BY <1>0, <1>2, <2>1
  <2>2. CASE o # n + 1
    <3>1. o \in 3 .. Len(objects) /\ later[o] = what[o]
      BY <1>2, <2>2 DEF n
    <3> QED
      BY <1>0, <3>1 DEF NumberedFit
  <2> QED
    BY <2>1, <2>2
<1>9. Linked(graph, more, numbers, all, places, ReturnTo(fr, n + 1), later)
  BY <1>1, <1>2, <1>3, <1>5, <1>6, <1>7, <1>8, Zenon DEF Linked
<1> QED
  BY <1>3, <1>9 DEF more, all, later, n

-----------------------------------------------------------------------------
(* One step of both: an atom.                                               *)

LEMMA PlacesGrow ==
    ASSUME NEW n \in Nat, NEW numbers \in Seq(Nat), NEW places \in Seq(1 .. n), NEW calls, NEW what,
           PlacesFit(calls, numbers, places, what),
           NEW more, \A o \in 1 .. n : more[o] = what[o],
           NEW later, \A j : IsOpen(calls, j) => IsOpen(later, j),
           NEW i \in Nat, NEW object \in Nat, IsOpen(later, i) \/ more[object] = i
    PROVE  /\ PlacesFit(later, numbers, places, more)
           /\ PlacesFit(later, Append(numbers, i), Append(places, object), more)
<1>1. /\ DOMAIN numbers = 1 .. Len(numbers) /\ Len(numbers) \in Nat
      /\ DOMAIN places = 1 .. Len(places) /\ Len(places) = Len(numbers)
  BY LenProperties DEF PlacesFit
<1>2. \A p \in 1 .. Len(numbers) : IsOpen(later, numbers[p]) \/ more[places[p]] = numbers[p]
  <2> SUFFICES ASSUME NEW p \in 1 .. Len(numbers), ~IsOpen(calls, numbers[p]) PROVE more[places[p]] = numbers[p]
    OBVIOUS
  <2>1. what[places[p]] = numbers[p]
    BY <1>1 DEF PlacesFit
  <2>2. places[p] \in 1 .. n
    BY <1>1, ElementOfSeq
  <2> QED
    BY <2>1, <2>2
<1>3. PlacesFit(later, numbers, places, more)
  BY <1>1, <1>2, Zenon DEF PlacesFit
<1>4. /\ DOMAIN Append(numbers, i) = 1 .. Len(numbers) + 1 /\ Len(Append(numbers, i)) = Len(numbers) + 1
      /\ \A p \in 1 .. Len(numbers) : Append(numbers, i)[p] = numbers[p]
      /\ Append(numbers, i)[Len(numbers) + 1] = i
  BY Appended
<1>5. /\ Len(Append(places, object)) = Len(numbers) + 1
      /\ \A p \in 1 .. Len(numbers) : Append(places, object)[p] = places[p]
      /\ Append(places, object)[Len(numbers) + 1] = object
  <2>1. places \in Seq(Nat)
    <3>1. \A p \in DOMAIN places : places[p] \in Nat
      BY <1>1, ElementOfSeq
    <3> QED
      BY <3>1, OfElements
  <2> QED
    BY <1>1, <2>1, Appended
<1> DEFINE all == Append(numbers, i)
           refd == Append(places, object)
<1> HIDE DEF all, refd
<1>6. ASSUME NEW p \in DOMAIN all PROVE IsOpen(later, all[p]) \/ more[refd[p]] = all[p]
  <2>1. CASE p \in 1 .. Len(numbers)
    BY <1>2, <1>4, <1>5, <2>1 DEF all, refd
  <2>2. CASE p = Len(numbers) + 1
    BY <1>4, <1>5, <2>2 DEF all, refd
  <2>3. p \in 1 .. Len(numbers) \/ p = Len(numbers) + 1
    BY <1>1, <1>4 DEF all
  <2> QED
    BY <2>1, <2>2, <2>3
<1>7. Len(refd) = Len(all)
  BY <1>4, <1>5 DEF all, refd
<1>8. PlacesFit(later, all, refd, more)
  BY <1>6, <1>7, Zenon DEF PlacesFit
<1> QED
  BY <1>3, <1>8 DEF all, refd

LEMMA AskedAwaits ==
    ASSUME NEW graph, NEW new, IsGraph(graph, new), NEW w \in WriterStates(graph), Unended(graph, w), w.calls # << >>
    PROVE  Awaits(graph, w.calls, Asked(graph, w))
BY AskedFacts DEF Awaits, Innermost

(* An atom is read for the first time.                                      *)
ReadsAtom(graph, new, w, objects, places, fr, what, i, object, refd) ==
    /\ IsGraph(graph, new) /\ w \in WriterStates(graph) /\ Unended(graph, w)
    /\ Linked(graph, w.calls, w.numbers, objects, places, fr, what)
    /\ ReaderTyped(objects, places, fr)
    /\ i = Asked(graph, w) /\ i # 0 /\ graph[i].kind = "atom" /\ Known(w, i) = {}
    /\ object = Object("atom", graph[i].atom, << >>, TRUE)
    /\ refd = IF graph[i].shared THEN Append(places, Len(objects) + 1) ELSE places

LEMMA AtomLinks ==
    ASSUME NEW graph, NEW new, NEW w, NEW objects, NEW places, NEW fr, NEW what, NEW i, NEW object, NEW refd,
           ReadsAtom(graph, new, w, objects, places, fr, what, i, object, refd)
    PROVE  LET all  == Append(objects, object)
               more == More(objects, what, i)
           IN  /\ HeapFits(graph, all, more)
               /\ more[Len(objects) + 1] = i
               /\ w.calls # << >> =>
                     /\ Linked(graph, OneMore(w.calls), Number(graph, w, i), all, refd,
                               ReturnTo(fr, Len(objects) + 1), more)
                     /\ fr # << >>
<1> USE DEF ReadsAtom
<1> DEFINE more == More(objects, what, i)
           n == Len(objects)
           calls == w.calls
           numbers == Number(graph, w, i)
<1>1. /\ i \in Nat /\ i \in DOMAIN graph /\ graph[i] \in GraphNode /\ Writable(graph, graph[i], new)
      /\ \A k \in DOMAIN calls : i < calls[k].node
  BY AskedFacts, GraphFacts
<1>2. /\ CallsFit(graph, calls) /\ w.numbers \in Seq(Nat)
      /\ \A k \in DOMAIN calls : calls[k].node # i
  <2>1. CallsFit(graph, calls) /\ w.numbers \in Seq(Nat)
    BY StateFacts
  <2>2. \A k \in DOMAIN calls : calls[k].node \in Nat
    BY <2>1, CallFacts
  <2> QED
    BY <1>1, <2>1, <2>2
<1>3. ~Finished(objects, what, i)
  <2>1. graph[i].kind # "none"
    OBVIOUS
  <2> QED
    BY <2>1, Unfinished
<1>4. MirrorOf(graph, objects, what, object, i)
  <2>1. graph[i].kind \notin Containers
    BY DEF Containers, Sized
  <2>2. graph[i].parts = << >>
    BY <1>1, <2>1, Zenon DEF Writable
  <2>3. graph[i].hash = TRUE
    <3>1. graph[i].hash = HasHash(graph, graph[i])
      BY <1>1, Zenon DEF Writable
    <3> QED
      BY <3>1 DEF HasHash
  <2>4. graph[i].atom \in Seq(Nat) /\ << >> \in Seq(Nat) /\ Len(<< >>) = 0
    BY <1>1, EmptySeq DEF GraphNode
  <2>5. object \in Node
    BY <2>4 DEF Object, Node, Types
  <2>6. object.kind = "atom" /\ object.atom = graph[i].atom /\ object.hash = TRUE /\ object.items = << >>
    BY DEF Object
  <2>7. \A k \in 1 .. Len(graph[i].parts) : FALSE
    BY <2>2, <2>4
  <2> QED
    BY <2>2, <2>3, <2>5, <2>6, <2>7 DEF MirrorOf
<1>5. /\ Objects(objects) /\ n \in Nat \ {0, 1} /\ places \in Seq(1 .. n) /\ Placeable(fr, Len(places), n)
      /\ HeapFits(graph, objects, what)
  BY Zenon DEF ReaderTyped, Linked
<1>6. /\ HeapFits(graph, Append(objects, object), more)
      /\ n \in Nat /\ Len(Append(objects, object)) = n + 1
      /\ \A o \in 1 .. n : more[o] = what[o]
      /\ more[n + 1] = i
  <2>1. IsGraph(graph, new)
    OBVIOUS
  <2> HIDE DEF ReadsAtom
  <2> QED
    BY <1>1, <1>3, <1>4, <1>5, <2>1, HeapGrows
<1>7. ASSUME calls # << >>
      PROVE  Linked(graph, OneMore(calls), numbers, Append(objects, object), refd, ReturnTo(fr, n + 1), more) /\ fr # << >>
  <2>1. Awaits(graph, calls, i)
    BY <1>7, AskedAwaits
  <2>2. /\ graph[i].shared \in BOOLEAN
        /\ Len(w.numbers) \in Nat /\ DOMAIN w.numbers = 1 .. Len(w.numbers)
        /\ DOMAIN numbers = IF graph[i].shared THEN 1 .. Len(w.numbers) + 1 ELSE 1 .. Len(w.numbers)
        /\ \A p \in 1 .. Len(w.numbers) : numbers[p] = w.numbers[p]
        /\ graph[i].shared => numbers[Len(w.numbers) + 1] = i
    BY <1>1, NumberFacts
  <2> HIDE DEF numbers, more, n
  <2>3. NumberedFit(graph, numbers, objects, what)
    <3>1. NumberedFit(graph, w.numbers, objects, what)
      BY Zenon DEF Linked
    <3>2. \A p \in DOMAIN w.numbers : p \in DOMAIN numbers
      BY <2>2
    <3> QED
      BY <2>2, <3>1, <3>2 DEF NumberedFit
  <2>4. graph[i].shared => \E p \in DOMAIN numbers : numbers[p] = i
    <3>1. graph[i].shared => Len(w.numbers) + 1 \in DOMAIN numbers
      BY <2>2
    <3> QED
      BY <2>2, <3>1
  <2>5. PlacesFit(calls, numbers, refd, more)
    <3>1. PlacesFit(calls, w.numbers, places, what)
      BY Zenon DEF Linked
    <3>2. n + 1 \in Nat /\ n \in Nat /\ \A j : IsOpen(calls, j) => IsOpen(calls, j)
      BY <1>5
    <3>3. /\ PlacesFit(calls, w.numbers, places, more)
          /\ PlacesFit(calls, Append(w.numbers, i), Append(places, n + 1), more)
      BY <1>1, <1>2, <1>5, <1>6, <3>1, <3>2, PlacesGrow, ZenonT(60)
    <3> QED
      BY <3>3 DEF numbers, Number, Flagged, n
  <2>6. FramesFit(graph, calls, numbers, fr, more)
    <3>1. FramesFit(graph, calls, w.numbers, fr, what)
      BY Zenon DEF Linked
    <3>2. \A p \in DOMAIN w.numbers : p \in DOMAIN numbers /\ numbers[p] = w.numbers[p]
      BY <2>2
    <3>3. \A p \in DOMAIN numbers : p \in DOMAIN w.numbers \/ \A k \in DOMAIN calls : numbers[p] # calls[k].node
      BY <1>2, <2>2
    <3>4. n \in Nat
      BY <1>5
    <3> QED
      BY <1>2, <1>5, <1>6, <3>1, <3>2, <3>3, <3>4, FramesStay, ZenonT(60)
  <2>7. OwnersFit(graph, calls, objects, what) /\ \A k \in DOMAIN calls : ~Finished(objects, what, calls[k].node)
    BY Zenon DEF Linked
  <2>8. \A k \in DOMAIN calls : calls[k].node = i \/ \E l \in DOMAIN calls : calls[l] = calls[k]
    OBVIOUS
  <2>9. /\ PlacesFit(calls, numbers, refd, More(objects, what, i))
        /\ FramesFit(graph, calls, numbers, fr, More(objects, what, i))
        /\ Placeable(fr, Len(places), Len(objects))
    BY <1>5, <2>5, <2>6 DEF more, n
  <2> HIDE DEF calls
  <2>10. Receives(graph, calls, i, objects, what, object, numbers, calls, refd, fr, Len(places))
    BY <1>1, <1>2, <1>3, <1>4, <1>5, <2>1, <2>3, <2>4, <2>7, <2>8, <2>9, Zenon DEF Receives
  <2>11. /\ Linked(graph, OneMore(calls), numbers, Append(objects, object), refd,
                   ReturnTo(fr, Len(objects) + 1), More(objects, what, i))
         /\ fr # << >>
    BY <2>10, NewReturned
  <2> QED
    BY <2>11 DEF more, n
<1> QED
  BY <1>6, <1>7

-----------------------------------------------------------------------------
(* One step of both: a container is begun.                                  *)

(* A container is begun.                                                    *)
LEMMA OpenLinks ==
    ASSUME NEW graph, NEW new, IsGraph(graph, new), NEW w \in WriterStates(graph), Unended(graph, w),
           NEW objects, NEW places, NEW fr, NEW what,
           Linked(graph, w.calls, w.numbers, objects, places, fr, what), ReaderTyped(objects, places, fr),
           NEW i, i = Asked(graph, w), Opens(graph, w, i),
           NEW refd, refd = IF graph[i].shared THEN Append(places, None) ELSE places,
           NEW frame \in Frame, frame.kind = graph[i].kind, frame.kind # "dict" => frame.size = Len(graph[i].parts),
           frame.slot = IF graph[i].shared THEN Len(places) + 1 ELSE 0, frame.parts = << >>
    PROVE  Linked(graph, Append(w.calls, [node |-> i, done |-> 0]), Number(graph, w, i), objects, refd, Append(fr, frame), what)
<1> DEFINE calls == w.calls
           call == [node |-> i, done |-> 0]
           later == Append(calls, call)
           n == Len(objects)
           c == Len(calls)
           numbers == Number(graph, w, i)
           more == Append(fr, frame)
<1>1. /\ i # 0 /\ i \in Nat /\ i \in DOMAIN graph /\ graph[i].kind \in Containers /\ Known(w, i) = {}
      /\ \A k \in DOMAIN calls : i < calls[k].node
  BY AskedFacts DEF Opens
<1>2. /\ CallsFit(graph, calls) /\ w.numbers \in Seq(Nat)
      /\ \A k \in DOMAIN calls : calls[k].node # i
  <2>1. CallsFit(graph, calls) /\ w.numbers \in Seq(Nat)
    BY StateFacts
  <2>2. \A k \in DOMAIN calls : calls[k].node \in Nat
    BY <2>1, CallFacts
  <2> QED
    BY <1>1, <2>1, <2>2
<1>3. ~Finished(objects, what, i)
  <2>1. graph[i].kind # "none"
    BY <1>1 DEF Containers, Sized
  <2> QED
    BY <1>1, <2>1, Unfinished
<1>4. /\ Objects(objects) /\ n \in Nat \ {0, 1} /\ Len(places) \in Nat /\ places \in Seq(1 .. n) /\ Placeable(fr, Len(places), n)
  BY Zenon DEF ReaderTyped
<1>5. /\ HeapFits(graph, objects, what)
      /\ \A k \in DOMAIN calls : ~Finished(objects, what, calls[k].node)
      /\ NumberedFit(graph, w.numbers, objects, what)
      /\ OwnersFit(graph, calls, objects, what)
      /\ PlacesFit(calls, w.numbers, places, what)
      /\ FramesFit(graph, calls, w.numbers, fr, what)
  BY Zenon DEF Linked
<1>6. /\ call.node = i /\ call.done = 0 /\ c \in Nat
      /\ DOMAIN calls = 1 .. c /\ DOMAIN later = 1 .. c + 1
      /\ \A k \in 1 .. c : later[k] = calls[k]
      /\ later[c + 1] = call
      /\ Len(later) = c + 1
  <2>1. calls \in Seq(Call) /\ call \in Call /\ call.node = i /\ call.done = 0
    BY <1>1, <1>2 DEF Call, CallsFit
  <2> QED
    BY <2>1, Appended
<1>7. /\ graph[i].shared \in BOOLEAN
      /\ Len(w.numbers) \in Nat /\ DOMAIN w.numbers = 1 .. Len(w.numbers)
      /\ DOMAIN numbers = IF graph[i].shared THEN 1 .. Len(w.numbers) + 1 ELSE 1 .. Len(w.numbers)
      /\ \A p \in 1 .. Len(w.numbers) : numbers[p] = w.numbers[p] /\ w.numbers[p] # i
      /\ graph[i].shared => numbers[Len(w.numbers) + 1] = i
  BY <1>1, NumberFacts
<1>8. /\ \A p \in DOMAIN w.numbers : p \in DOMAIN numbers /\ numbers[p] = w.numbers[p]
      /\ \A p \in DOMAIN numbers : p \in DOMAIN w.numbers \/ (graph[i].shared /\ p = Len(w.numbers) + 1 /\ numbers[p] = i)
  <2> HIDE DEF numbers
  <2> QED
    BY <1>7
<1> HIDE DEF numbers, later, call, n, c, more
<1>9. \A k \in 1 .. c + 1 : k \in 1 .. c \/ k = c + 1
  BY <1>6
<1>10. \A k \in DOMAIN later : ~Finished(objects, what, later[k].node)
  BY <1>3, <1>5, <1>6, <1>9
<1>11. NumberedFit(graph, numbers, objects, what)
  <2> SUFFICES ASSUME NEW o \in 3 .. Len(objects), graph[what[o]].shared PROVE \E p \in DOMAIN numbers : numbers[p] = what[o]
    BY DEF NumberedFit
  <2>1. PICK p \in DOMAIN w.numbers : w.numbers[p] = what[o]
    BY <1>5 DEF NumberedFit
  <2> QED
    BY <1>8, <2>1
<1>12. OwnersFit(graph, later, objects, what)
  <2>1. \A k \in DOMAIN calls : \E l \in DOMAIN later : later[l].node = calls[k].node /\ \A m \in Nat : m <= calls[k].done => m <= later[l].done
    <3> SUFFICES ASSUME NEW k \in DOMAIN calls PROVE k \in DOMAIN later /\ later[k] = calls[k]
      OBVIOUS
    <3> QED
      BY <1>6
  <2>2. \A j \in DOMAIN graph : DOMAIN graph[j].parts \subseteq Nat
    BY GraphFacts, LenProperties
  <2>3. /\ Len(objects) \in Nat /\ Len(objects) <= Len(objects)
        /\ \A o \in 3 .. Len(objects) : ~(o > Len(objects))
    BY <1>4 DEF n
  <2> QED
    BY <1>5, <2>1, <2>2, <2>3, OwnersStay
<1>13. PlacesFit(later, numbers, refd, what)
  <2>1. \A j : IsOpen(calls, j) => IsOpen(later, j)
    <3> SUFFICES ASSUME NEW k \in DOMAIN calls PROVE IsOpen(later, calls[k].node)
      BY DEF IsOpen
    <3>1. k \in DOMAIN later /\ later[k].node = calls[k].node
      BY <1>6
    <3> QED
      BY <3>1 DEF IsOpen
  <2>2. IsOpen(later, i)
    <3>1. c + 1 \in DOMAIN later /\ later[c + 1].node = i
      BY <1>6
    <3> QED
      BY <3>1 DEF IsOpen
  <2>3. None \in Nat /\ n \in Nat
    BY <1>4 DEF None
  <2>4. /\ PlacesFit(later, w.numbers, places, what)
        /\ PlacesFit(later, Append(w.numbers, i), Append(places, None), what)
    BY <1>1, <1>2, <1>4, <1>5, <2>1, <2>2, <2>3, PlacesGrow
  <2> QED
    BY <2>4 DEF numbers, Number, Flagged
<1>14. FramesFit(graph, calls, numbers, fr, what)
  <2>1. \A p \in DOMAIN numbers : p \in DOMAIN w.numbers \/ \A k \in DOMAIN calls : numbers[p] # calls[k].node
    BY <1>2, <1>8
  <2>2. n \in Nat /\ \A o \in 1 .. n : what[o] = what[o]
    BY <1>4
  <2> QED
    BY <1>2, <1>4, <1>5, <1>8, <2>1, <2>2, FramesStay
<1>15. /\ Len(fr) = c /\ Len(more) = c + 1
       /\ \A k \in 1 .. c : more[k] = fr[k]
       /\ more[c + 1] = frame
  <2>1. fr \in Seq(Frame) /\ Len(fr) = c
    BY <1>4, <1>5 DEF Placeable, FramesFit, c
  <2> QED
    BY <2>1, Appended DEF more
<1>16. FrameFits(graph, numbers, call, frame, what)
  <2>1. Len(places) = Len(w.numbers)
    BY <1>5 DEF PlacesFit
  <2>2. frame.slot # 0 => frame.slot \in DOMAIN numbers /\ numbers[frame.slot] = i
    BY <1>7, <2>1
  <2>3. \A p \in DOMAIN numbers : numbers[p] = i => frame.slot = p
    BY <1>7, <1>8, <2>1
  <2>4. Len(frame.parts) = 0 /\ \A k \in 1 .. 0 : FALSE
    BY EmptySeq
  <2>5. call.node = i /\ call.done = 0
    BY <1>6
  <2>6. \A k \in 1 .. call.done : what[frame.parts[k]] = Parts(graph, call.node)[k]
    BY <2>4, <2>5
  <2> QED
    BY <2>2, <2>3, <2>4, <2>5, <2>6, Zenon DEF FrameFits
<1>17. FramesFit(graph, later, numbers, more, what)
  <2> SUFFICES ASSUME NEW k \in 1 .. c + 1 PROVE FrameFits(graph, numbers, later[k], more[k], what)
    BY <1>6, <1>15 DEF FramesFit
  <2>1. CASE k \in 1 .. c
    <3>1. FrameFits(graph, numbers, calls[k], fr[k], what)
      BY <1>6, <1>14, <2>1 DEF FramesFit
    <3> QED
      BY <1>6, <1>15, <2>1, <3>1
  <2>2. CASE k = c + 1
    BY <1>6, <1>15, <1>16, <2>2
  <2> QED
    BY <1>9, <2>1, <2>2
<1>18. later # << >>
  <2>1. Len(<< >>) = 0 /\ c + 1 # 0
    BY <1>6
  <2> QED
    BY <1>6, <2>1
<1>19. Linked(graph, later, numbers, objects, refd, more, what)
  BY <1>5, <1>10, <1>11, <1>12, <1>13, <1>17, <1>18, Zenon DEF Linked
<1> QED
  BY <1>19 DEF later, numbers, more, call

-----------------------------------------------------------------------------
(* One step of both: a container is complete.                               *)

(* The reader and the writer are both done with a container.                *)
Closing(graph, new, w, objects, places, fr, what, i, object, slot, refd) ==
    /\ IsGraph(graph, new) /\ w \in WriterStates(graph) /\ w.calls # << >>
    /\ Linked(graph, w.calls, w.numbers, objects, places, fr, what)
    /\ ReaderTyped(objects, places, fr)
    /\ i = Innermost(w).node
    /\ MirrorOf(graph, objects, what, object, i)
    /\ slot = fr[Len(fr)].slot
    /\ refd = IF slot = 0 THEN places ELSE [places EXCEPT ![slot] = Len(objects) + 1]

LEMMA CloseLinks ==
    ASSUME NEW graph, NEW new, NEW w, NEW objects, NEW places, NEW fr, NEW what, NEW i, NEW object, NEW slot, NEW refd,
           Closing(graph, new, w, objects, places, fr, what, i, object, slot, refd)
    PROVE  LET all   == Append(objects, object)
               more  == More(objects, what, i)
               outer == SubSeq(w.calls, 1, Len(w.calls) - 1)
               rest  == SubSeq(fr, 1, Len(fr) - 1)
           IN  /\ HeapFits(graph, all, more)
               /\ more[Len(objects) + 1] = i
               /\ outer = << >> => i = Root(graph)
               /\ outer = << >> <=> rest = << >>
               /\ outer # << >> => Linked(graph, OneMore(outer), w.numbers, all, refd, ReturnTo(rest, Len(objects) + 1), more)
<1> USE DEF Closing
<1> DEFINE calls == w.calls
           numbers == w.numbers
           outer == SubSeq(calls, 1, Len(calls) - 1)
           rest  == SubSeq(fr, 1, Len(fr) - 1)
           n == Len(objects)
           c == Len(calls)
           more  == More(objects, what, i)
<1>1. /\ CallsFit(graph, calls) /\ numbers \in Seq(Nat) /\ NumbersFit(graph, calls, numbers)
      /\ DOMAIN numbers = 1 .. Len(numbers) /\ Len(numbers) \in Nat
  BY StateFacts
<1>2. /\ CallsFit(graph, outer)
      /\ c \in Nat \ {0}
      /\ Len(outer) = c - 1
      /\ DOMAIN calls = 1 .. c
      /\ DOMAIN outer = 1 .. c - 1
      /\ \A k \in DOMAIN outer : outer[k] = calls[k]
      /\ outer # << >> => outer[Len(outer)].done < Len(Parts(graph, outer[Len(outer)].node))
  BY <1>1, OuterFits
<1>3. /\ Objects(objects) /\ n \in Nat \ {0, 1} /\ Len(places) \in Nat /\ places \in Seq(1 .. n) /\ Placeable(fr, Len(places), n)
  BY Zenon DEF ReaderTyped
<1>4. /\ HeapFits(graph, objects, what)
      /\ \A k \in DOMAIN calls : ~Finished(objects, what, calls[k].node)
      /\ NumberedFit(graph, numbers, objects, what)
      /\ OwnersFit(graph, calls, objects, what)
      /\ PlacesFit(calls, numbers, places, what)
      /\ FramesFit(graph, calls, numbers, fr, what)
  BY Zenon DEF Linked
<1>5. c \in DOMAIN calls /\ i = calls[c].node /\ i \in DOMAIN graph /\ i \in Nat
  <2>1. c \in DOMAIN calls
    BY <1>2
  <2>2. calls[c].node \in DOMAIN graph
    BY <1>1, <2>1, Zenon DEF CallsFit
  <2> QED
    BY <2>1, <2>2, GraphFacts DEF Innermost
<1>6. /\ rest \in Seq(Frame) /\ Len(rest) = c - 1 /\ Len(fr) = c /\ DOMAIN rest = 1 .. c - 1
      /\ \A k \in 1 .. c - 1 : rest[k] = fr[k]
  <2>1. fr \in Seq(Frame) /\ Len(fr) = c
    BY <1>3, <1>4 DEF Placeable, FramesFit
  <2>2. fr # << >>
    <3>1. Len(<< >>) = 0
      OBVIOUS
    <3> QED
      BY <1>2, <2>1, <3>1
  <2> QED
    BY <2>1, <2>2, Prefix
<1>7. ~Finished(objects, what, i)
  BY <1>4, <1>5
<1>8. /\ HeapFits(graph, Append(objects, object), more)
      /\ \A o \in 1 .. n : more[o] = what[o]
      /\ more[n + 1] = i
  BY <1>3, <1>4, <1>5, <1>7, HeapGrows
<1> HIDE DEF calls, numbers, outer, rest, n, c, more
<1>9. outer = << >> => i = Root(graph)
  <2>1. ASSUME outer = << >> PROVE c = 1
    <3>1. Len(outer) = 0
      BY <2>1
    <3> QED
      BY <1>2, <3>1
  <2>2. calls # << >> /\ 1 \in DOMAIN calls
    BY <1>2 DEF calls
  <2> QED
    BY <1>1, <1>5, <2>1, <2>2, Zenon DEF CallsFit
<1>10. outer = << >> <=> rest = << >>
  <2>1. outer = << >> <=> Len(outer) = 0
    <3>1. outer \in Seq(Call)
      BY <1>2 DEF CallsFit
    <3> QED
      BY <3>1, EmptySeq
  <2>2. rest = << >> <=> Len(rest) = 0
    BY <1>6, EmptySeq
  <2> QED
    BY <1>2, <1>6, <2>1, <2>2
<1>11. ASSUME outer # << >>
       PROVE  Linked(graph, OneMore(outer), numbers, Append(objects, object), refd, ReturnTo(rest, n + 1), more)
  <2>1. c - 1 \in DOMAIN outer /\ c - 1 \in Nat \ {0} /\ Len(outer) = c - 1
    <3>1. outer \in Seq(Call)
      BY <1>2 DEF CallsFit
    <3>2. Len(outer) # 0
      BY <1>11, <3>1, EmptySeq
    <3> QED
      BY <1>2, <3>2
  <2>2. \A k \in DOMAIN outer : k \in DOMAIN calls /\ k \in Nat /\ k < c /\ outer[k] = calls[k]
    BY <1>2
  <2>3. Awaits(graph, outer, i)
    <3>1. /\ outer[c - 1] = calls[c - 1] /\ c - 1 \in DOMAIN calls /\ (c - 1) + 1 \in DOMAIN calls /\ (c - 1) + 1 = c
      BY <1>2, <2>1, <2>2
    <3>2. i = Parts(graph, outer[c - 1].node)[outer[c - 1].done + 1]
      BY <1>1, <1>5, <3>1, Zenon DEF CallsFit
    <3> QED
      BY <1>2, <1>11, <2>1, <3>2, Zenon DEF Awaits
  <2>4. \A k \in DOMAIN outer : outer[k].node # i
    <3> SUFFICES ASSUME NEW k \in DOMAIN outer PROVE calls[k].node # calls[c].node
      BY <1>5, <2>2
    <3>1. calls[c].node < calls[k].node
      BY <1>1, <1>5, <2>2, Zenon DEF CallsFit
    <3>2. calls[c].node \in Nat
      BY <1>5
    <3> QED
      BY <3>1, <3>2
  <2>5. \A k \in DOMAIN outer : ~Finished(objects, what, outer[k].node)
    BY <1>4, <2>2
  <2>6. ASSUME graph[i].shared PROVE \E p \in DOMAIN numbers : numbers[p] = i
    BY <1>1, <1>5, <2>6, Zenon DEF NumbersFit
  <2>7. \A k \in DOMAIN calls : calls[k].node = i \/ \E l \in DOMAIN outer : outer[l] = calls[k]
    <3>1. \A k \in 1 .. c : k = c \/ k \in 1 .. c - 1
      BY <1>2
    <3> QED
      BY <1>2, <1>5, <3>1
  <2>8. /\ FrameFits(graph, numbers, calls[c], fr[c], what)
        /\ slot = fr[c].slot /\ fr[c] \in Frame /\ slot \in 0 .. Len(places)
        /\ slot # 0 => slot \in DOMAIN numbers /\ numbers[slot] = i
        /\ \A p \in DOMAIN numbers : numbers[p] = i => slot = p
    <3>1. FrameFits(graph, numbers, calls[c], fr[c], what) /\ slot = fr[c].slot
      BY <1>4, <1>5, <1>6 DEF FramesFit
    <3>2. fr \in Seq(Frame) /\ c \in DOMAIN fr /\ DOMAIN fr = 1 .. Len(fr)
      BY <1>2, <1>3, <1>6, LenProperties DEF Placeable
    <3>3. fr[c] \in Frame /\ slot \in 0 .. Len(places)
      BY <1>3, <3>1, <3>2, ElementOfSeq DEF Placeable
    <3> QED
      BY <1>5, <3>1, <3>3 DEF FrameFits
  <2>9. PlacesFit(outer, numbers, refd, more)
    <3>1. Len(places) = Len(numbers) /\ DOMAIN places = 1 .. Len(places)
      BY <1>3, <1>4, LenProperties DEF PlacesFit
    <3>2. /\ Len(refd) = Len(numbers)
          /\ \A p \in DOMAIN numbers : refd[p] = IF slot # 0 /\ p = slot THEN n + 1 ELSE places[p]
      <4>1. CASE slot = 0
        BY <3>1, <4>1
      <4>2. CASE slot # 0
        <5>1. refd = [places EXCEPT ![slot] = n + 1]
          BY <4>2 DEF n
        <5>2. slot \in 1 .. Len(places)
          BY <1>3, <2>8, <4>2
        <5>3. places \in Seq(1 .. n + 1)
          <6>1. \A p \in DOMAIN places : places[p] \in 1 .. n
            BY <1>3, <3>1, ElementOfSeq
          <6>2. \A x \in 1 .. n : x \in 1 .. n + 1
            BY <1>3
          <6> QED
            BY <1>3, <6>1, <6>2, OfElements
        <5>4. n + 1 \in 1 .. n + 1
          BY <1>3
        <5>5. Len(refd) = Len(places) /\ \A p \in 1 .. Len(places) : refd[p] = IF p = slot THEN n + 1 ELSE places[p]
          BY <5>1, <5>2, <5>3, <5>4, ExceptSeq
        <5> QED
          BY <1>1, <3>1, <4>2, <5>5
      <4> QED
        BY <4>1, <4>2
    <3>3. ASSUME NEW p \in DOMAIN numbers PROVE IsOpen(outer, numbers[p]) \/ more[refd[p]] = numbers[p]
      <4>1. CASE numbers[p] = i
        <5>1. slot = p /\ slot # 0
          BY <1>1, <2>8, <4>1
        <5> QED
          BY <1>8, <3>2, <4>1, <5>1
      <4>2. CASE numbers[p] # i /\ IsOpen(calls, numbers[p])
        <5>1. PICK k \in DOMAIN calls : calls[k].node = numbers[p]
          BY <4>2 DEF IsOpen
        <5>2. k # c
          BY <1>5, <4>2, <5>1
        <5>3. k \in DOMAIN outer /\ outer[k] = calls[k]
          BY <1>2, <5>2
        <5> QED
          BY <5>1, <5>3 DEF IsOpen
      <4>3. CASE numbers[p] # i /\ ~IsOpen(calls, numbers[p])
        <5>1. what[places[p]] = numbers[p]
          BY <1>4, <4>3 DEF PlacesFit
        <5>2. places[p] \in 1 .. n
          BY <1>1, <1>3, <3>1, ElementOfSeq
        <5>3. refd[p] = places[p]
          BY <2>8, <3>2, <4>3
        <5> QED
          BY <1>8, <5>1, <5>2, <5>3
      <4> QED
        BY <4>1, <4>2, <4>3
    <3> QED
      BY <3>2, <3>3, Zenon DEF PlacesFit
  <2>10. Placeable(rest, Len(places), n)
    BY <1>3, <1>6 DEF Placeable
  <2>11. FramesFit(graph, outer, numbers, rest, more)
    <3>1. FramesFit(graph, outer, numbers, rest, what)
      <4> SUFFICES ASSUME NEW k \in DOMAIN outer PROVE FrameFits(graph, numbers, outer[k], rest[k], what)
        BY <1>2, <1>6 DEF FramesFit
      <4>1. k \in 1 .. c - 1
        BY <1>2
      <4> QED
        BY <1>4, <1>6, <2>2, <4>1 DEF FramesFit
    <3>2. n \in Nat /\ \A p \in DOMAIN numbers : p \in DOMAIN numbers /\ numbers[p] = numbers[p]
      BY <1>3
    <3> QED
      BY <1>2, <1>8, <2>10, <3>1, <3>2, FramesStay
  <2>12. /\ PlacesFit(outer, numbers, refd, More(objects, what, i))
         /\ FramesFit(graph, outer, numbers, rest, More(objects, what, i))
         /\ Placeable(rest, Len(places), Len(objects))
    BY <2>9, <2>10, <2>11 DEF more, n
  <2>13. Receives(graph, outer, i, objects, what, object, numbers, calls, refd, rest, Len(places))
    BY <1>2, <1>3, <1>4, <1>5, <1>7, <2>3, <2>4, <2>5, <2>6, <2>7, <2>12, Zenon DEF Receives
  <2>14. Linked(graph, OneMore(outer), numbers, Append(objects, object), refd,
                ReturnTo(rest, Len(objects) + 1), More(objects, what, i))
    BY <2>13, NewReturned
  <2> QED
    BY <2>14 DEF more, n
<1> QED
  BY <1>8, <1>9, <1>10, <1>11 DEF calls, numbers, outer, rest, n, more

-----------------------------------------------------------------------------
(* What is in a call that is open.                                          *)

(* What a call has read mirrors what has been written of its object.        *)
FrameOf(graph, numbers, objects, what, call, frame) ==
    /\ HeapFits(graph, objects, what)
    /\ call.node \in DOMAIN graph /\ call.done \in Nat
    /\ call.done <= Len(Parts(graph, call.node))
    /\ graph[call.node].kind \in Containers
    /\ frame \in Frame
    /\ \A j \in DOMAIN frame.parts : frame.parts[j] \in 1 .. Len(objects)
    /\ FrameFits(graph, numbers, call, frame, what)

LEMMA PartFacts ==
    ASSUME NEW graph, NEW new, IsGraph(graph, new), NEW numbers, NEW objects, NEW what, NEW call, NEW frame,
           FrameOf(graph, numbers, objects, what, call, frame)
    PROVE  LET own == graph[call.node].parts
           IN  /\ frame.parts \in Seq(Nat) /\ DOMAIN frame.parts = 1 .. call.done /\ Len(frame.parts) = call.done
               /\ Len(own) \in Nat /\ DOMAIN own = 1 .. Len(own)
               /\ \A j \in 1 .. call.done : j <= Len(own) =>
                     /\ frame.parts[j] # Null
                     /\ own[j] \in DOMAIN graph
                     /\ what[frame.parts[j]] = own[j]
                     /\ Mirrors(graph, objects, what, frame.parts[j])
               /\ \A j \in 1 .. call.done : j > Len(own) =>
                     frame.parts[j] = Null /\ graph[call.node].kind = "dict" /\ j = Len(own) + 1
<1> DEFINE i == call.node
           own == graph[i].parts
           all == Parts(graph, i)
<1>1. /\ HeapFits(graph, objects, what)
      /\ i \in DOMAIN graph /\ call.done \in Nat
      /\ call.done <= Len(all)
      /\ frame \in Frame
      /\ \A j \in DOMAIN frame.parts : frame.parts[j] \in 1 .. Len(objects)
      /\ FrameFits(graph, numbers, call, frame, what)
  BY Zenon DEF FrameOf
<1>2. /\ Len(own) \in Nat /\ DOMAIN own = 1 .. Len(own)
      /\ Len(all) = IF graph[i].kind = "dict" THEN Len(own) + 1 ELSE Len(own)
      /\ \A k \in 1 .. Len(own) : all[k] = own[k] /\ own[k] \in 1 .. i - 1
      /\ graph[i].kind = "dict" => all[Len(own) + 1] = 0
  BY <1>1, PartsFacts
<1>3. /\ i \in Nat /\ DOMAIN graph = 1 .. Len(graph) /\ Len(graph) \in Nat
  BY <1>1, GraphFacts
<1>4. frame.parts \in Seq(Nat) /\ Len(frame.parts) = call.done
  BY <1>1 DEF Frame, FrameFits
<1>5. DOMAIN frame.parts = 1 .. call.done
  BY <1>4, LenProperties
<1>6. \A j \in 1 .. call.done : what[frame.parts[j]] = all[j]
  BY <1>1, Zenon DEF FrameFits
<1>7. what[Null] = 0 /\ Null \in 1 .. Len(objects)
  <2>1. what[Null] = 0 /\ Len(objects) \in Nat \ {0, 1}
    BY <1>1, Zenon DEF HeapFits
  <2>2. \A n \in Nat \ {0, 1} : 2 \in 1 .. n
    OBVIOUS
  <2> QED
    BY <2>1, <2>2, Zenon DEF Null
<1> HIDE DEF i, own, all
<1>8. ASSUME NEW j \in 1 .. call.done, j <= Len(own)
      PROVE  /\ frame.parts[j] # Null
             /\ own[j] \in DOMAIN graph
             /\ what[frame.parts[j]] = own[j]
             /\ Mirrors(graph, objects, what, frame.parts[j])
  <2>1. j \in 1 .. Len(own)
    BY <1>1, <1>2, <1>8
  <2>2. own[j] \in 1 .. i - 1 /\ what[frame.parts[j]] = own[j]
    BY <1>2, <1>6, <2>1
  <2>3. own[j] \in DOMAIN graph /\ own[j] # 0
    BY <1>1, <1>3, <2>2
  <2>4. frame.parts[j] # Null
    BY <1>7, <2>2, <2>3
  <2>5. frame.parts[j] \in 1 .. Len(objects)
    BY <1>1, <1>5
  <2>6. Mirrors(graph, objects, what, frame.parts[j])
    BY <1>1, <2>2, <2>3, <2>5 DEF HeapFits
  <2> QED
    BY <2>2, <2>3, <2>4, <2>6
<1>9. ASSUME NEW j \in 1 .. call.done, j > Len(own)
      PROVE  frame.parts[j] = Null /\ graph[i].kind = "dict" /\ j = Len(own) + 1
  <2>1. graph[i].kind = "dict" /\ j = Len(own) + 1
    BY <1>1, <1>2, <1>9
  <2>2. what[frame.parts[j]] = 0
    BY <1>2, <1>6, <2>1
  <2>3. frame.parts[j] \in 1 .. Len(objects)
    BY <1>1, <1>5
  <2>4. frame.parts[j] = Null
    BY <1>1, <1>7, <2>2, <2>3 DEF HeapFits
  <2> QED
    BY <2>1, <2>4
<1> QED
  BY <1>2, <1>4, <1>5, <1>8, <1>9 DEF i, own

LEMMA FullIsAll ==
    ASSUME NEW graph, NEW new, IsGraph(graph, new), NEW numbers, NEW objects, NEW what, NEW call, NEW frame,
           FrameOf(graph, numbers, objects, what, call, frame)
    PROVE  Full(frame) <=> call.done = Len(Parts(graph, call.node))
<1> DEFINE i == call.node
           own == graph[i].parts
           done == call.done
           len  == Len(own)
<1>1. /\ frame.parts \in Seq(Nat) /\ DOMAIN frame.parts = 1 .. done /\ Len(frame.parts) = done
      /\ len \in Nat
      /\ \A j \in 1 .. done : j <= len => frame.parts[j] # Null
      /\ \A j \in 1 .. done : j > len => frame.parts[j] = Null
  BY PartFacts
<1>2. /\ i \in DOMAIN graph /\ done \in Nat /\ done <= Len(Parts(graph, i))
      /\ frame.kind = graph[i].kind
      /\ frame.kind # "dict" => frame.size = len
  BY DEF FrameOf, FrameFits
<1>3. Len(Parts(graph, i)) = IF graph[i].kind = "dict" THEN len + 1 ELSE len
  BY <1>2, PartsFacts
<1>4. CASE frame.kind = "dict"
  <2>1. Full(frame) <=> done % 2 = 1 /\ frame.parts[done] = Null
    BY <1>1, <1>4 DEF Full
  <2>2. len % 2 = 0
    <3>1. Writable(graph, graph[i], new)
      BY <1>2, GraphFacts
    <3> QED
      BY <1>2, <1>4, <3>1, Zenon DEF Writable
  <2>3. done <= len + 1 /\ Len(Parts(graph, i)) = len + 1
    BY <1>2, <1>3, <1>4
  <2> HIDE DEF done, len, own, i
  <2>4. ASSUME done = len + 1 PROVE done % 2 = 1 /\ frame.parts[done] = Null
    <3>1. done \in 1 .. done /\ done > len
      BY <1>1, <1>2, <2>4
    <3> QED
      BY <1>1, <2>2, <2>4, <3>1
  <2>5. ASSUME done % 2 = 1, frame.parts[done] = Null PROVE done = len + 1
    <3>1. done # 0
      BY <2>5
    <3>2. done \in 1 .. done
      BY <1>2, <3>1
    <3>3. ~(done <= len)
      BY <1>1, <2>5, <3>2
    <3> QED
      BY <1>1, <1>2, <2>3, <3>3
  <2> QED
    BY <2>1, <2>3, <2>4, <2>5 DEF done, i
<1>5. CASE frame.kind # "dict"
  <2>1. Full(frame) <=> done = len
    BY <1>1, <1>2, <1>5 DEF Full
  <2> QED
    BY <1>2, <1>3, <1>5, <2>1
<1> QED
  BY <1>4, <1>5

(* The parts that need a hash have one.                                     *)
LEMMA Hashable ==
    ASSUME NEW new, IsGraph(nodes, new), NEW numbers, NEW what, NEW call, NEW frame,
           FrameOf(nodes, numbers, heap, what, call, frame)
    PROVE  ~Unhashable(frame)
<1> DEFINE i == call.node
           own == nodes[i].parts
           done == call.done
           len  == Len(own)
<1>1. /\ frame.parts \in Seq(Nat) /\ DOMAIN frame.parts = 1 .. done /\ Len(frame.parts) = done
      /\ len \in Nat /\ DOMAIN own = 1 .. len
      /\ \A j \in 1 .. done : j <= len =>
            what[frame.parts[j]] = own[j] /\ Mirrors(nodes, heap, what, frame.parts[j])
  BY PartFacts
<1>2. /\ i \in DOMAIN nodes /\ done \in Nat /\ done <= Len(Parts(nodes, i))
      /\ frame.kind = nodes[i].kind
  BY DEF FrameOf, FrameFits
<1>3. Len(Parts(nodes, i)) = IF nodes[i].kind = "dict" THEN len + 1 ELSE len
  BY <1>2, PartsFacts
<1>4. Writable(nodes, nodes[i], new)
  BY <1>2, GraphFacts
<1>5. \A j \in 1 .. done : j <= len => heap[frame.parts[j]].hash = nodes[own[j]].hash
  BY <1>1, SMTT(30) DEF Mirrors
<1>6. CASE frame.kind \in {"set", "frozenset"}
  <2>1. frame.kind # "dict" /\ Len(Parts(nodes, i)) = len
    BY <1>2, <1>3, <1>6
  <2>2. \A k \in DOMAIN own : nodes[own[k]].hash
    BY <1>2, <1>4, <1>6, Zenon DEF Writable
  <2>3. \A k \in DOMAIN frame.parts : heap[frame.parts[k]].hash
    <3> HIDE DEF done, len, own, i
    <3> SUFFICES ASSUME NEW k \in 1 .. done PROVE heap[frame.parts[k]].hash
      BY <1>1
    <3>1. k <= len /\ k \in 1 .. len
      BY <1>1, <1>2, <2>1
    <3>2. nodes[own[k]].hash
      BY <1>1, <2>2, <3>1
    <3> QED
      BY <1>5, <3>1, <3>2
  <2> QED
    BY <2>1, <2>3, Zenon DEF Unhashable
<1>7. CASE frame.kind = "dict"
  <2>1. len % 2 = 0 /\ \A k \in DOMAIN own : k % 2 = 1 => nodes[own[k]].hash
    BY <1>2, <1>4, <1>7, Zenon DEF Writable
  <2>2. ASSUME done % 2 = 0, frame.parts # << >> PROVE heap[frame.parts[done - 1]].hash
    <3>1. done # 0
      BY <1>1, <2>2, EmptySeq
    <3>2. done <= len + 1
      BY <1>2, <1>3, <1>7
    <3> HIDE DEF done, len, own, i
    <3>3. done - 1 \in 1 .. done /\ done - 1 <= len /\ done - 1 \in 1 .. len /\ (done - 1) % 2 = 1
      BY <1>1, <1>2, <2>1, <2>2, <3>1, <3>2, SMTT(30)
    <3>4. nodes[own[done - 1]].hash
      BY <1>1, <2>1, <3>3
    <3> QED
      BY <1>5, <3>3, <3>4
  <2>3. frame.kind \notin {"set", "frozenset"}
    BY <1>7
  <2>4. Len(frame.parts) = done
    BY <1>1
  <2> HIDE DEF done
  <2> QED
    BY <2>2, <2>3, <2>4, Zenon DEF Unhashable
<1>8. CASE frame.kind \notin {"set", "frozenset", "dict"}
  BY <1>8 DEF Unhashable
<1> QED
  BY <1>6, <1>7, <1>8

(* The parts of a code object have the types that the reader expects.       *)
LEMMA FieldsMatch ==
    ASSUME new_layout \in BOOLEAN
    PROVE  /\ DOMAIN Fields = DOMAIN FieldsOf(new_layout)
           /\ Len(Fields) = Len(FieldsOf(new_layout))
           /\ DOMAIN Fields = 1 .. Len(Fields)
           /\ \A k \in DOMAIN Fields :
                 /\ Fields[k] \in TextFields <=> FieldsOf(new_layout)[k] \in TextParts
                 /\ Fields[k] \in TupleFields <=> FieldsOf(new_layout)[k] \in TupleParts
<1>1. CASE new_layout
  <2>1. /\ Fields = <<"co_code", "co_consts", "co_names", "localsplusnames", "localspluskinds",
           "co_filename", "co_name", "co_qualname", "co_linetable", "co_exceptiontable">>
        /\ FieldsOf(new_layout) = <<"code", "consts", "names", "localsplusnames", "localspluskinds",
           "filename", "name", "qualname", "linetable", "exceptiontable">>
    BY <1>1 DEF Fields, FieldsOf
  <2>2. Len(Fields) = 10 /\ Len(FieldsOf(new_layout)) = 10 /\ DOMAIN Fields = 1 .. 10 /\ DOMAIN FieldsOf(new_layout) = 1 .. 10
    BY <2>1
  <2>3. \A k \in 1 .. 10 : k \in {1, 2, 3, 4, 5, 6, 7, 8, 9, 10}
    OBVIOUS
  <2>4. \A k \in {1, 2, 3, 4, 5, 6, 7, 8, 9, 10} : Fields[k] \in TextFields <=> FieldsOf(new_layout)[k] \in TextParts
    BY <2>1 DEF TextFields, TextParts
  <2>5. \A k \in {1, 2, 3, 4, 5, 6, 7, 8, 9, 10} : Fields[k] \in TupleFields <=> FieldsOf(new_layout)[k] \in TupleParts
    BY <2>1 DEF TupleFields, TupleParts
  <2> QED
    BY <2>2, <2>3, <2>4, <2>5
<1>2. CASE ~new_layout
  <2>1. /\ Fields = <<"co_code", "co_consts", "co_names", "co_varnames", "co_freevars", "co_cellvars",
           "co_filename", "co_name", "co_linetable">>
        /\ FieldsOf(new_layout) = <<"code", "consts", "names", "varnames", "freevars", "cellvars", "filename", "name", "linetable">>
    BY <1>2 DEF Fields, FieldsOf
  <2>2. Len(Fields) = 9 /\ Len(FieldsOf(new_layout)) = 9 /\ DOMAIN Fields = 1 .. 9 /\ DOMAIN FieldsOf(new_layout) = 1 .. 9
    BY <2>1
  <2>3. \A k \in 1 .. 9 : k \in {1, 2, 3, 4, 5, 6, 7, 8, 9}
    OBVIOUS
  <2>4. \A k \in {1, 2, 3, 4, 5, 6, 7, 8, 9} : Fields[k] \in TextFields <=> FieldsOf(new_layout)[k] \in TextParts
    BY <2>1 DEF TextFields, TextParts
  <2>5. \A k \in {1, 2, 3, 4, 5, 6, 7, 8, 9} : Fields[k] \in TupleFields <=> FieldsOf(new_layout)[k] \in TupleParts
    BY <2>1 DEF TupleFields, TupleParts
  <2> QED
    BY <2>2, <2>3, <2>4, <2>5
<1> QED
  BY <1>1, <1>2

LEMMA OrdinaryParts ==
    ASSUME new_layout \in BOOLEAN, IsGraph(nodes, new_layout), NEW numbers, NEW what, NEW call, NEW frame,
           FrameOf(nodes, numbers, heap, what, call, frame), frame.kind = "code", call.done = Len(Parts(nodes, call.node))
    PROVE  Ordinary(frame.parts)
<1> DEFINE i == call.node
           own == nodes[i].parts
           done == call.done
           len  == Len(own)
           fields == FieldsOf(new_layout)
<1>1. /\ DOMAIN frame.parts = 1 .. done
      /\ len \in Nat /\ DOMAIN own = 1 .. len
      /\ \A j \in 1 .. done : j <= len =>
            what[frame.parts[j]] = own[j] /\ Mirrors(nodes, heap, what, frame.parts[j])
  BY PartFacts
<1>2. i \in DOMAIN nodes /\ nodes[i].kind = "code"
  BY DEF FrameOf, FrameFits
<1>3. done = len
  <2>1. Len(Parts(nodes, i)) = len
    BY <1>2, PartsFacts
  <2> QED
    BY <2>1
<1>4. /\ Len(own) = Len(fields)
      /\ \A k \in DOMAIN fields \cap DOMAIN own :
            fields[k] \notin TextParts => nodes[own[k]].kind = IF fields[k] \in TupleParts THEN "tuple" ELSE "atom"
  <2>1. Writable(nodes, nodes[i], new_layout)
    BY <1>2, GraphFacts
  <2> QED
    BY <1>2, <2>1, Zenon DEF Writable
<1>5. \A j \in 1 .. done : j <= len => heap[frame.parts[j]].kind = nodes[own[j]].kind
  BY <1>1 DEF Mirrors
<1> HIDE DEF i, own, done, len, fields
<1>6. /\ DOMAIN Fields = DOMAIN fields
      /\ Len(Fields) = Len(fields)
      /\ DOMAIN Fields = 1 .. Len(Fields)
      /\ \A k \in DOMAIN Fields :
                 /\ Fields[k] \in TextFields <=> fields[k] \in TextParts
                 /\ Fields[k] \in TupleFields <=> fields[k] \in TupleParts
  BY FieldsMatch DEF fields
<1> SUFFICES ASSUME NEW k \in DOMAIN Fields, Fields[k] \notin TextFields
             PROVE  heap[frame.parts[k]].kind = IF Fields[k] \in TupleFields THEN "tuple" ELSE "atom"
  BY DEF Ordinary
<1>7. k \in 1 .. len /\ k \in DOMAIN own /\ k \in 1 .. done /\ k <= len
  <2>1. len = Len(Fields)
    BY <1>4, <1>6 DEF len
  <2> QED
    BY <1>1, <1>3, <1>6, <2>1
<1>8. nodes[own[k]].kind = IF fields[k] \in TupleParts THEN "tuple" ELSE "atom"
  <2>1. k \in DOMAIN fields \cap DOMAIN own /\ fields[k] \notin TextParts
    BY <1>6, <1>7
  <2> QED
    BY <1>4, <2>1
<1> QED
  BY <1>5, <1>6, <1>7, <1>8

-----------------------------------------------------------------------------
(* The reader and the writer, step by step.                                 *)

(* What was written, and what of it there is to read.                       *)
Frozen ==
    /\ nodes \in Graphs[new_layout] /\ Writer(nodes)[MaxSteps].ended
    /\ \E n \in 0 .. Len(Write(nodes)) :
          /\ data = SubSeq(Write(nodes), 1, n)
          /\ written = IF n = Len(Write(nodes)) THEN "whole" ELSE "cut short"

LEMMA FrozenFacts ==
    ASSUME new_layout \in BOOLEAN, Frozen
    PROVE  /\ IsGraph(nodes, new_layout)
           /\ Len(data) \in Nat /\ Len(Write(nodes)) \in Nat /\ Len(data) <= Len(Write(nodes))
           /\ \A k \in 1 .. Len(data) : data[k] = Write(nodes)[k]
           /\ written = IF Len(data) = Len(Write(nodes)) THEN "whole" ELSE "cut short"
<1>1. IsGraph(nodes, new_layout)
  BY GraphsAssumption DEF Frozen
<1>2. Write(nodes) \in Seq(Token) /\ Len(Write(nodes)) \in Nat
  <2>1. Writer(nodes)[MaxSteps] \in WriterStates(nodes)
    BY <1>1, WriterSteps, StepsAssumption
  <2> QED
    BY <1>1, <2>1, StateFacts DEF Write
<1>3. PICK n \in 0 .. Len(Write(nodes)) :
         /\ data = SubSeq(Write(nodes), 1, n)
         /\ written = IF n = Len(Write(nodes)) THEN "whole" ELSE "cut short"
  BY DEF Frozen
<1> DEFINE whole == Write(nodes)
<1> HIDE DEF whole
<1>4. /\ whole \in Seq(Token) /\ Len(whole) \in Nat /\ n \in 0 .. Len(whole) /\ data = SubSeq(whole, 1, n)
  BY <1>2, <1>3 DEF whole
<1>5. n \in Int /\ n \in Nat /\ n <= Len(whole)
  BY <1>4
<1>6. Len(data) = n /\ \A k \in 1 .. n : data[k] = whole[k]
  <2>1. \A k \in 1 .. n : whole[k] \in Token
    <3>1. \A k \in 1 .. n : k \in 1 .. Len(whole)
      BY <1>4, <1>5
    <3> QED
      BY <1>4, <3>1, ElementOfSeq
  <2>2. /\ Len(SubSeq(whole, 1, n)) = IF 1 <= n THEN n - 1 + 1 ELSE 0
        /\ \A k \in 1 .. n - 1 + 1 : SubSeq(whole, 1, n)[k] = whole[1 + k - 1]
    BY <1>5, <2>1, SubSeqProperties
  <2>3. Len(SubSeq(whole, 1, n)) = n
    BY <1>5, <2>2
  <2>4. \A k \in 1 .. n : SubSeq(whole, 1, n)[k] = whole[k]
    BY <1>5, <2>2
  <2> QED
    BY <1>4, <2>3, <2>4
<1>7. written = IF Len(data) = Len(whole) THEN "whole" ELSE "cut short"
  <2>1. written = IF n = Len(whole) THEN "whole" ELSE "cut short"
    BY <1>3 DEF whole
  <2> QED
    BY <1>6, <2>1, Zenon
<1> QED
  BY <1>1, <1>4, <1>5, <1>6, <1>7 DEF whole

(* The reader's calls are the writer's after s steps.                       *)
Simulates(s, what) ==
    /\ ~Writer(nodes)[s].ended
    /\ offset = Len(Writer(nodes)[s].tokens)
    /\ Linked(nodes, Writer(nodes)[s].calls, Writer(nodes)[s].numbers, heap, refs, frames, what)

LEMMA Moves ==
    ASSUME Typed, Frozen, NEW s \in 0 .. MaxSteps, NEW what, Simulates(s, what),
           NEW w, w = Writer(nodes)[s]
    PROVE  /\ IsGraph(nodes, new_layout)
           /\ w \in WriterStates(nodes)
           /\ s + 1 \in 0 .. MaxSteps
           /\ Writer(nodes)[s + 1] = WriteStep(nodes, w)
           /\ ~w.ended /\ offset = Len(w.tokens)
           /\ Linked(nodes, w.calls, w.numbers, heap, refs, frames, what)
           /\ ReaderTyped(heap, refs, frames)
           /\ Unended(nodes, w) =>
                 /\ offset < Len(Write(nodes))
                 /\ Write(nodes)[offset + 1] = TokenOf(nodes, w, Asked(nodes, w))
<1>1. IsGraph(nodes, new_layout)
  BY FrozenFacts DEF Typed
<1>2. ~w.ended /\ offset = Len(w.tokens) /\ Linked(nodes, w.calls, w.numbers, heap, refs, frames, what)
  BY Zenon DEF Simulates
<1>3. s \in Nat /\ s + 1 \in Nat /\ s + 1 \in 0 .. MaxSteps
  <2>1. s # MaxSteps
    BY <1>2 DEF Frozen
  <2> QED
    BY <2>1, StepsAssumption
<1>4. w \in WriterStates(nodes) /\ Writer(nodes)[s + 1] = WriteStep(nodes, w)
  BY <1>1, <1>3, WriterSteps
<1>5. ReaderTyped(heap, refs, frames)
  BY Zenon DEF Typed, ReaderTyped
<1>6. ASSUME Unended(nodes, w)
      PROVE  /\ offset < Len(Write(nodes))
             /\ Write(nodes)[offset + 1] = TokenOf(nodes, w, Asked(nodes, w))
  <2> DEFINE token == TokenOf(nodes, w, Asked(nodes, w))
             next == Writer(nodes)[s + 1].tokens
             whole == Write(nodes)
  <2>1. next = Append(w.tokens, token) /\ token \in Token
    BY <1>1, <1>4, <1>6, WriteOnce
  <2>2. IsPrefix(next, whole)
    <3>1. MaxSteps \in s + 1 .. MaxSteps
      BY <1>3, StepsAssumption
    <3>2. IsPrefix(Writer(nodes)[s + 1].tokens, Writer(nodes)[MaxSteps].tokens)
      BY <1>1, <1>3, <3>1, TokensGrow
    <3> QED
      BY <3>2 DEF Write
  <2>3. w.tokens \in Seq(Token) /\ Len(w.tokens) \in Nat
    BY <1>1, <1>4, StateFacts
  <2>4. Len(whole) \in Nat
    BY FrozenFacts DEF Typed
  <2> HIDE DEF token, next, whole
  <2>5. Len(next) = Len(w.tokens) + 1 /\ next[Len(w.tokens) + 1] = token
    BY <2>1, <2>3, Appended
  <2>6. offset < Len(whole) /\ whole[offset + 1] = token
    BY <1>2, <2>2, <2>3, <2>4, <2>5 DEF IsPrefix
  <2> QED
    BY <2>6 DEF token, whole
<1> QED
  BY <1>1, <1>2, <1>3, <1>4, <1>5, <1>6

(* The innermost calls of the reader and the writer.                        *)
LEMMA Innermosts ==
    ASSUME new_layout \in BOOLEAN, IsGraph(nodes, new_layout), NEW w \in WriterStates(nodes), NEW what,
           Linked(nodes, w.calls, w.numbers, heap, refs, frames, what), ReaderTyped(heap, refs, frames)
    PROVE  /\ Len(frames) = Len(w.calls) /\ frames \in Seq(Frame)
           /\ frames = << >> <=> w.calls = << >>
           /\ w.calls # << >> =>
                 /\ FrameOf(nodes, w.numbers, heap, what, Innermost(w), Top)
                 /\ ~Unhashable(Top)
                 /\ Full(Top) <=> AllWritten(nodes, w)
                 /\ Full(Top) /\ Top.kind = "code" => Ordinary(Top.parts)
<1>1. CallsFit(nodes, w.calls) /\ w.calls \in Seq(Call)
  BY StateFacts
<1>2. FramesFit(nodes, w.calls, w.numbers, frames, what) /\ HeapFits(nodes, heap, what)
  BY Zenon DEF Linked
<1>3. frames \in Seq(Frame) /\ Placeable(frames, Len(refs), Len(heap))
  BY DEF ReaderTyped, Placeable
<1>4. Len(frames) = Len(w.calls) /\ DOMAIN frames = 1 .. Len(frames)
  BY <1>2, <1>3, LenProperties DEF FramesFit
<1>5. frames = << >> <=> w.calls = << >>
  BY <1>1, <1>3, <1>4, EmptySeq
<1>6. ASSUME w.calls # << >>
      PROVE  FrameOf(nodes, w.numbers, heap, what, Innermost(w), Top)
  <2> DEFINE c == Len(w.calls)
  <2>1. /\ c \in DOMAIN w.calls /\ Innermost(w) = w.calls[c] /\ Innermost(w).done \in Nat
        /\ DOMAIN w.calls = 1 .. c
    BY <1>1, <1>6, CallFacts DEF Innermost
  <2>2. c \in DOMAIN frames /\ Top = frames[c]
    BY <1>4, <2>1 DEF Top
  <2>3. Top \in Frame /\ \A j \in DOMAIN Top.parts : Top.parts[j] \in 1 .. Len(heap)
    BY <1>3, <1>4, <2>2, ElementOfSeq DEF Placeable
  <2>4. FrameFits(nodes, w.numbers, Innermost(w), Top, what)
    BY <1>2, <2>1, <2>2 DEF FramesFit
  <2>5. /\ Innermost(w).node \in DOMAIN nodes
        /\ nodes[Innermost(w).node].kind \in Containers
        /\ Innermost(w).done <= Len(Parts(nodes, Innermost(w).node))
    BY <1>1, <2>1 DEF CallsFit
  <2> QED
    BY <1>2, <2>1, <2>3, <2>4, <2>5, Zenon DEF FrameOf
<1>7. ASSUME w.calls # << >>
      PROVE  /\ ~Unhashable(Top)
             /\ Full(Top) <=> AllWritten(nodes, w)
             /\ Full(Top) /\ Top.kind = "code" => Ordinary(Top.parts)
  <2>1. FrameOf(nodes, w.numbers, heap, what, Innermost(w), Top)
    BY <1>6, <1>7
  <2>2. ~Unhashable(Top)
    BY <2>1, Hashable
  <2>3. Full(Top) <=> Innermost(w).done = Len(Parts(nodes, Innermost(w).node))
    BY <2>1, FullIsAll
  <2>4. Full(Top) <=> AllWritten(nodes, w)
    BY <1>7, <2>3 DEF AllWritten
  <2>5. Full(Top) /\ Top.kind = "code" => Ordinary(Top.parts)
    BY <2>1, <2>3, OrdinaryParts
  <2> QED
    BY <2>2, <2>4, <2>5
<1> QED
  BY <1>3, <1>4, <1>5, <1>6, <1>7

LEMMA EndedStays ==
    ASSUME NEW graph, NEW new, IsGraph(graph, new), NEW m \in Nat, Writer(graph)[m].ended
    PROVE  \A n \in m .. MaxSteps : Writer(graph)[n] = Writer(graph)[m]
<1> DEFINE W == Writer(graph)
           P == {n \in Nat : W[m + n] = W[m]}
<1>1. 0 \in P
  <2>1. m + 0 = m
    OBVIOUS
  <2> QED
    BY <2>1
<1>2. ASSUME NEW n \in P PROVE n + 1 \in P
  <2>1. n \in Nat /\ m + n \in Nat /\ m + (n + 1) = (m + n) + 1 /\ W[m + n] = W[m]
    OBVIOUS
  <2>2. W[(m + n) + 1] = WriteStep(graph, W[m + n])
    BY <2>1, WriterSteps
  <2>3. WriteStep(graph, W[m]) = W[m]
    BY DEF WriteStep
  <2> HIDE DEF W
  <2> QED
    BY <2>1, <2>2, <2>3
<1>3. P = Nat
  <2>1. P \subseteq Nat
    OBVIOUS
  <2> HIDE DEF P
  <2> QED
    BY <1>1, <1>2, <2>1, Inductive
<1>4. ASSUME NEW n \in m .. MaxSteps PROVE W[n] = W[m]
  <2>1. n - m \in Nat /\ m + (n - m) = n
    BY StepsAssumption
  <2>2. n - m \in P
    BY <1>3, <2>1
  <2> HIDE DEF W
  <2> QED
    BY <2>1, <2>2
<1> QED
  BY <1>4

Follows == \E s \in 0 .. MaxSteps : \E what : Simulates(s, what)

(* The root has been read.                                                  *)
Restored == \E what : HeapFits(nodes, heap, what) /\ what[result] = Root(nodes)

(* What is so of data that a writer made.                                   *)
Faithful ==
    /\ status = "reading" => Follows
    /\ status = "returned" => written = "whole" /\ Restored
    /\ status \notin {"reading", "returned"} => written = "cut short"

Unwritten == UNCHANGED <<new_layout, data, nodes, written>>

(* The reader makes the writer's next step.                                 *)
LEMMA StepFollows ==
    ASSUME Typed, Frozen, NEW s \in 0 .. MaxSteps, NEW what, Simulates(s, what),
           NEW w, w = Writer(nodes)[s], NEW v, v = WriteStep(nodes, w), Unwritten,
           ~v.ended, status' = "reading", offset' = Len(v.tokens),
           NEW more, Linked(nodes, v.calls, v.numbers, heap', refs', frames', more)
    PROVE  Faithful'
<1>1. s + 1 \in 0 .. MaxSteps /\ Writer(nodes)[s + 1] = v
  BY Moves
<1>2. nodes' = nodes
  BY DEF Unwritten
<1>3. Simulates(s + 1, more)'
  BY <1>1, <1>2 DEF Simulates
<1>4. Follows'
  <2>1. \E t \in 0 .. MaxSteps : Simulates(t, more)'
    BY <1>1, <1>3
  <2> QED
    BY <2>1 DEF Follows
<1> QED
  BY <1>4 DEF Faithful

(* The reader returns when the writer ends.                                 *)
LEMMA StepReturns ==
    ASSUME Typed, Frozen, NEW s \in 0 .. MaxSteps, NEW what, Simulates(s, what),
           NEW w, w = Writer(nodes)[s], NEW v, v = WriteStep(nodes, w), Unwritten,
           v.ended, status' = "returned", Len(v.tokens) <= Len(data),
           NEW more, HeapFits(nodes, heap', more), more[result'] = Root(nodes)
    PROVE  Faithful'
<1>1. s + 1 \in 0 .. MaxSteps /\ Writer(nodes)[s + 1] = v /\ IsGraph(nodes, new_layout)
  BY Moves
<1>2. nodes' = nodes /\ written' = written
  BY DEF Unwritten
<1>3. Restored'
  BY <1>2 DEF Restored
<1>4. Writer(nodes)[MaxSteps] = v
  <2>1. s + 1 \in Nat /\ MaxSteps \in s + 1 .. MaxSteps
    BY <1>1, StepsAssumption
  <2> QED
    BY <1>1, <2>1, EndedStays
<1>5. /\ Len(data) \in Nat /\ Len(Write(nodes)) \in Nat /\ Len(data) <= Len(Write(nodes))
      /\ written = IF Len(data) = Len(Write(nodes)) THEN "whole" ELSE "cut short"
  BY FrozenFacts DEF Typed
<1>6. Len(data) = Len(Write(nodes))
  <2>1. Len(Write(nodes)) <= Len(data)
    BY <1>4 DEF Write
  <2>2. Len(data) \in Nat /\ Len(Write(nodes)) \in Nat /\ Len(data) <= Len(Write(nodes))
    BY <1>5
  <2> QED
    BY <2>1, <2>2
<1>7. written' = "whole"
  BY <1>2, <1>5, <1>6, Zenon
<1> QED
  BY <1>3, <1>7 DEF Faithful

(* What the reader finds.                                                   *)
LEMMA Finding ==
    ASSUME Typed, Frozen, NEW s \in 0 .. MaxSteps, NEW what, Simulates(s, what),
           NEW w, w = Writer(nodes)[s], Loading
    PROVE  /\ Unended(nodes, w)
           /\ offset < Len(data) => Here = TokenOf(nodes, w, Asked(nodes, w))
           /\ offset >= Len(data) => written = "cut short"
<1>1. /\ IsGraph(nodes, new_layout) /\ w \in WriterStates(nodes) /\ ~w.ended
      /\ Linked(nodes, w.calls, w.numbers, heap, refs, frames, what)
      /\ ReaderTyped(heap, refs, frames)
      /\ Unended(nodes, w) =>
            /\ offset < Len(Write(nodes))
            /\ Write(nodes)[offset + 1] = TokenOf(nodes, w, Asked(nodes, w))
  BY Moves
<1>2. Unended(nodes, w)
  <2>1. CASE w.calls = << >>
    BY <1>1, <2>1 DEF Unended, AllWritten
  <2>2. CASE w.calls # << >>
    <3>1. frames # << >> /\ (Full(Top) <=> AllWritten(nodes, w))
      BY <1>1, <2>2, Innermosts DEF Typed
    <3>2. ~Full(Top)
      BY <3>1, Zenon DEF Loading
    <3> QED
      BY <1>1, <3>1, <3>2 DEF Unended
  <2> QED
    BY <2>1, <2>2
<1>3. /\ Len(data) \in Nat /\ offset \in Nat
      /\ \A k \in 1 .. Len(data) : data[k] = Write(nodes)[k]
      /\ written = IF Len(data) = Len(Write(nodes)) THEN "whole" ELSE "cut short"
  <2>1. offset \in 0 .. Len(data) /\ new_layout \in BOOLEAN
    BY DEF Typed
  <2>2. Len(data) \in Nat /\ \A k \in 1 .. Len(data) : data[k] = Write(nodes)[k]
    BY <2>1, FrozenFacts
  <2>3. written = IF Len(data) = Len(Write(nodes)) THEN "whole" ELSE "cut short"
    BY <2>1, FrozenFacts
  <2>4. offset \in Nat
    BY <2>1, <2>2
  <2> QED
    BY <2>2, <2>3, <2>4
<1>4. ASSUME offset < Len(data) PROVE Here = TokenOf(nodes, w, Asked(nodes, w))
  <2>1. offset + 1 \in 1 .. Len(data)
    <3>1. Len(data) \in Nat /\ offset \in Nat
      BY <1>3
    <3> QED
      BY <1>4, <3>1
  <2>2. data[offset + 1] = Write(nodes)[offset + 1]
    BY <1>3, <2>1, Zenon
  <2> QED
    BY <1>1, <1>2, <2>2, Zenon DEF Here
<1>5. ASSUME offset >= Len(data) PROVE written = "cut short"
  <2>1. Len(data) # Len(Write(nodes))
    <3>1. offset < Len(Write(nodes)) /\ Len(data) \in Nat /\ offset \in Nat
      BY <1>1, <1>2, <1>3, Zenon
    <3> QED
      BY <1>5, <3>1
  <2> QED
    BY <1>3, <2>1, Zenon
<1> QED
  BY <1>2, <1>4, <1>5

(* The token tells what the writer had before it.                           *)
LEMMA TokenTells ==
    ASSUME NEW graph, NEW new, IsGraph(graph, new), NEW w \in WriterStates(graph),
           NEW i \in Nat, i # 0 => i \in DOMAIN graph, NEW token, token = TokenOf(graph, w, i)
    PROVE  /\ token.type # "unsupported"
           /\ token.type = "null" => i = 0 /\ token.flag = FALSE
           /\ token.type = "none" => i # 0 /\ graph[i].kind = "none" /\ token.flag = FALSE
           /\ token.type = "ref"  => /\ i # 0 /\ graph[i].kind # "none" /\ Known(w, i) # {}
                                     /\ token.n = (CHOOSE k \in Known(w, i) : TRUE) - 1
           /\ token.type = "atom" => /\ i # 0 /\ graph[i].kind = "atom" /\ Known(w, i) = {}
                                     /\ token.flag = graph[i].shared /\ token.atom = graph[i].atom
           /\ token.type \in Containers => /\ Opens(graph, w, i) /\ token.type = graph[i].kind
                                           /\ token.flag = graph[i].shared /\ token.n = Len(graph[i].parts)
<1>2. /\ "none" \notin Containers /\ "atom" \notin Containers /\ "ref" \notin Containers /\ "null" \notin Containers
      /\ "unsupported" \notin Containers
  BY DEF Containers, Sized
<1>3. CASE i = 0
  <2>1. token = Put("null", FALSE, 0, << >>)
    BY <1>3 DEF TokenOf
  <2>2. token.type = "null" /\ token.flag = FALSE
    BY <2>1 DEF Put
  <2> QED
    BY <1>2, <1>3, <2>2
<1>4. CASE i # 0
  <2>1. graph[i].kind \in Containers \cup {"none", "atom"}
    <3>1. graph[i] \in GraphNode
      BY <1>4, GraphFacts
    <3> QED
      BY <3>1 DEF GraphNode
  <2>2. CASE graph[i].kind = "none"
    <3>1. token = Put("none", FALSE, 0, << >>)
      BY <1>4, <2>2 DEF TokenOf
    <3>2. token.type = "none" /\ token.flag = FALSE
      BY <3>1 DEF Put
    <3> QED
      BY <1>2, <1>4, <2>2, <3>2
  <2>3. CASE graph[i].kind # "none" /\ Known(w, i) # {}
    <3>1. token = Put("ref", FALSE, (CHOOSE k \in Known(w, i) : TRUE) - 1, << >>)
      BY <1>4, <2>3, Zenon DEF TokenOf
    <3>2. token.type = "ref" /\ token.n = (CHOOSE k \in Known(w, i) : TRUE) - 1
      BY <3>1 DEF Put
    <3>3. token.type # "unsupported" /\ token.type # "null" /\ token.type # "none" /\ token.type # "atom" /\ token.type \notin Containers
      BY <1>2, <3>2
    <3> QED
      BY <1>4, <2>3, <3>2, <3>3, Zenon
  <2>4. CASE graph[i].kind = "atom" /\ Known(w, i) = {}
    <3>1. graph[i].kind # "none"
      BY <2>4
    <3>2. token = Put("atom", Flagged(graph, i), 0, graph[i].atom)
      BY <1>4, <2>4, <3>1, Zenon DEF TokenOf
    <3>3. token.type = "atom" /\ token.flag = graph[i].shared /\ token.atom = graph[i].atom
      BY <3>2 DEF Flagged, Put
    <3>4. token.type # "unsupported" /\ token.type # "null" /\ token.type # "none" /\ token.type # "ref" /\ token.type \notin Containers
      BY <1>2, <3>3
    <3> QED
      BY <1>4, <2>4, <3>3, <3>4, Zenon
  <2>5. CASE graph[i].kind \in Containers /\ Known(w, i) = {}
    <3>1. graph[i].kind # "none" /\ graph[i].kind # "atom" /\ Opens(graph, w, i)
      BY <1>2, <1>4, <2>5 DEF Opens
    <3>2. token = Put(graph[i].kind, Flagged(graph, i), Len(graph[i].parts), << >>)
      BY <1>4, <2>5, <3>1, Zenon DEF TokenOf
    <3>3. token.type = graph[i].kind /\ token.flag = graph[i].shared /\ token.n = Len(graph[i].parts)
      BY <3>2 DEF Flagged, Put
    <3>4. token.type # "unsupported" /\ token.type # "null" /\ token.type # "none" /\ token.type # "ref" /\ token.type # "atom"
      BY <1>2, <2>5, <3>3
    <3> QED
      BY <3>1, <3>3, <3>4, Zenon
  <2> QED
    BY <2>1, <2>2, <2>3, <2>4, <2>5
<1> QED
  BY <1>3, <1>4

LEMMA FollowsOne ==
    ASSUME Faithful, status = "reading"
    PROVE  \E s \in 0 .. MaxSteps : \E what : Simulates(s, what)
BY DEF Faithful, Follows

(* The only exception is the end of the data.                               *)
LEMMA EndFaithful ==
    ASSUME Typed, Frozen, Faithful, EndOfData, UNCHANGED <<nodes, written>>
    PROVE  Faithful'
<1>1. Loading /\ offset >= Len(data) /\ status' = "EOFError" /\ written' = written
  BY DEF EndOfData, Raise
<1>2. PICK s \in 0 .. MaxSteps : \E what : Simulates(s, what)
  BY <1>1, FollowsOne DEF Loading
<1>3. PICK what : Simulates(s, what)
  BY <1>2
<1>4. written = "cut short"
  BY <1>1, <1>3, Finding
<1> QED
  BY <1>1, <1>4 DEF Faithful

(* What a token that has been found says of the writer.                     *)
LEMMA Found ==
    ASSUME Typed, Frozen, Faithful, NEW types, Finds(types)
    PROVE  \E s \in 0 .. MaxSteps : \E what :
              LET w == Writer(nodes)[s]
                  i == Asked(nodes, w)
              IN  /\ Simulates(s, what)
                  /\ Unended(nodes, w)
                  /\ Here = TokenOf(nodes, w, i)
                  /\ i \in Nat /\ (i # 0 => i \in DOMAIN nodes)
                  /\ IsGraph(nodes, new_layout) /\ w \in WriterStates(nodes)
                  /\ WriteStep(nodes, w) = WriteObject(nodes, w, i)
                  /\ Linked(nodes, w.calls, w.numbers, heap, refs, frames, what)
                  /\ ReaderTyped(heap, refs, frames)
                  /\ frames = << >> <=> w.calls = << >>
                  /\ Len(WriteStep(nodes, w).tokens) = offset + 1 /\ offset + 1 <= Len(data)
<1>1. Loading /\ offset < Len(data)
  BY DEF Finds
<1>2. PICK s \in 0 .. MaxSteps : \E what : Simulates(s, what)
  BY <1>1, FollowsOne DEF Loading
<1>3. PICK what : Simulates(s, what)
  BY <1>2
<1> DEFINE w == Writer(nodes)[s]
           i == Asked(nodes, w)
<1>4. Unended(nodes, w) /\ Here = TokenOf(nodes, w, i)
  BY <1>1, <1>3, Finding
<1>5. /\ IsGraph(nodes, new_layout) /\ w \in WriterStates(nodes)
      /\ Linked(nodes, w.calls, w.numbers, heap, refs, frames, what)
      /\ ReaderTyped(heap, refs, frames)
      /\ offset = Len(w.tokens)
  BY <1>3, Moves
<1>6. i \in Nat /\ (i # 0 => i \in DOMAIN nodes)
  BY <1>4, <1>5, AskedFacts
<1>7. /\ WriteStep(nodes, w) = WriteObject(nodes, w, i)
      /\ WriteStep(nodes, w).tokens = Append(w.tokens, TokenOf(nodes, w, i))
      /\ TokenOf(nodes, w, i) \in Token
  BY <1>4, <1>5, WriteOnce
<1>8. frames = << >> <=> w.calls = << >>
  BY <1>5, Innermosts DEF Typed
<1>9. Len(WriteStep(nodes, w).tokens) = offset + 1
  <2>1. w.tokens \in Seq(Token)
    BY <1>5, StateFacts
  <2> QED
    BY <1>5, <1>7, <2>1, Appended
<1>10. offset + 1 <= Len(data)
  <2>1. offset \in Nat /\ Len(data) \in Nat
    <3>1. data \in Seq(Token)
      BY DEF Typed
    <3>2. offset \in 0 .. Len(data)
      BY DEF Typed
    <3> QED
      BY <3>1, <3>2, LenProperties
  <2> QED
    BY <1>1, <2>1
<1> HIDE DEF w, i
<1>11. /\ Simulates(s, what) /\ Unended(nodes, w) /\ Here = TokenOf(nodes, w, i)
       /\ i \in Nat /\ (i # 0 => i \in DOMAIN nodes)
       /\ IsGraph(nodes, new_layout) /\ w \in WriterStates(nodes)
       /\ WriteStep(nodes, w) = WriteObject(nodes, w, i)
       /\ Linked(nodes, w.calls, w.numbers, heap, refs, frames, what)
       /\ ReaderTyped(heap, refs, frames)
       /\ frames = << >> <=> w.calls = << >>
       /\ Len(WriteStep(nodes, w).tokens) = offset + 1 /\ offset + 1 <= Len(data)
  BY <1>3, <1>4, <1>5, <1>6, <1>7, <1>8, <1>9, <1>10, Zenon
<1> QED
  BY <1>11, Zenon DEF w, i

LEMMA NoOtherException ==
    ASSUME Typed, Frozen, Faithful
    PROVE  ~UnknownType /\ ~UnknownReference /\ ~RefuseParts
<1>1. ASSUME UnknownType PROVE FALSE
  <2>1. Finds({"unsupported"})
    BY <1>1 DEF UnknownType
  <2>2. PICK s \in 0 .. MaxSteps : LET w == Writer(nodes)[s]
                                       i == Asked(nodes, w)
                                   IN  /\ Here = TokenOf(nodes, w, i)
                                       /\ i \in Nat /\ (i # 0 => i \in DOMAIN nodes)
                                       /\ IsGraph(nodes, new_layout) /\ w \in WriterStates(nodes)
    BY <2>1, Found
  <2>3. Here.type # "unsupported"
    BY <2>2, TokenTells
  <2> QED
    BY <2>1, <2>3 DEF Finds
<1>2. ASSUME UnknownReference PROVE FALSE
  <2>1. Finds({"ref"}) /\ Here.n >= Len(refs)
    BY <1>2 DEF UnknownReference
  <2>2. PICK s \in 0 .. MaxSteps : \E what :
            LET w == Writer(nodes)[s]
                i == Asked(nodes, w)
            IN  /\ Here = TokenOf(nodes, w, i)
                /\ i \in Nat /\ (i # 0 => i \in DOMAIN nodes)
                /\ IsGraph(nodes, new_layout) /\ w \in WriterStates(nodes)
                /\ Linked(nodes, w.calls, w.numbers, heap, refs, frames, what)
    BY <2>1, Found
  <2> DEFINE w == Writer(nodes)[s]
             i == Asked(nodes, w)
             k == CHOOSE j \in Known(w, i) : TRUE
  <2>3. Here.type = "ref"
    BY <2>1 DEF Finds
  <2>a. /\ Here = TokenOf(nodes, w, i)
        /\ i \in Nat /\ (i # 0 => i \in DOMAIN nodes)
        /\ IsGraph(nodes, new_layout) /\ w \in WriterStates(nodes)
    BY <2>2, Zenon
  <2>4. Known(w, i) # {} /\ Here.n = k - 1
    <3> HIDE DEF w, i
    <3> QED
      BY <2>3, <2>a, TokenTells, ZenonT(60)
  <2>5. k \in DOMAIN w.numbers /\ k \in Nat \ {0}
    BY <2>2, <2>4, KnownFacts
  <2>6. Len(refs) = Len(w.numbers) /\ DOMAIN w.numbers = 1 .. Len(w.numbers) /\ Len(w.numbers) \in Nat
    BY <2>2, StateFacts DEF Linked, PlacesFit
  <2> HIDE DEF w, i, k
  <2> QED
    BY <2>1, <2>4, <2>5, <2>6
<1>3. ASSUME RefuseParts PROVE FALSE
  <2>1. Calls /\ (Unhashable(Top) \/ (Top.kind = "code" /\ Full(Top) /\ ~Ordinary(Top.parts)))
    BY <1>3 DEF RefuseParts
  <2>2. PICK s \in 0 .. MaxSteps : \E what : Simulates(s, what)
    BY <2>1, FollowsOne DEF Calls
  <2>3. PICK what : Simulates(s, what)
    BY <2>2
  <2> DEFINE w == Writer(nodes)[s]
  <2>4. /\ IsGraph(nodes, new_layout) /\ w \in WriterStates(nodes)
        /\ Linked(nodes, w.calls, w.numbers, heap, refs, frames, what)
        /\ ReaderTyped(heap, refs, frames)
    BY <2>3, Moves
  <2>5. /\ frames = << >> <=> w.calls = << >>
        /\ w.calls # << >> => ~Unhashable(Top) /\ (Full(Top) /\ Top.kind = "code" => Ordinary(Top.parts))
    BY <2>4, Innermosts DEF Typed
  <2> QED
    BY <2>1, <2>5, Zenon DEF Calls
<1> QED
  BY <1>1, <1>2, <1>3

-----------------------------------------------------------------------------
(* What each step of the reader does.                                       *)

LEMMA LeafFields ==
    ASSUME NEW w, NEW numbers, NEW token
    PROVE  /\ Leaf(w, numbers, token).calls = OneMore(w.calls)
           /\ Leaf(w, numbers, token).numbers = numbers
           /\ Leaf(w, numbers, token).ended = (w.calls = << >>)
BY DEF Leaf

LEMMA ReturnCases ==
    ASSUME NEW outer, NEW object, Return(outer, object), status = "reading"
    PROVE  /\ outer = << >> => status' = "returned" /\ result' = object
           /\ outer # << >> => status' = "reading" /\ frames' = ReturnTo(outer, object)
<1>1. CASE outer = << >>
  BY <1>1 DEF Return
<1>2. CASE outer # << >>
  BY <1>2 DEF Return, ReturnTo
<1> QED
  BY <1>1, <1>2

(* The reader gives its innermost call an object that it had.               *)
LEMMA GivesOld ==
    ASSUME Typed, Frozen, NEW s \in 0 .. MaxSteps, NEW what, Simulates(s, what),
           NEW w, w = Writer(nodes)[s], Unended(nodes, w), NEW i, i = Asked(nodes, w),
           NEW v, v = WriteStep(nodes, w), NEW token, v = Leaf(w, w.numbers, token),
           NEW object \in 1 .. Len(heap), what[object] = i, Return(frames, object), status = "reading",
           offset' = Len(v.tokens), Len(v.tokens) <= Len(data),
           UNCHANGED <<new_layout, data, refs, heap, nodes, written>>
    PROVE  Faithful'
<1>1. /\ IsGraph(nodes, new_layout) /\ w \in WriterStates(nodes)
      /\ Linked(nodes, w.calls, w.numbers, heap, refs, frames, what)
      /\ ReaderTyped(heap, refs, frames)
  BY Moves
<1>2. frames = << >> <=> w.calls = << >>
  BY <1>1, Innermosts DEF Typed
<1>3. v.calls = OneMore(w.calls) /\ v.numbers = w.numbers /\ v.ended = (w.calls = << >>)
  BY LeafFields
<1>4. refs' = refs /\ heap' = heap /\ Unwritten
  BY DEF Unwritten
<1>5. CASE w.calls = << >>
  <2>1. status' = "returned" /\ result' = object /\ v.ended
    BY <1>2, <1>3, <1>5, ReturnCases
  <2>2. i = Root(nodes) /\ HeapFits(nodes, heap', what) /\ what[result'] = Root(nodes)
    BY <1>1, <1>4, <1>5, <2>1 DEF Asked, Linked
  <2> QED
    BY <1>4, <2>1, <2>2, StepReturns
<1>6. CASE w.calls # << >>
  <2>1. status' = "reading" /\ frames' = ReturnTo(frames, object) /\ ~v.ended
    BY <1>2, <1>3, <1>6, ReturnCases
  <2>2. Awaits(nodes, w.calls, i)
    BY <1>1, <1>6, AskedAwaits
  <2>3. CallsFit(nodes, w.calls)
    BY <1>1, StateFacts
  <2>4. Linked(nodes, OneMore(w.calls), w.numbers, heap, refs, ReturnTo(frames, object), what)
    BY <1>1, <2>2, <2>3, OldReturned
  <2>5. Linked(nodes, v.calls, v.numbers, heap', refs', frames', what)
    BY <1>3, <1>4, <2>1, <2>4
  <2> QED
    BY <1>4, <2>1, <2>5, StepFollows
<1> QED
  BY <1>5, <1>6

LEMMA SingletonFaithful ==
    ASSUME Typed, Frozen, Faithful, LoadSingleton, UNCHANGED <<nodes, written>>
    PROVE  Faithful'
<1>1. /\ Finds({"none", "null"}) /\ offset' = offset + 1
      /\ UNCHANGED <<new_layout, data, heap, nodes, written>>
      /\ status = "reading"
  BY DEF LoadSingleton, Finds, Loading
<1> DEFINE object == IF Here.type = "none" THEN None ELSE Null
<1>2. Return(frames, object) /\ refs' = Kept(object) /\ Here.type \in {"none", "null"}
  BY DEF LoadSingleton, Finds
<1>3. PICK s \in 0 .. MaxSteps : \E what :
              LET w == Writer(nodes)[s]
                  i == Asked(nodes, w)
              IN  /\ Simulates(s, what)
                  /\ Unended(nodes, w)
                  /\ Here = TokenOf(nodes, w, i)
                  /\ i \in Nat /\ (i # 0 => i \in DOMAIN nodes)
                  /\ IsGraph(nodes, new_layout) /\ w \in WriterStates(nodes)
                  /\ WriteStep(nodes, w) = WriteObject(nodes, w, i)
                  /\ Linked(nodes, w.calls, w.numbers, heap, refs, frames, what)
                  /\ Len(WriteStep(nodes, w).tokens) = offset + 1 /\ offset + 1 <= Len(data)
  BY <1>1, Found
<1> DEFINE w == Writer(nodes)[s]
           i == Asked(nodes, w)
           v == WriteStep(nodes, w)
<1>4. PICK what : /\ Simulates(s, what)
                  /\ Unended(nodes, w)
                  /\ Here = TokenOf(nodes, w, i)
                  /\ i \in Nat /\ (i # 0 => i \in DOMAIN nodes)
                  /\ IsGraph(nodes, new_layout) /\ w \in WriterStates(nodes)
                  /\ v = WriteObject(nodes, w, i)
                  /\ Linked(nodes, w.calls, w.numbers, heap, refs, frames, what)
                  /\ Len(v.tokens) = offset + 1 /\ offset + 1 <= Len(data)
  BY <1>3, Zenon
<1>a. w = Writer(nodes)[s] /\ i = Asked(nodes, w) /\ v = WriteStep(nodes, w)
  OBVIOUS
<1> HIDE DEF w, i, v
<1>5. /\ Here.flag = FALSE
      /\ (i = 0 /\ object = Null) \/ (i # 0 /\ nodes[i].kind = "none" /\ object = None)
  <2>1. CASE Here.type = "none"
    BY <1>4, <2>1, TokenTells
  <2>2. CASE Here.type = "null"
    BY <1>4, <2>2, TokenTells
  <2> QED
    BY <1>2, <2>1, <2>2
<1> HIDE DEF object
<1>6. HeapFits(nodes, heap, what)
  BY <1>4, Zenon DEF Linked
<1>7. object \in 1 .. Len(heap) /\ what[object] = i
  <2>1. Len(heap) \in Nat \ {0, 1}
    BY DEF Typed
  <2>2. 1 \in 1 .. Len(heap) /\ 2 \in 1 .. Len(heap)
    <3>1. \A n \in Nat \ {0, 1} : 1 \in 1 .. n /\ 2 \in 1 .. n
      OBVIOUS
    <3> QED
      BY <2>1, <3>1, Zenon
  <2>3. what[Null] = 0 /\ \A j \in DOMAIN nodes : nodes[j].kind = "none" => j = what[None]
    BY <1>6, Zenon DEF HeapFits
  <2> QED
    BY <1>4, <1>5, <2>2, <2>3 DEF None, Null
<1>8. refs' = refs
  BY <1>2, <1>5 DEF Kept
<1>9. v = Leaf(w, w.numbers, TokenOf(nodes, w, i))
  <2>1. ~Opens(nodes, w, i) /\ ~(i # 0 /\ nodes[i].kind = "atom" /\ Known(w, i) = {})
    <3>1. "none" \notin Containers /\ "none" # "atom"
      BY DEF Containers, Sized
    <3> QED
      BY <1>5, <3>1 DEF Opens
  <2> QED
    BY <1>4, <2>1, WriteCases
<1>10. UNCHANGED <<new_layout, data, refs, heap, nodes, written>>
  BY <1>1, <1>8
<1> DEFINE token == TokenOf(nodes, w, i)
<1>11. v = Leaf(w, w.numbers, token) /\ offset' = Len(v.tokens) /\ Len(v.tokens) <= Len(data)
  BY <1>1, <1>4, <1>9
<1> HIDE DEF token
<1> QED
  BY <1>1, <1>2, <1>4, <1>a, <1>7, <1>10, <1>11, GivesOld

LEMMA ReferenceFaithful ==
    ASSUME Typed, Frozen, Faithful, LoadReference, UNCHANGED <<nodes, written>>
    PROVE  Faithful'
<1> DEFINE object == refs[Here.n + 1]
<1>1. /\ Finds({"ref"}) /\ offset' = offset + 1
      /\ UNCHANGED <<new_layout, data, refs, heap, nodes, written>>
      /\ status = "reading"
      /\ Return(frames, object) /\ Here.type = "ref"
  BY DEF LoadReference, Finds, Loading
<1>3. PICK s \in 0 .. MaxSteps : \E what :
              LET w == Writer(nodes)[s]
                  i == Asked(nodes, w)
              IN  /\ Simulates(s, what)
                  /\ Unended(nodes, w)
                  /\ Here = TokenOf(nodes, w, i)
                  /\ i \in Nat /\ (i # 0 => i \in DOMAIN nodes)
                  /\ IsGraph(nodes, new_layout) /\ w \in WriterStates(nodes)
                  /\ WriteStep(nodes, w) = WriteObject(nodes, w, i)
                  /\ Linked(nodes, w.calls, w.numbers, heap, refs, frames, what)
                  /\ Len(WriteStep(nodes, w).tokens) = offset + 1 /\ offset + 1 <= Len(data)
  BY <1>1, Found
<1> DEFINE w == Writer(nodes)[s]
           i == Asked(nodes, w)
           v == WriteStep(nodes, w)
           k == CHOOSE j \in Known(w, i) : TRUE
<1>4. PICK what : /\ Simulates(s, what)
                  /\ Unended(nodes, w)
                  /\ Here = TokenOf(nodes, w, i)
                  /\ i \in Nat /\ (i # 0 => i \in DOMAIN nodes)
                  /\ IsGraph(nodes, new_layout) /\ w \in WriterStates(nodes)
                  /\ v = WriteObject(nodes, w, i)
                  /\ Linked(nodes, w.calls, w.numbers, heap, refs, frames, what)
                  /\ Len(v.tokens) = offset + 1 /\ offset + 1 <= Len(data)
  BY <1>3, Zenon
<1>a. w = Writer(nodes)[s] /\ i = Asked(nodes, w) /\ v = WriteStep(nodes, w)
  OBVIOUS
<1> HIDE DEF w, i, v
<1>5. i # 0 /\ Known(w, i) # {} /\ Here.n = k - 1
  <2>1. /\ IsGraph(nodes, new_layout) /\ w \in WriterStates(nodes)
        /\ i \in Nat /\ (i # 0 => i \in DOMAIN nodes) /\ Here = TokenOf(nodes, w, i)
    BY <1>4
  <2>2. Here.type = "ref"
    BY <1>1
  <2> QED
    BY <2>1, <2>2, TokenTells, ZenonT(60)
<1>6. k \in DOMAIN w.numbers /\ k \in Nat \ {0} /\ w.numbers[k] = i
  BY <1>4, <1>5, KnownFacts
<1>7. object = refs[k]
  <2>1. Here.n + 1 = k
    <3> HIDE DEF k
    <3> QED
      BY <1>5, <1>6
  <2> QED
    BY <2>1
<1> HIDE DEF object, k
<1>8. PlacesFit(w.calls, w.numbers, refs, what)
  BY <1>4, Zenon DEF Linked
<1>9. object \in 1 .. Len(heap)
  <2>1. refs \in Seq(1 .. Len(heap)) /\ k \in 1 .. Len(refs)
    <3>1. DOMAIN w.numbers = 1 .. Len(w.numbers)
      BY <1>4, StateFacts
    <3> QED
      BY <1>6, <1>8, <3>1 DEF PlacesFit, Typed
  <2> QED
    BY <1>7, <2>1, ElementOfSeq
<1>10. what[object] = i
  <2>1. ~IsOpen(w.calls, i)
    <3>1. \A l \in DOMAIN w.calls : i < w.calls[l].node
      BY <1>4, <1>a, AskedFacts
    <3>2. \A l \in DOMAIN w.calls : w.calls[l].node \in Nat
      BY <1>4, StateFacts, CallFacts
    <3> QED
      BY <1>4, <3>1, <3>2 DEF IsOpen
  <2> QED
    BY <1>6, <1>7, <1>8, <2>1 DEF PlacesFit
<1>11. v = Leaf(w, w.numbers, TokenOf(nodes, w, i))
  <2>1. ~Opens(nodes, w, i) /\ ~(i # 0 /\ nodes[i].kind = "atom" /\ Known(w, i) = {})
    BY <1>5 DEF Opens
  <2> QED
    BY <1>4, <2>1, WriteCases
<1> DEFINE token == TokenOf(nodes, w, i)
<1>12. v = Leaf(w, w.numbers, token) /\ offset' = Len(v.tokens) /\ Len(v.tokens) <= Len(data)
  BY <1>1, <1>4, <1>11
<1>13. Return(frames, object)
  BY <1>1 DEF object
<1> HIDE DEF token
<1> QED
  BY <1>1, <1>4, <1>a, <1>9, <1>10, <1>12, <1>13, GivesOld

(* The reader gives its innermost call an object that it made.              *)
LEMMA GivesNew ==
    ASSUME Typed, Frozen, NEW s \in 0 .. MaxSteps, NEW what, Simulates(s, what),
           NEW w, w = Writer(nodes)[s], NEW v, v = WriteStep(nodes, w),
           NEW i, NEW calls, v.calls = OneMore(calls), calls = << >> => v.ended, calls # << >> => ~v.ended,
           NEW outer, outer = << >> <=> calls = << >>,
           calls = << >> => i = Root(nodes),
           NEW more, HeapFits(nodes, heap', more), more[Len(heap) + 1] = i,
           calls # << >> => Linked(nodes, OneMore(calls), v.numbers, heap', refs', ReturnTo(outer, Len(heap) + 1), more),
           Return(outer, Len(heap) + 1), status = "reading",
           offset' = Len(v.tokens), Len(v.tokens) <= Len(data),
           UNCHANGED <<new_layout, data, nodes, written>>
    PROVE  Faithful'
<1>1. Unwritten
  BY DEF Unwritten
<1>2. CASE calls = << >>
  <2>1. status' = "returned" /\ result' = Len(heap) + 1 /\ v.ended
    BY <1>2, ReturnCases
  <2>2. more[result'] = Root(nodes)
    BY <1>2, <2>1
  <2> QED
    BY <1>1, <2>1, <2>2, StepReturns
<1>3. CASE calls # << >>
  <2>1. status' = "reading" /\ frames' = ReturnTo(outer, Len(heap) + 1) /\ ~v.ended
    BY <1>3, ReturnCases
  <2>2. Linked(nodes, v.calls, v.numbers, heap', refs', frames', more)
    BY <1>3, <2>1
  <2> QED
    BY <1>1, <2>1, <2>2, StepFollows
<1> QED
  BY <1>2, <1>3

LEMMA AtomFaithful ==
    ASSUME Typed, Frozen, Faithful, LoadAtom, UNCHANGED <<nodes, written>>
    PROVE  Faithful'
<1>1. /\ Finds({"atom"}) /\ offset' = offset + 1
      /\ UNCHANGED <<new_layout, data, nodes, written>>
      /\ heap' = Append(heap, Object("atom", Here.atom, << >>, TRUE))
      /\ Return(frames, Len(heap) + 1) /\ refs' = Kept(Len(heap) + 1)
      /\ status = "reading"
      /\ Here.type = "atom"
  BY DEF LoadAtom, Finds, Loading
<1>2. PICK s \in 0 .. MaxSteps : \E what :
              LET w == Writer(nodes)[s]
                  i == Asked(nodes, w)
              IN  /\ Simulates(s, what)
                  /\ Unended(nodes, w)
                  /\ Here = TokenOf(nodes, w, i)
                  /\ i \in Nat /\ (i # 0 => i \in DOMAIN nodes)
                  /\ IsGraph(nodes, new_layout) /\ w \in WriterStates(nodes)
                  /\ WriteStep(nodes, w) = WriteObject(nodes, w, i)
                  /\ Linked(nodes, w.calls, w.numbers, heap, refs, frames, what)
                  /\ ReaderTyped(heap, refs, frames)
                  /\ frames = << >> <=> w.calls = << >>
                  /\ Len(WriteStep(nodes, w).tokens) = offset + 1 /\ offset + 1 <= Len(data)
  BY <1>1, Found
<1> DEFINE w == Writer(nodes)[s]
           i == Asked(nodes, w)
           v == WriteStep(nodes, w)
<1>3. PICK what : /\ Simulates(s, what)
                  /\ Unended(nodes, w)
                  /\ Here = TokenOf(nodes, w, i)
                  /\ i \in Nat /\ (i # 0 => i \in DOMAIN nodes)
                  /\ IsGraph(nodes, new_layout) /\ w \in WriterStates(nodes)
                  /\ v = WriteObject(nodes, w, i)
                  /\ Linked(nodes, w.calls, w.numbers, heap, refs, frames, what)
                  /\ ReaderTyped(heap, refs, frames)
                  /\ frames = << >> <=> w.calls = << >>
                  /\ Len(v.tokens) = offset + 1 /\ offset + 1 <= Len(data)
  BY <1>2, Zenon
<1>a. w = Writer(nodes)[s] /\ i = Asked(nodes, w) /\ v = WriteStep(nodes, w)
  OBVIOUS
<1> HIDE DEF w, i, v
<1>4. /\ i # 0 /\ nodes[i].kind = "atom" /\ Known(w, i) = {}
      /\ Here.flag = nodes[i].shared /\ Here.atom = nodes[i].atom
  BY <1>1, <1>3, TokenTells, ZenonT(60)
<1>5. refs' = IF nodes[i].shared THEN Append(refs, Len(heap) + 1) ELSE refs
  BY <1>1, <1>4 DEF Kept
<1>6. heap' = Append(heap, Object("atom", nodes[i].atom, << >>, TRUE))
  BY <1>1, <1>4
<1> DEFINE more == More(heap, what, i)
<1>7. /\ HeapFits(nodes, heap', more)
      /\ more[Len(heap) + 1] = i
      /\ w.calls # << >> => Linked(nodes, OneMore(w.calls), Number(nodes, w, i), heap', refs',
                                   ReturnTo(frames, Len(heap) + 1), more)
  <2>1. LET all  == Append(heap, Object("atom", nodes[i].atom, << >>, TRUE))
            done == More(heap, what, i)
        IN  /\ HeapFits(nodes, all, done)
            /\ done[Len(heap) + 1] = i
            /\ w.calls # << >> =>
                  /\ Linked(nodes, OneMore(w.calls), Number(nodes, w, i), all, refs',
                            ReturnTo(frames, Len(heap) + 1), done)
                  /\ frames # << >>
    <3> DEFINE refd == refs'
               object == Object("atom", nodes[i].atom, << >>, TRUE)
    <3>2. refd = IF nodes[i].shared THEN Append(refs, Len(heap) + 1) ELSE refs
      BY <1>5
    <3>b. object = Object("atom", nodes[i].atom, << >>, TRUE)
      OBVIOUS
    <3> HIDE DEF refd, object
    <3>1. ReadsAtom(nodes, new_layout, w, heap, refs, frames, what, i, object, refd)
      BY <1>3, <1>a, <1>4, <3>2, <3>b, Zenon DEF ReadsAtom
    <3>3. LET all  == Append(heap, object)
              done == More(heap, what, i)
          IN  /\ HeapFits(nodes, all, done)
              /\ done[Len(heap) + 1] = i
              /\ w.calls # << >> =>
                    /\ Linked(nodes, OneMore(w.calls), Number(nodes, w, i), all, refd,
                              ReturnTo(frames, Len(heap) + 1), done)
                    /\ frames # << >>
      BY <3>1, AtomLinks
    <3> QED
      BY <3>3 DEF refd, object
  <2> QED
    BY <1>6, <2>1, Zenon
<1>8. v = Leaf(w, Number(nodes, w, i), TokenOf(nodes, w, i))
  <2>1. ~Opens(nodes, w, i)
    <3>1. "atom" \notin Containers
      BY DEF Containers, Sized
    <3> QED
      BY <1>4, <3>1 DEF Opens
  <2> QED
    BY <1>3, <1>4, <2>1, WriteCases
<1>9. /\ v.calls = OneMore(w.calls) /\ v.numbers = Number(nodes, w, i)
      /\ w.calls = << >> => v.ended
      /\ w.calls # << >> => ~v.ended
  <2>1. v.calls = OneMore(w.calls) /\ v.numbers = Number(nodes, w, i) /\ v.ended = (w.calls = << >>)
    BY <1>8, LeafFields
  <2> QED
    BY <2>1
<1>10. w.calls = << >> => i = Root(nodes)
  BY <1>a DEF Asked
<1>11. offset' = Len(v.tokens) /\ Len(v.tokens) <= Len(data)
  BY <1>1, <1>3
<1> HIDE DEF more
<1>12. w.calls # << >> => Linked(nodes, OneMore(w.calls), v.numbers, heap', refs', ReturnTo(frames, Len(heap) + 1), more)
  BY <1>7, <1>9
<1> QED
  BY <1>1, <1>3, <1>a, <1>7, <1>9, <1>10, <1>11, <1>12, GivesNew

(* What the reader notes of a container that it begins.                     *)
LEMMA BegunFrame ==
    ASSUME Typed, NEW i, IsGraph(nodes, new_layout), i \in DOMAIN nodes, nodes[i].kind \in Containers,
           Here.type = nodes[i].kind, Here.n = Len(nodes[i].parts), Here.flag = nodes[i].shared,
           NEW frame, frame = [kind |-> Here.type, slot |-> IF Here.flag THEN Len(refs) + 1 ELSE 0,
                               size |-> SizeOf(Here), parts |-> << >>]
    PROVE  /\ frame \in Frame
           /\ frame.kind = nodes[i].kind
           /\ frame.kind # "dict" => frame.size = Len(nodes[i].parts)
           /\ frame.slot = IF nodes[i].shared THEN Len(refs) + 1 ELSE 0
           /\ frame.parts = << >>
<1>1. Len(nodes[i].parts) \in Nat /\ Writable(nodes, nodes[i], new_layout)
  <2>1. nodes[i].parts \in Seq(Nat) /\ Writable(nodes, nodes[i], new_layout)
    BY GraphFacts
  <2> QED
    BY <2>1, LenProperties
<1>2. SizeOf(Here) \in Nat /\ (Here.type # "dict" => SizeOf(Here) = Len(nodes[i].parts))
  <2>1. CASE Here.type = "slice"
    <3>1. SizeOf(Here) = 3
      BY <2>1 DEF SizeOf
    <3>2. Len(nodes[i].parts) = 3
      BY <1>1, <2>1, Zenon DEF Writable
    <3> QED
      BY <3>1, <3>2
  <2>2. CASE Here.type = "code"
    <3>1. SizeOf(Here) = Len(Fields)
      BY <2>2 DEF SizeOf
    <3>2. Len(nodes[i].parts) = Len(FieldsOf(new_layout))
      BY <1>1, <2>2, Zenon DEF Writable
    <3>3. Len(Fields) = Len(FieldsOf(new_layout))
      BY FieldsMatch DEF Typed
    <3> QED
      BY <1>1, <3>1, <3>2, <3>3
  <2>3. CASE Here.type = "dict"
    BY <2>3 DEF SizeOf
  <2>4. CASE Here.type \notin {"slice", "code", "dict"}
    <3>1. SizeOf(Here) = Here.n
      BY <2>4 DEF SizeOf
    <3> QED
      BY <1>1, <3>1
  <2> QED
    BY <2>1, <2>2, <2>3, <2>4
<1>3. /\ frame.kind = Here.type /\ frame.size = SizeOf(Here) /\ frame.parts = << >>
      /\ frame.slot = IF Here.flag THEN Len(refs) + 1 ELSE 0
  OBVIOUS
<1>4. (IF Here.flag THEN Len(refs) + 1 ELSE 0) \in Nat
  <2>1. Len(refs) \in Nat /\ Len(refs) + 1 \in Nat
    BY DEF Typed
  <2> QED
    BY <2>1
<1>5. << >> \in Seq(Nat)
  BY EmptySeq
<1>6. frame \in Frame
  BY <1>2, <1>4, <1>5 DEF Frame
<1> QED
  BY <1>2, <1>3, <1>6

LEMMA OpenFaithful ==
    ASSUME Typed, Frozen, Faithful, OpenContainer, UNCHANGED <<nodes, written>>
    PROVE  Faithful'
<1> DEFINE frame == [kind |-> Here.type, slot |-> IF Here.flag THEN Len(refs) + 1 ELSE 0,
                     size |-> SizeOf(Here), parts |-> << >>]
<1>1. /\ Finds(Containers) /\ offset' = offset + 1
      /\ UNCHANGED <<new_layout, data, heap, nodes, written>>
      /\ status' = status /\ refs' = Kept(None)
      /\ frames' = Append(frames, frame)
      /\ status = "reading"
      /\ Here.type \in Containers
  BY DEF OpenContainer, Finds, Loading
<1>2. PICK s \in 0 .. MaxSteps : \E what :
              LET w == Writer(nodes)[s]
                  i == Asked(nodes, w)
              IN  /\ Simulates(s, what)
                  /\ Unended(nodes, w)
                  /\ Here = TokenOf(nodes, w, i)
                  /\ i \in Nat /\ (i # 0 => i \in DOMAIN nodes)
                  /\ IsGraph(nodes, new_layout) /\ w \in WriterStates(nodes)
                  /\ WriteStep(nodes, w) = WriteObject(nodes, w, i)
                  /\ Linked(nodes, w.calls, w.numbers, heap, refs, frames, what)
                  /\ ReaderTyped(heap, refs, frames)
                  /\ frames = << >> <=> w.calls = << >>
                  /\ Len(WriteStep(nodes, w).tokens) = offset + 1 /\ offset + 1 <= Len(data)
  BY <1>1, Found
<1> DEFINE w == Writer(nodes)[s]
           i == Asked(nodes, w)
           v == WriteStep(nodes, w)
<1>3. PICK what : /\ Simulates(s, what)
                  /\ Unended(nodes, w)
                  /\ Here = TokenOf(nodes, w, i)
                  /\ i \in Nat /\ (i # 0 => i \in DOMAIN nodes)
                  /\ IsGraph(nodes, new_layout) /\ w \in WriterStates(nodes)
                  /\ v = WriteObject(nodes, w, i)
                  /\ Linked(nodes, w.calls, w.numbers, heap, refs, frames, what)
                  /\ ReaderTyped(heap, refs, frames)
                  /\ Len(v.tokens) = offset + 1
  BY <1>2, Zenon
<1>a. w = Writer(nodes)[s] /\ i = Asked(nodes, w) /\ v = WriteStep(nodes, w)
  OBVIOUS
<1> HIDE DEF w, i, v, frame
<1>4. /\ Opens(nodes, w, i) /\ Here.type = nodes[i].kind
      /\ Here.flag = nodes[i].shared /\ Here.n = Len(nodes[i].parts)
  BY <1>1, <1>3, TokenTells
<1>5. i \in DOMAIN nodes /\ nodes[i].kind \in Containers
  BY <1>3, <1>4 DEF Opens
<1>6. /\ frame \in Frame
      /\ frame.kind = nodes[i].kind
      /\ frame.kind # "dict" => frame.size = Len(nodes[i].parts)
      /\ frame.slot = IF nodes[i].shared THEN Len(refs) + 1 ELSE 0
      /\ frame.parts = << >>
  BY <1>3, <1>4, <1>5, BegunFrame DEF frame
<1>7. refs' = IF nodes[i].shared THEN Append(refs, None) ELSE refs
  BY <1>1, <1>4 DEF Kept
<1>8. Linked(nodes, Append(w.calls, [node |-> i, done |-> 0]), Number(nodes, w, i), heap, refs', frames', what)
  BY <1>1, <1>3, <1>a, <1>4, <1>6, <1>7, OpenLinks
<1>9. v.calls = Append(w.calls, [node |-> i, done |-> 0]) /\ v.numbers = Number(nodes, w, i) /\ ~v.ended
  BY <1>3, <1>4, WriteCases
<1>10. Linked(nodes, v.calls, v.numbers, heap', refs', frames', what)
  BY <1>1, <1>8, <1>9
<1>11. offset' = Len(v.tokens) /\ status' = "reading" /\ Unwritten
  BY <1>1, <1>3 DEF Unwritten
<1> QED
  BY <1>3, <1>a, <1>9, <1>10, <1>11, StepFollows

(* What a container holds that has been read.                               *)
LEMMA ContentsFacts ==
    ASSUME NEW graph, NEW new, IsGraph(graph, new), NEW numbers, NEW objects, NEW what, NEW call, NEW frame,
           FrameOf(graph, numbers, objects, what, call, frame), call.done = Len(Parts(graph, call.node))
    PROVE  LET own   == graph[call.node].parts
               items == Contents(frame)
           IN  /\ items \in Seq(Nat) /\ DOMAIN items = DOMAIN own /\ Len(items) = Len(own)
               /\ DOMAIN own = 1 .. Len(own)
               /\ \A k \in DOMAIN own :
                     /\ items[k] \in 1 .. Len(objects)
                     /\ what[items[k]] = own[k]
                     /\ Mirrors(graph, objects, what, items[k])
<1> DEFINE own == graph[call.node].parts
           n   == Len(own)
<1>1. /\ frame.parts \in Seq(Nat) /\ DOMAIN frame.parts = 1 .. call.done /\ Len(frame.parts) = call.done
      /\ n \in Nat /\ DOMAIN own = 1 .. n
      /\ \A j \in 1 .. call.done : j <= n =>
            /\ what[frame.parts[j]] = own[j]
            /\ Mirrors(graph, objects, what, frame.parts[j])
  BY PartFacts
<1>2. /\ frame.kind = graph[call.node].kind
      /\ \A j \in DOMAIN frame.parts : frame.parts[j] \in 1 .. Len(objects)
      /\ call.node \in DOMAIN graph
  BY Zenon DEF FrameOf, FrameFits
<1>3. call.done = IF frame.kind = "dict" THEN n + 1 ELSE n
  BY <1>2, PartsFacts
<1>4. /\ Contents(frame) \in Seq(Nat) /\ Len(Contents(frame)) = n
      /\ \A k \in 1 .. n : k \in 1 .. call.done /\ Contents(frame)[k] = frame.parts[k]
  <2>1. CASE frame.kind = "dict"
    <3>1. Contents(frame) = SubSeq(frame.parts, 1, Len(frame.parts) - 1)
      BY <2>1 DEF Contents
    <3>2. call.done = n + 1
      BY <1>3, <2>1, Zenon
    <3>3. frame.parts # << >>
      BY <1>1, <3>2, EmptySeq
    <3>4. /\ Contents(frame) \in Seq(Nat) /\ Len(Contents(frame)) = Len(frame.parts) - 1
          /\ \A k \in 1 .. Len(frame.parts) - 1 : Contents(frame)[k] = frame.parts[k]
      BY <1>1, <3>1, <3>3, Prefix
    <3> HIDE DEF own
    <3>5. Len(frame.parts) - 1 = n /\ \A k \in 1 .. n : k \in 1 .. call.done
      BY <1>1, <3>2
    <3> QED
      BY <3>4, <3>5
  <2>2. CASE frame.kind # "dict"
    <3>1. Contents(frame) = frame.parts
      BY <2>2 DEF Contents
    <3>2. call.done = n
      BY <1>3, <2>2, Zenon
    <3> QED
      BY <1>1, <3>1, <3>2
  <2> QED
    BY <2>1, <2>2
<1>5. DOMAIN Contents(frame) = 1 .. n
  BY <1>4, LenProperties
<1>6. ASSUME NEW k \in 1 .. n
      PROVE  /\ Contents(frame)[k] \in 1 .. Len(objects)
             /\ what[Contents(frame)[k]] = own[k]
             /\ Mirrors(graph, objects, what, Contents(frame)[k])
  <2>1. k \in 1 .. call.done /\ Contents(frame)[k] = frame.parts[k] /\ k <= n
    BY <1>1, <1>4
  <2> HIDE DEF own
  <2> QED
    BY <1>1, <1>2, <2>1
<1> QED
  BY <1>1, <1>4, <1>5, <1>6

(* A container has a hash when its node has.                                *)
LEMMA SameHash ==
    ASSUME NEW new, IsGraph(nodes, new), NEW numbers, NEW what, NEW call, NEW frame,
           FrameOf(nodes, numbers, heap, what, call, frame), call.done = Len(Parts(nodes, call.node))
    PROVE  Hashes(frame.kind, Contents(frame)) = HasHash(nodes, nodes[call.node])
<1> DEFINE own == nodes[call.node].parts
           items == Contents(frame)
<1>1. DOMAIN items = DOMAIN own /\ \A k \in DOMAIN own : what[items[k]] = own[k] /\ Mirrors(nodes, heap, what, items[k])
  BY ContentsFacts
<1>2. frame.kind = nodes[call.node].kind
  BY Zenon DEF FrameOf, FrameFits
<1>3. \A k \in DOMAIN own : heap[items[k]].hash = nodes[own[k]].hash
  BY <1>1, Zenon DEF Mirrors
<1> HIDE DEF items
<1>4. (\A k \in DOMAIN items : heap[items[k]].hash) <=> (\A k \in DOMAIN own : nodes[own[k]].hash)
  BY <1>1, <1>3
<1>5. CASE frame.kind = "tuple"
  <2>1. /\ Hashes(frame.kind, items) = (\A k \in DOMAIN items : heap[items[k]].hash)
        /\ HasHash(nodes, nodes[call.node]) = (\A k \in DOMAIN own : nodes[own[k]].hash)
    BY <1>2, <1>5 DEF Hashes, HasHash
  <2> QED
    BY <1>4, <2>1 DEF items
<1>6. CASE frame.kind # "tuple"
  BY <1>2, <1>6 DEF Hashes, HasHash
<1> QED
  BY <1>5, <1>6

LEMMA MadeMirrors ==
    ASSUME NEW new, IsGraph(nodes, new), NEW numbers, NEW what, NEW call, NEW frame,
           FrameOf(nodes, numbers, heap, what, call, frame), call.done = Len(Parts(nodes, call.node))
    PROVE  MirrorOf(nodes, heap, what,
                    Object(frame.kind, << >>, Contents(frame), Hashes(frame.kind, Contents(frame))), call.node)
<1> DEFINE node == nodes[call.node]
           items == Contents(frame)
           hash == Hashes(frame.kind, Contents(frame))
           object == Object(frame.kind, << >>, items, hash)
<1>1. /\ items \in Seq(Nat) /\ Len(items) = Len(node.parts)
      /\ DOMAIN node.parts = 1 .. Len(node.parts)
      /\ \A k \in DOMAIN node.parts : items[k] \in 1 .. Len(heap) /\ what[items[k]] = node.parts[k]
  BY ContentsFacts
<1>2. /\ frame.kind = node.kind /\ call.node \in DOMAIN nodes /\ node.kind \in Containers
  BY Zenon DEF FrameOf, FrameFits
<1>3. node \in GraphNode /\ Writable(nodes, node, new)
  BY <1>2, GraphFacts
<1>4. node.hash = HasHash(nodes, node) /\ node.hash \in BOOLEAN /\ node.atom = << >>
  <2>1. node.kind # "atom"
    BY <1>2 DEF Containers, Sized
  <2>2. node.hash \in BOOLEAN
    BY <1>3 DEF GraphNode
  <2> QED
    BY <1>3, <2>1, <2>2, Zenon DEF Writable
<1>5. hash = node.hash
  BY <1>4, SameHash
<1> HIDE DEF node, items, hash
<1>6. object.kind = frame.kind /\ object.atom = << >> /\ object.items = items /\ object.hash = hash
  BY DEF Object
<1>7. object \in Node
  <2>1. frame.kind \in Types /\ << >> \in Seq(Nat)
    BY <1>2, EmptySeq DEF Types
  <2> QED
    BY <1>1, <1>4, <1>5, <2>1 DEF Node, Object
<1>8. /\ object.kind = node.kind /\ object.atom = node.atom /\ object.hash = node.hash
      /\ Len(object.items) = Len(node.parts)
      /\ \A k \in 1 .. Len(node.parts) : object.items[k] \in 1 .. Len(heap) /\ what[object.items[k]] = node.parts[k]
  BY <1>1, <1>2, <1>4, <1>5, <1>6
<1> HIDE DEF object
<1>9. MirrorOf(nodes, heap, what, object, call.node)
  BY <1>7, <1>8 DEF MirrorOf, node
<1> QED
  BY <1>9 DEF object, items, hash

LEMMA CloseFaithful ==
    ASSUME Typed, Frozen, Faithful, CloseContainer, UNCHANGED <<nodes, written>>
    PROVE  Faithful'
<1> DEFINE object == Object(Top.kind, << >>, Contents(Top), Hashes(Top.kind, Contents(Top)))
           rest == SubSeq(frames, 1, Len(frames) - 1)
<1>1. /\ Calls /\ Full(Top)
      /\ heap' = Append(heap, object)
      /\ refs' = Placed(Top, Len(heap) + 1)
      /\ Return(rest, Len(heap) + 1)
      /\ UNCHANGED <<new_layout, data, offset, nodes, written>>
      /\ status = "reading" /\ frames # << >>
  BY DEF CloseContainer, Calls
<1>2. PICK s \in 0 .. MaxSteps : \E what : Simulates(s, what)
  BY <1>1, FollowsOne
<1>3. PICK what : Simulates(s, what)
  BY <1>2
<1> DEFINE w == Writer(nodes)[s]
           v == WriteStep(nodes, w)
           i == Innermost(w).node
           outer == SubSeq(w.calls, 1, Len(w.calls) - 1)
           more == More(heap, what, i)
<1>4. /\ IsGraph(nodes, new_layout) /\ w \in WriterStates(nodes)
      /\ ~w.ended /\ offset = Len(w.tokens)
      /\ Linked(nodes, w.calls, w.numbers, heap, refs, frames, what)
      /\ ReaderTyped(heap, refs, frames)
  BY <1>3, Moves
<1>5. /\ w.calls # << >>
      /\ FrameOf(nodes, w.numbers, heap, what, Innermost(w), Top)
      /\ AllWritten(nodes, w)
  BY <1>1, <1>4, Innermosts DEF Typed
<1>6. v = Back(w)
  BY <1>4, <1>5 DEF WriteStep
<1>7. v.calls = OneMore(outer) /\ v.numbers = w.numbers /\ v.tokens = w.tokens /\ v.ended = (outer = << >>)
  <2>1. v = [calls |-> OneMore(outer), numbers |-> w.numbers, tokens |-> w.tokens, ended |-> (outer = << >>)]
    BY <1>6, Zenon DEF Back
  <2> HIDE DEF v, w, outer
  <2> QED
    BY <2>1
<1>8. MirrorOf(nodes, heap, what, object, i)
  <2>1. Innermost(w).done = Len(Parts(nodes, Innermost(w).node))
    BY <1>5 DEF AllWritten
  <2> HIDE DEF w
  <2> QED
    BY <1>4, <1>5, <2>1, MadeMirrors
<1>9. refs' = IF frames[Len(frames)].slot = 0 THEN refs ELSE [refs EXCEPT ![frames[Len(frames)].slot] = Len(heap) + 1]
  BY <1>1 DEF Placed, Top
<1>a. w = Writer(nodes)[s] /\ v = WriteStep(nodes, w) /\ i = Innermost(w).node
  OBVIOUS
<1> HIDE DEF w, v, i, object
<1>10. LET all  == Append(heap, object)
           done == More(heap, what, i)
       IN  /\ HeapFits(nodes, all, done)
           /\ done[Len(heap) + 1] = i
           /\ outer = << >> => i = Root(nodes)
           /\ outer = << >> <=> rest = << >>
           /\ outer # << >> => Linked(nodes, OneMore(outer), w.numbers, all, refs', ReturnTo(rest, Len(heap) + 1), done)
  <2> DEFINE refd == refs'
             slot == frames[Len(frames)].slot
  <2>1. refd = IF slot = 0 THEN refs ELSE [refs EXCEPT ![slot] = Len(heap) + 1]
    BY <1>9
  <2>2. slot = frames[Len(frames)].slot
    OBVIOUS
  <2> HIDE DEF refd, slot
  <2>3. Closing(nodes, new_layout, w, heap, refs, frames, what, i, object, slot, refd)
    BY <1>4, <1>5, <1>8, <1>a, <2>1, <2>2, Zenon DEF Closing
  <2>4. LET all   == Append(heap, object)
            done  == More(heap, what, i)
            front == SubSeq(w.calls, 1, Len(w.calls) - 1)
            back  == SubSeq(frames, 1, Len(frames) - 1)
        IN  /\ HeapFits(nodes, all, done)
            /\ done[Len(heap) + 1] = i
            /\ front = << >> => i = Root(nodes)
            /\ front = << >> <=> back = << >>
            /\ front # << >> => Linked(nodes, OneMore(front), w.numbers, all, refd, ReturnTo(back, Len(heap) + 1), done)
    BY <2>3, CloseLinks
  <2> QED
    BY <2>4, Zenon DEF refd
<1>11. /\ HeapFits(nodes, heap', more)
       /\ more[Len(heap) + 1] = i
       /\ outer = << >> => i = Root(nodes)
       /\ outer = << >> <=> rest = << >>
       /\ outer # << >> => Linked(nodes, OneMore(outer), v.numbers, heap', refs', ReturnTo(rest, Len(heap) + 1), more)
  BY <1>1, <1>7, <1>10, Zenon
<1>12. (outer = << >> => v.ended) /\ (outer # << >> => ~v.ended) /\ v.calls = OneMore(outer)
  BY <1>7
<1>13. offset' = Len(v.tokens) /\ Len(v.tokens) <= Len(data)
  <2>1. offset \in 0 .. Len(data) /\ Len(data) \in Nat
    BY LenProperties DEF Typed
  <2> QED
    BY <1>1, <1>4, <1>7, <2>1
<1> HIDE DEF more, outer, rest
<1> QED
  BY <1>1, <1>3, <1>a, <1>11, <1>12, <1>13, GivesNew

-----------------------------------------------------------------------------
(* The inductive invariant.                                                 *)

(* Before anything has been read there is the None and the NULL.            *)
LEMMA SingletonsFit ==
    ASSUME NEW graph, NEW new, IsGraph(graph, new)
    PROVE  \E what : HeapFits(graph, Singletons, what)
<1> DEFINE none == IF \E i \in DOMAIN graph : graph[i].kind = "none"
                   THEN CHOOSE i \in DOMAIN graph : graph[i].kind = "none"
                   ELSE -1
<1>1. /\ none \in Int /\ none # 0
      /\ \A i \in DOMAIN graph : graph[i].kind = "none" <=> i = none
  <2>1. CASE \E i \in DOMAIN graph : graph[i].kind = "none"
    <3>1. none \in DOMAIN graph /\ graph[none].kind = "none"
      BY <2>1
    <3>2. none \in Nat \ {0}
      <4> HIDE DEF none
      <4> QED
        BY <3>1, GraphFacts
    <3>3. \A i \in DOMAIN graph : graph[i].kind = "none" => i = none
      <4> HIDE DEF none
      <4> QED
        BY <3>1, Zenon DEF IsGraph
    <3> HIDE DEF none
    <3> QED
      BY <3>1, <3>2, <3>3
  <2>2. CASE ~\E i \in DOMAIN graph : graph[i].kind = "none"
    <3>1. none = -1
      BY <2>2
    <3>2. \A i \in DOMAIN graph : i \in Nat
      BY GraphFacts
    <3> HIDE DEF none
    <3> QED
      BY <2>2, <3>1, <3>2
  <2> QED
    BY <2>1, <2>2
<1> HIDE DEF none
<1> DEFINE what == [o \in 1 .. 2 |-> IF o = 1 THEN none ELSE 0]
           first == Object("none", << >>, << >>, TRUE)
           second == Object("null", << >>, << >>, TRUE)
<1>2. Len(Singletons) = 2 /\ Singletons[1] = first
  <2>1. Singletons = <<first, second>>
    BY DEF Singletons
  <2> HIDE DEF first, second
  <2> QED
    BY <2>1
<1>3. what \in [1 .. 2 -> Int] /\ what[1] = none /\ what[2] = 0
  BY <1>1
<1>4. \A o \in 1 .. 2 : o = 1 \/ o = 2
  OBVIOUS
<1>5. \A i \in DOMAIN graph : i # 0
  <2>1. \A i \in DOMAIN graph : i \in 1 .. Len(graph)
    BY GraphFacts
  <2>2. \A i \in 1 .. Len(graph) : i # 0
    BY GraphFacts
  <2> QED
    BY <2>1, <2>2
<1>6. ASSUME none \in DOMAIN graph
      PROVE  /\ graph[none].kind = "none" /\ graph[none].atom = << >> /\ graph[none].parts = << >>
             /\ graph[none].hash = TRUE
  <2>1. graph[none].kind = "none" /\ Writable(graph, graph[none], new)
    BY <1>1, <1>6, GraphFacts
  <2>2. "none" \notin Containers /\ "none" # "atom"
    BY DEF Containers, Sized
  <2>3. graph[none].hash = HasHash(graph, graph[none]) /\ graph[none].atom = << >> /\ graph[none].parts = << >>
    BY <2>1, <2>2, Zenon DEF Writable
  <2>4. HasHash(graph, graph[none]) = TRUE
    BY <2>1 DEF HasHash
  <2> QED
    BY <2>1, <2>3, <2>4
<1>7. first.kind = "none" /\ first.atom = << >> /\ first.items = << >> /\ first.hash = TRUE
  BY DEF Object
<1> HIDE DEF what, first
<1>8. ASSUME NEW o \in 1 .. 2, what[o] \in DOMAIN graph
      PROVE  Mirrors(graph, Singletons, what, o)
  <2>1. o = 1 /\ what[o] = none /\ Singletons[o] = first
    BY <1>2, <1>3, <1>4, <1>5, <1>8
  <2>2. \A k \in 1 .. Len(graph[none].parts) : FALSE
    <3>1. graph[none].parts = << >> /\ Len(<< >>) = 0 /\ \A k \in 1 .. 0 : FALSE
      BY <1>6, <1>8, <2>1, EmptySeq
    <3> QED
      BY <3>1
  <2> QED
    BY <1>6, <1>7, <1>8, <2>1, <2>2 DEF Mirrors
<1>9. \A o, p \in 1 .. 2 : what[o] = what[p] => o = p
  BY <1>1, <1>3, <1>4
<1>10. /\ what \in [1 .. Len(Singletons) -> Int]
       /\ Len(Singletons) \in Nat \ {0, 1}
       /\ what[Null] = 0 /\ what[None] # 0
       /\ \A i \in DOMAIN graph : graph[i].kind = "none" <=> i = what[None]
  BY <1>1, <1>2, <1>3 DEF None, Null
<1>11. \A o \in 3 .. Len(Singletons) : what[o] \in DOMAIN graph
  <2>1. \A o \in 3 .. 2 : FALSE
    OBVIOUS
  <2> QED
    BY <1>2, <2>1
<1>12. HeapFits(graph, Singletons, what)
  BY <1>2, <1>8, <1>9, <1>10, <1>11, Zenon DEF HeapFits
<1> QED
  BY <1>12

LEMMA FollowsAtFirst ==
    ASSUME Fresh, new_layout \in BOOLEAN, Frozen
    PROVE  Follows
<1>1. IsGraph(nodes, new_layout)
  BY FrozenFacts
<1>2. PICK what : HeapFits(nodes, Singletons, what)
  BY <1>1, SingletonsFit
<1>3. Writer(nodes)[0] = Opened
  BY <1>1, WriterSteps
<1>4. Opened.calls = << >> /\ Opened.numbers = << >> /\ Opened.tokens = << >> /\ Opened.ended = FALSE
  BY DEF Opened
<1>5. /\ DOMAIN << >> = {} /\ Len(<< >>) = 0
      /\ \A o \in 3 .. 2 : FALSE
  BY EmptySeq
<1>6. Len(Singletons) = 2
  BY DEF Singletons
<1>7. heap = Singletons /\ refs = << >> /\ frames = << >> /\ offset = 0
  BY DEF Fresh
<1>8. NumberedFit(nodes, << >>, heap, what) /\ OwnersFit(nodes, << >>, heap, what)
  BY <1>5, <1>6, <1>7, Zenon DEF NumberedFit, OwnersFit
<1>9. PlacesFit(<< >>, << >>, refs, what) /\ FramesFit(nodes, << >>, << >>, frames, what)
  <2>1. \A p \in DOMAIN << >> : FALSE
    BY <1>5
  <2> QED
    BY <1>7, <2>1, Zenon DEF PlacesFit, FramesFit
<1>10. Linked(nodes, << >>, << >>, heap, refs, frames, what)
  BY <1>2, <1>5, <1>6, <1>7, <1>8, <1>9, Zenon DEF Linked
<1>11. Simulates(0, what)
  BY <1>3, <1>4, <1>5, <1>7, <1>10 DEF Simulates
<1>12. 0 \in 0 .. MaxSteps
  BY StepsAssumption
<1> QED
  BY <1>11, <1>12 DEF Follows

(* The inductive invariant: the reader's state has its types, and on data   *)
(* that a writer made, the reader is where the writer was.                  *)
InStep == Typed /\ (written # "never" => Frozen /\ Faithful)

LEMMA TripInitInStep == TripInit => InStep
<1> SUFFICES ASSUME TripInit PROVE InStep
  OBVIOUS
<1>1. new_layout \in BOOLEAN /\ Fresh
  BY DEF TripInit
<1>2. CASE SomethingWritten
  <2>1. Frozen
    BY <1>2 DEF SomethingWritten, Frozen
  <2>2. data \in Seq(Token)
    <3>1. IsGraph(nodes, new_layout)
      BY <1>1, <2>1, FrozenFacts
    <3>2. Write(nodes) \in Seq(Token)
      <4>1. Writer(nodes)[MaxSteps] \in WriterStates(nodes)
        BY <3>1, WriterSteps, StepsAssumption
      <4> QED
        BY <3>1, <4>1, StateFacts DEF Write
    <3>3. Len(Write(nodes)) \in Nat
      BY <3>2, LenProperties
    <3>4. PICK n \in 0 .. Len(Write(nodes)) : data = SubSeq(Write(nodes), 1, n)
      BY <2>1 DEF Frozen
    <3> DEFINE whole == Write(nodes)
    <3> HIDE DEF whole
    <3>5. whole \in Seq(Token) /\ n \in Int /\ n \in Nat /\ n <= Len(whole) /\ data = SubSeq(whole, 1, n)
      BY <3>2, <3>3, <3>4 DEF whole
    <3>6. \A k \in 1 .. n : whole[k] \in Token
      <4>1. \A k \in 1 .. n : k \in 1 .. Len(whole)
        BY <3>3, <3>5 DEF whole
      <4> QED
        BY <3>5, <4>1, ElementOfSeq
    <3> QED
      BY <3>5, <3>6, SubSeqProperties
  <2>3. Typed
    BY <1>1, <2>2, FreshTyped
  <2>4. Follows
    BY <1>1, <2>1, FollowsAtFirst
  <2>5. status = "reading"
    BY <1>1 DEF Fresh
  <2>6. Faithful
    BY <2>4, <2>5 DEF Faithful
  <2> QED
    BY <2>1, <2>3, <2>6 DEF InStep
<1>3. CASE NothingWritten
  <2>1. data \in Seq(Token) /\ written = "never"
    BY <1>3, ForeignAssumption DEF NothingWritten
  <2>2. Typed
    BY <1>1, <2>1, FreshTyped
  <2> QED
    BY <2>1, <2>2 DEF InStep
<1> QED
  BY <1>2, <1>3 DEF TripInit

LEMMA FaithfulStep ==
    ASSUME Typed, Frozen, Faithful, Next, UNCHANGED <<nodes, written>>
    PROVE  Faithful'
BY NoOtherException, EndFaithful, ReferenceFaithful, SingletonFaithful, AtomFaithful, OpenFaithful, CloseFaithful DEF Next

LEMMA DataStays ==
    ASSUME [Next]_vars
    PROVE  new_layout' = new_layout /\ data' = data
<1> USE DEF Raise
<1>1. CASE EndOfData
  BY <1>1 DEF EndOfData
<1>2. CASE UnknownType
  BY <1>2 DEF UnknownType
<1>3. CASE LoadReference
  BY <1>3 DEF LoadReference
<1>4. CASE UnknownReference
  BY <1>4 DEF UnknownReference
<1>5. CASE LoadSingleton
  BY <1>5 DEF LoadSingleton
<1>6. CASE LoadAtom
  BY <1>6 DEF LoadAtom
<1>7. CASE OpenContainer
  BY <1>7 DEF OpenContainer
<1>8. CASE CloseContainer
  BY <1>8 DEF CloseContainer
<1>9. CASE RefuseParts
  BY <1>9 DEF RefuseParts
<1>10. CASE UNCHANGED vars
  BY <1>10 DEF vars
<1> QED
  BY <1>1, <1>2, <1>3, <1>4, <1>5, <1>6, <1>7, <1>8, <1>9, <1>10 DEF Next

LEMMA InStepStep == InStep /\ [TripNext]_tripVars => InStep'
<1> SUFFICES ASSUME InStep, [TripNext]_tripVars PROVE InStep'
  OBVIOUS
<1>1. [Next]_vars /\ nodes' = nodes /\ written' = written
  BY DEF TripNext, tripVars
<1>2. Typed'
  BY <1>1, TypedStep DEF InStep
<1>3. new_layout' = new_layout /\ data' = data
  BY <1>1, DataStays
<1>4. ASSUME written # "never" PROVE Frozen' /\ Faithful'
  <2>1. Typed /\ Frozen /\ Faithful
    BY <1>4 DEF InStep
  <2>2. Frozen'
    BY <1>1, <1>3, <2>1 DEF Frozen
  <2>3. CASE Next
    BY <1>1, <2>1, <2>2, <2>3, FaithfulStep
  <2>4. CASE UNCHANGED vars
    <3>1. UNCHANGED <<new_layout, data, offset, refs, heap, frames, status, result, nodes, written>>
      BY <1>1, <2>4 DEF vars
    <3> QED
      BY <2>1, <2>2, <3>1 DEF Faithful, Follows, Simulates, Restored
  <2> QED
    BY <1>1, <2>2, <2>3, <2>4
<1> QED
  BY <1>1, <1>2, <1>4 DEF InStep

LEMMA AlwaysInStep == TripSpec => []InStep
<1> QED
  BY TripInitInStep, InStepStep, PTL DEF TripSpec

-----------------------------------------------------------------------------
(* What is read, and what the reader promises.                              *)

(* What holds of the root and of the parts of what it holds of.             *)
TheRoot == {<<Root(nodes), result>>}

LEMMA ReachedStays ==
    ASSUME NEW S, TheRoot \in S, \A known \in S : Deeper(known) \in S
    PROVE  \A n \in Nat : Reached[n] \in S
<1> DEFINE first == TheRoot
           F == [known \in S |-> Deeper(known)]
           Step(f) == [n \in Nat |-> IF n = 0 THEN first ELSE Deeper(f[n - 1])]
<1>0. first \in S /\ \A known \in S : Deeper(known) \in S
  OBVIOUS
<1>3. F \in [S -> S]
  BY <1>0
<1>4. PICK g \in [Nat -> S] : g[0] = first /\ \A n \in Nat : g[n + 1] = F[g[n]]
  <2> HIDE DEF F, first
  <2> QED
    BY <1>0, <1>3, Iterated, SMTT(30)
<1>5. \A n \in Nat : g[n + 1] = Deeper(g[n])
  <2> HIDE DEF first
  <2> QED
    BY <1>4
<1> HIDE DEF first, F
<1>6. g = Step(g)
  <2> SUFFICES ASSUME NEW n \in Nat
               PROVE  g[n] = IF n = 0 THEN first ELSE Deeper(g[n - 1])
    BY <1>4
  <2>1. CASE n = 0
    BY <1>4, <2>1
  <2>2. CASE n # 0
    <3>1. n - 1 \in Nat /\ (n - 1) + 1 = n
      BY <2>2
    <3> QED
      BY <1>5, <2>2, <3>1
  <2> QED
    BY <2>1, <2>2
<1>7. Reached = Step(Reached)
  <2>1. Reached = CHOOSE f : f = Step(f)
    BY DEF Reached, first, TheRoot
  <2> HIDE DEF Step
  <2> QED
    BY <1>6, <2>1
<1> DEFINE R == Reached
<1>8. R[0] = first /\ \A n \in Nat : R[n + 1] = Deeper(R[n])
  <2> HIDE DEF R
  <2>1. R = Step(R)
    BY <1>7 DEF R
  <2>2. \A n \in Nat : R[n] = IF n = 0 THEN first ELSE Deeper(R[n - 1])
    BY <2>1
  <2>3. \A n \in Nat : n + 1 \in Nat /\ n + 1 # 0 /\ (n + 1) - 1 = n
    OBVIOUS
  <2> QED
    BY <2>2, <2>3
<1>9. \A n \in Nat : R[n] \in S
  <2> DEFINE P == {n \in Nat : R[n] \in S}
  <2> HIDE DEF R
  <2>1. 0 \in P
    BY <1>0, <1>8
  <2>2. ASSUME NEW n \in P PROVE n + 1 \in P
    <3>1. R[n + 1] = Deeper(R[n]) /\ n + 1 \in Nat /\ R[n] \in S
      BY <1>8
    <3>2. Deeper(R[n]) \in S
      BY <1>0, <3>1
    <3> QED
      BY <3>1, <3>2
  <2>3. P \subseteq Nat
    OBVIOUS
  <2>4. P = Nat
    <3> HIDE DEF P
    <3> QED
      BY <2>1, <2>2, <2>3, Inductive
  <2> QED
    BY <2>4
<1> QED
  BY <1>9

(* What can be reached from the root is what mirrors it.                    *)
LEMMA ReachedMirrors ==
    ASSUME NEW new, IsGraph(nodes, new), Objects(heap), NEW what, HeapFits(nodes, heap, what),
           result \in 1 .. Len(heap), what[result] = Root(nodes)
    PROVE  \A p \in Read : \E o \in 1 .. Len(heap) : what[o] \in DOMAIN nodes /\ p = <<what[o], o>>
<1> DEFINE O == {o \in 1 .. Len(heap) : what[o] \in DOMAIN nodes}
           Pairs == {<<what[o], o>> : o \in O}
           S == SUBSET Pairs
           first == {<<Root(nodes), result>>}
<1>1. ASSUME NEW known \in S PROVE Deeper(known) \in S
  <2> DEFINE parts(p) == {<<nodes[p[1]].parts[k], heap[p[2]].items[k]>> :
                             k \in DOMAIN nodes[p[1]].parts \cap DOMAIN heap[p[2]].items}
  <2>1. ASSUME NEW p \in known PROVE parts(p) \subseteq Pairs
    <3>1. PICK o \in 1 .. Len(heap) : what[o] \in DOMAIN nodes /\ p = <<what[o], o>>
      OBVIOUS
    <3>2. p[1] = what[o] /\ p[2] = o
      BY <3>1
    <3>3. /\ Mirrors(nodes, heap, what, o)
          /\ \A k \in DOMAIN heap[o].items : heap[o].items[k] \in 1 .. o - 1
          /\ DOMAIN nodes[what[o]].parts = 1 .. Len(nodes[what[o]].parts)
          /\ \A k \in DOMAIN nodes[what[o]].parts : nodes[what[o]].parts[k] \in 1 .. what[o] - 1
      <4>1. Mirrors(nodes, heap, what, o)
        BY <3>1, Zenon DEF HeapFits
      <4>2. nodes[what[o]].parts \in Seq(Nat) /\ \A k \in DOMAIN nodes[what[o]].parts : nodes[what[o]].parts[k] \in 1 .. what[o] - 1
        BY <3>1, GraphFacts
      <4>3. DOMAIN nodes[what[o]].parts = 1 .. Len(nodes[what[o]].parts)
        BY <4>2, LenProperties
      <4> QED
        BY <4>1, <4>2, <4>3 DEF Objects
    <3>4. ASSUME NEW k \in DOMAIN nodes[what[o]].parts, k \in DOMAIN heap[o].items
          PROVE  <<nodes[what[o]].parts[k], heap[o].items[k]>> \in Pairs
      <4> DEFINE child == heap[o].items[k]
                 part == nodes[what[o]].parts[k]
      <4>1. what[child] = part
        BY <3>3, <3>4 DEF Mirrors
      <4>2. child \in 1 .. Len(heap)
        <5>1. child \in 1 .. o - 1 /\ Len(heap) \in Nat
          BY <3>3, <3>4, Zenon DEF HeapFits
        <5> HIDE DEF child
        <5> QED
          BY <5>1
      <4>3. part \in DOMAIN nodes
        <5>1. part \in 1 .. what[o] - 1 /\ what[o] \in 1 .. Len(nodes) /\ DOMAIN nodes = 1 .. Len(nodes) /\ Len(nodes) \in Nat
          BY <3>1, <3>3, GraphFacts
        <5> HIDE DEF part
        <5> QED
          BY <5>1
      <4> HIDE DEF child, part
      <4>4. child \in O /\ <<part, child>> = <<what[child], child>>
        BY <4>1, <4>2, <4>3
      <4>5. <<part, child>> \in Pairs
        BY <4>4
      <4> QED
        BY <4>5 DEF child, part
    <3> HIDE DEF Pairs
    <3> QED
      BY <3>2, <3>4
  <2>2. Deeper(known) = known \cup UNION {parts(p) : p \in known}
    BY DEF Deeper
  <2> HIDE DEF parts, Pairs
  <2> QED
    BY <2>1, <2>2
<1>2. first \in S
  <2>1. result \in O
    BY GraphFacts
  <2>2. <<Root(nodes), result>> = <<what[result], result>>
    OBVIOUS
  <2>3. <<Root(nodes), result>> \in Pairs
    <3> HIDE DEF O
    <3> QED
      BY <2>1, <2>2
  <2> HIDE DEF Pairs
  <2> QED
    BY <2>3
<1>9. \A n \in Nat : Reached[n] \in S
  <2> HIDE DEF Pairs
  <2>1. PICK T : T = S
    OBVIOUS
  <2> HIDE DEF S
  <2>2. TheRoot \in T /\ \A known \in T : Deeper(known) \in T
    BY <1>1, <1>2, <2>1 DEF TheRoot
  <2>3. \A n \in Nat : Reached[n] \in T
    BY <2>2, ReachedStays
  <2> QED
    BY <2>1, <2>3
<1>10. Read \in S
  <2>1. Len(nodes) \in Nat
    BY GraphFacts
  <2> QED
    BY <1>9, <2>1 DEF Read
<1> QED
  BY <1>10

LEMMA RestoredIsSame ==
    ASSUME Typed, IsGraph(nodes, new_layout), Restored
    PROVE  SameGraph
<1>1. PICK what : HeapFits(nodes, heap, what) /\ what[result] = Root(nodes)
  BY DEF Restored
<1>2. \A p \in Read : \E o \in 1 .. Len(heap) : what[o] \in DOMAIN nodes /\ p = <<what[o], o>>
  BY <1>1, ReachedMirrors DEF Typed
<1>3. ASSUME NEW p \in Read PROVE Alike(p)
  <2>1. PICK o \in 1 .. Len(heap) : what[o] \in DOMAIN nodes /\ p = <<what[o], o>>
    BY <1>2
  <2>2. Mirrors(nodes, heap, what, o)
    BY <1>1, <2>1, Zenon DEF HeapFits
  <2>3. p[1] = what[o] /\ p[2] = o
    BY <2>1
  <2> QED
    BY <2>2, <2>3 DEF Alike, Mirrors
<1>4. ASSUME NEW p \in Read, NEW q \in Read PROVE p[1] = q[1] <=> p[2] = q[2]
  <2>1. PICK o \in 1 .. Len(heap) : p = <<what[o], o>>
    BY <1>2
  <2>2. PICK l \in 1 .. Len(heap) : q = <<what[l], l>>
    BY <1>2
  <2>3. p[1] = what[o] /\ p[2] = o /\ q[1] = what[l] /\ q[2] = l
    BY <2>1, <2>2
  <2>4. what[o] = what[l] => o = l
    BY <1>1, Zenon DEF HeapFits
  <2> QED
    BY <2>3, <2>4
<1> QED
  BY <1>3, <1>4 DEF SameGraph

(* What the reader has done once it stops.                                  *)
AsWritten ==
    written # "never" =>
        /\ status = "returned" => written = "whole" /\ SameGraph
        /\ status \notin {"reading", "returned"} => written = "cut short"

LEMMA InStepAsWritten == InStep => AsWritten
<1> SUFFICES ASSUME InStep, written # "never" PROVE AsWritten
  BY DEF AsWritten
<1>1. Typed /\ Frozen /\ Faithful
  BY DEF InStep
<1>2. IsGraph(nodes, new_layout)
  BY <1>1, FrozenFacts DEF Typed
<1> QED
  BY <1>1, <1>2, RestoredIsSame DEF AsWritten, Faithful

LEMMA TripStepIsStep == [TripNext]_tripVars => [Next]_vars
BY DEF TripNext, tripVars

(* What is so of the reader on any data is so on data that a writer made,   *)
(* whole or cut short, and on foreign data: nothing leads out of what       *)
(* exists, open calls have their own places in refs, and an index that is   *)
(* complete keeps its object.                                               *)
THEOREM ReaderIsSound == TripSpec => [](TypeOK /\ SlotsNest) /\ FinishedStay
<1>1. TripInit => SlotsNest
  BY DEF TripInit, Fresh, SlotsNest
<1>2. InStep => Typed /\ TypeOK
  BY TypedImpliesTypeOK DEF InStep
<1>3. Typed /\ SlotsNest /\ [Next]_vars => SlotsNest'
  BY SlotsNestStep
<1>4. Typed /\ [Next]_vars =>
          [\A s \in DOMAIN refs : s \notin Open => s \in DOMAIN refs' /\ refs'[s] = refs[s]]_vars
  BY FinishedStep
<1>5. TripSpec => []SlotsNest
  BY <1>1, <1>2, <1>3, AlwaysInStep, TripStepIsStep, PTL DEF TripSpec
<1>6. TripSpec => FinishedStay
  BY <1>2, <1>4, AlwaysInStep, TripStepIsStep, PTL DEF TripSpec, FinishedStay
<1> QED
  BY <1>2, <1>5, <1>6, AlwaysInStep, PTL

(* Data that a writer has made are read back as they were written, every    *)
(* object once and each reference to the right one; load() never takes      *)
(* data that were cut short for whole ones, and never refuses whole ones.   *)
THEOREM ReadIsWhatWasWritten == TripSpec => []AsWritten
BY AlwaysInStep, InStepAsWritten, PTL

Outcome ==
    CASE status = "reading" -> "none yet"
      [] status = "returned" /\ written # "never" /\ SameGraph -> "the object written"
      [] status = "returned" /\ (written = "never" \/ ~SameGraph) -> "another object"
      [] OTHER -> "an exception"

OutcomeTells ==
    /\ status = "reading" => Outcome = "none yet"
    /\ status = "returned" /\ written # "never" /\ SameGraph => Outcome = "the object written"
    /\ status = "returned" /\ written = "never" => Outcome = "another object"
    /\ status \notin {"reading", "returned"} => Outcome = "an exception"

LEMMA OutcomeIs == OutcomeTells
<1> DEFINE same == SameGraph
<1> HIDE DEF same
<1> QED
  BY DEF OutcomeTells, Outcome, same

LEMMA OnlyWhileReading ==
    ASSUME Next
    PROVE  status = "reading"
BY DEF Next, EndOfData, UnknownType, LoadReference, UnknownReference, LoadSingleton, LoadAtom, OpenContainer,
       CloseContainer, RefuseParts, Finds, Loading, Calls

LEMMA OutcomeStep ==
    ASSUME InStep, InStep', [TripNext]_tripVars
    PROVE  [Promise!Next]_(Promise!vars)
<1>1. written' = written
  BY DEF TripNext, tripVars
<1>2. AsWritten'
  <2>1. (InStep => AsWritten)'
    BY InStepAsWritten, PTL
  <2> QED
    BY <2>1
<1>3. CASE UNCHANGED tripVars
  BY <1>3 DEF tripVars, vars, Promise!vars, SameGraph, Read, Reached, Deeper, Alike
<1>a. OutcomeTells /\ OutcomeTells'
  <2>1. OutcomeTells'
    BY OutcomeIs, PTL
  <2> QED
    BY <2>1, OutcomeIs
<1>4. CASE TripNext
  <2>1. status = "reading" /\ Outcome = "none yet"
    BY <1>4, OnlyWhileReading, <1>a DEF TripNext, OutcomeTells
  <2>2. CASE status' = "reading"
    <3>1. Outcome' = "none yet"
      BY <2>2, <1>a DEF OutcomeTells
    <3> QED
      BY <1>1, <2>1, <3>1 DEF Promise!vars, Outcome
  <2>3. CASE status' = "returned" /\ written # "never"
    <3>1. written = "whole" /\ SameGraph'
      BY <1>1, <1>2, <2>3 DEF AsWritten
    <3>2. Outcome' = "the object written"
      BY <1>1, <2>3, <3>1, <1>a DEF OutcomeTells
    <3>3. Promise!ReturnObject
      BY <1>1, <2>1, <3>1, <3>2 DEF Promise!ReturnObject, Outcome
    <3> QED
      BY <3>3 DEF Promise!Next
  <2>4. CASE status' = "returned" /\ written = "never"
    <3>1. Outcome' = "another object"
      BY <1>1, <2>4, <1>a DEF OutcomeTells
    <3>2. Promise!ReturnAnything
      BY <1>1, <2>1, <2>4, <3>1 DEF Promise!ReturnAnything, Outcome
    <3> QED
      BY <3>2 DEF Promise!Next
  <2>5. CASE status' \notin {"reading", "returned"}
    <3>1. written \in {"cut short", "never"}
      BY <1>1, <1>2, <2>5 DEF AsWritten
    <3>2. Outcome' = "an exception"
      BY <2>5, <1>a DEF OutcomeTells
    <3>3. Promise!RaiseException
      BY <1>1, <2>1, <3>1, <3>2 DEF Promise!RaiseException, Outcome
    <3> QED
      BY <3>3 DEF Promise!Next
  <2> QED
    BY <2>2, <2>3, <2>4, <2>5
<1> QED
  BY <1>3, <1>4

LEMMA OutcomeInit == TripInit => Promise!Init
<1> SUFFICES ASSUME TripInit PROVE Promise!Init
  OBVIOUS
<1>1. status = "reading"
  BY DEF TripInit, Fresh
<1>2. Outcome = "none yet"
  BY <1>1, OutcomeIs DEF OutcomeTells
<1>3. written \in {"whole", "cut short", "never"}
  BY DEF TripInit, SomethingWritten, NothingWritten
<1> QED
  BY <1>2, <1>3 DEF Promise!Init, Outcome

(* The reader implements what ReadBack promises, but for its fairness: from *)
(* whole data it can only return what was written, from cut ones only raise.*)
THEOREM ReaderKeepsPromise == TripSpec => Promise!Init /\ [][Promise!Next]_(Promise!vars)
<1>1. InStep /\ InStep' /\ [TripNext]_tripVars => [Promise!Next]_(Promise!vars)
  BY OutcomeStep
<1> QED
  BY <1>1, AlwaysInStep, OutcomeInit, PTL DEF TripSpec

-----------------------------------------------------------------------------
(* The tables of names of the decoder.  They are the compiler's table of    *)
(* variables put together again from its segments: the locals, the cells    *)
(* that are no locals, the free variables (LaidOut).                        *)

(* Chosen goes through the places one by one.                               *)
LEMMA ChosenSteps ==
    ASSUME NEW s, NEW places, Len(s) \in Nat
    PROVE  \E g \in [Nat -> Seq({s[i] : i \in Nat})] :
              /\ g[0] = << >>
              /\ \A n \in Nat : g[n + 1] = IF n + 1 \in places THEN Append(g[n], s[n + 1]) ELSE g[n]
              /\ Chosen(s, places) = g[Len(s)]
<1> DEFINE E == {s[i] : i \in Nat}
           S == Seq(E)
           F == [t \in Nat \X S |-> IF t[1] + 1 \in places THEN Append(t[2], s[t[1] + 1]) ELSE t[2]]
           Step(f) == [n \in Nat |-> IF n = 0 THEN << >> ELSE IF n \in places THEN Append(f[n - 1], s[n]) ELSE f[n - 1]]
<1>1. << >> \in S
  OBVIOUS
<1>2. F \in [Nat \X S -> S]
  <2>1. ASSUME NEW n \in Nat, NEW q \in S PROVE Append(q, s[n + 1]) \in S
    <3>1. s[n + 1] \in E
      OBVIOUS
    <3> HIDE DEF E
    <3> QED
      BY <3>1
  <2> HIDE DEF S
  <2>2. ASSUME NEW t \in Nat \X S PROVE (IF t[1] + 1 \in places THEN Append(t[2], s[t[1] + 1]) ELSE t[2]) \in S
    <3>1. t[1] \in Nat /\ t[2] \in S
      OBVIOUS
    <3> QED
      BY <2>1, <3>1
  <2> QED
    BY <2>2
<1>3. PICK g \in [Nat -> S] : g[0] = << >> /\ Iterates(F, g)
  <2>1. KeepsIn(F, S)
    BY <1>2 DEF KeepsIn
  <2> HIDE DEF S, F
  <2> QED
    BY <1>1, <2>1, IteratedAt
<1>4. \A n \in Nat : g[n + 1] = IF n + 1 \in places THEN Append(g[n], s[n + 1]) ELSE g[n]
  <2> HIDE DEF S
  <2> SUFFICES ASSUME NEW n \in Nat PROVE g[n + 1] = IF n + 1 \in places THEN Append(g[n], s[n + 1]) ELSE g[n]
    OBVIOUS
  <2>1. <<n, g[n]>> \in Nat \X S
    OBVIOUS
  <2>2. g[n + 1] = F[<<n, g[n]>>]
    BY <1>3 DEF Iterates
  <2> QED
    BY <2>1, <2>2
<1> HIDE DEF S, F
<1>5. g = Step(g)
  <2> SUFFICES ASSUME NEW n \in Nat
               PROVE  g[n] = IF n = 0 THEN << >> ELSE IF n \in places THEN Append(g[n - 1], s[n]) ELSE g[n - 1]
    BY <1>3
  <2>1. CASE n = 0
    BY <1>3, <2>1
  <2>2. CASE n # 0
    <3>1. n - 1 \in Nat /\ (n - 1) + 1 = n
      BY <2>2
    <3> QED
      BY <1>4, <2>2, <3>1
  <2> QED
    BY <2>1, <2>2
<1> DEFINE U == CHOOSE f : f = Step(f)
<1>6. U = Step(U)
  <2> HIDE DEF Step
  <2> QED
    BY <1>5
<1>7. Chosen(s, places) = U[Len(s)]
  BY DEF Chosen
<1> HIDE DEF U
<1>8. U[0] = << >> /\ \A n \in Nat : U[n + 1] = IF n + 1 \in places THEN Append(U[n], s[n + 1]) ELSE U[n]
  <2>2. \A n \in Nat : U[n] = IF n = 0 THEN << >> ELSE IF n \in places THEN Append(U[n - 1], s[n]) ELSE U[n - 1]
    BY <1>6
  <2>3. \A n \in Nat : n + 1 \in Nat /\ n + 1 # 0 /\ (n + 1) - 1 = n
    OBVIOUS
  <2> QED
    BY <2>2, <2>3
<1>9. \A n \in Nat : U[n] = g[n]
  <2> DEFINE P == {n \in Nat : U[n] = g[n]}
  <2>1. 0 \in P
    BY <1>3, <1>8
  <2>2. ASSUME NEW n \in P PROVE n + 1 \in P
    <3>1. n \in Nat /\ n + 1 \in Nat /\ U[n] = g[n]
      OBVIOUS
    <3>2. U[n + 1] = g[n + 1]
      BY <1>4, <1>8, <3>1
    <3> QED
      BY <3>1, <3>2
  <2>3. P \subseteq Nat
    OBVIOUS
  <2>4. P = Nat
    <3> HIDE DEF P
    <3> QED
      BY <2>1, <2>2, <2>3, Inductive
  <2> QED
    BY <2>4
<1> QED
  BY <1>3, <1>4, <1>7, <1>9 DEF S

(* When the places chosen after the first a are those up to b, they come     *)
(* last, in order.                                                          *)
ChosenFits(s, places, a, b, m, q) ==
    /\ q \in Seq({s[i] : i \in Nat}) /\ Len(q) = m + (b - a)
    /\ \A i \in 1 .. m : \E j \in 1 .. a : j \in places /\ q[i] = s[j]
    /\ \A i \in 1 .. b - a : q[m + i] = s[a + i]
    /\ (\A i \in 1 .. a : i \notin places) => m = 0

LEMMA ChosenTail ==
    ASSUME NEW s, NEW places, Len(s) \in Nat, NEW a \in Nat, NEW b \in Nat, a <= b, b <= Len(s),
           \A i \in a + 1 .. Len(s) : i \in places <=> i <= b
    PROVE  \E m \in 0 .. a : ChosenFits(s, places, a, b, m, Chosen(s, places))
<1> DEFINE E == {s[i] : i \in Nat}
<1>1. PICK g \in [Nat -> Seq(E)] :
              /\ g[0] = << >>
              /\ \A n \in Nat : g[n + 1] = IF n + 1 \in places THEN Append(g[n], s[n + 1]) ELSE g[n]
              /\ Chosen(s, places) = g[Len(s)]
  BY ChosenSteps
<1>2. \A n \in Nat : s[n + 1] \in E /\ n + 1 \in Nat
  OBVIOUS
<1> HIDE DEF E
<1>3. \A n \in Nat : Len(g[n]) \in Nat /\ g[n] \in Seq(E)
  BY <1>1, LenProperties
<1>4. \A n \in Nat :
         /\ Len(Append(g[n], s[n + 1])) = Len(g[n]) + 1
         /\ \A i \in 1 .. Len(g[n]) : Append(g[n], s[n + 1])[i] = g[n][i]
         /\ Append(g[n], s[n + 1])[Len(g[n]) + 1] = s[n + 1]
  BY <1>2, <1>3, AppendProperties
<1> DEFINE Early(n) == /\ Len(g[n]) <= n
                       /\ \A i \in 1 .. Len(g[n]) : \E j \in 1 .. n : j \in places /\ g[n][i] = s[j]
                       /\ (\A i \in 1 .. n : i \notin places) => Len(g[n]) = 0
<1>5. \A n \in Nat : Early(n)
  <2> DEFINE P == {n \in Nat : Early(n)}
  <2>1. 0 \in P
    <3>1. Len(g[0]) = 0
      BY <1>1
    <3>2. Early(0)
      BY <3>1
    <3> HIDE DEF Early
    <3> QED
      BY <3>2
  <2>2. ASSUME NEW n \in P PROVE n + 1 \in P
    <3>0. n \in Nat /\ n + 1 \in Nat /\ n + 1 \in 1 .. n + 1
      <4> HIDE DEF Early
      <4> QED
        OBVIOUS
    <3>1. n \in Nat /\ Early(n) /\ n + 1 \in Nat
      OBVIOUS
    <3>2. CASE n + 1 \in places
      <4>1. g[n + 1] = Append(g[n], s[n + 1])
        BY <1>1, <3>1, <3>2
      <4>2. Len(g[n + 1]) = Len(g[n]) + 1 /\ Len(g[n]) <= n /\ Len(g[n]) \in Nat
        BY <1>3, <1>4, <3>1, <4>1
      <4>3. ASSUME NEW i \in 1 .. Len(g[n + 1]) PROVE \E j \in 1 .. n + 1 : j \in places /\ g[n + 1][i] = s[j]
        <5>1. CASE i \in 1 .. Len(g[n])
          <6>1. g[n + 1][i] = g[n][i]
            BY <1>4, <3>1, <4>1, <5>1
          <6>2. PICK j \in 1 .. n : j \in places /\ g[n][i] = s[j]
            BY <3>1, <5>1
          <6>3. j \in 1 .. n + 1
            BY <3>1
          <6> QED
            BY <6>1, <6>2, <6>3
        <5>2. CASE i = Len(g[n]) + 1
          <6>1. g[n + 1][i] = s[n + 1]
            BY <1>4, <3>1, <4>1, <5>2
          <6>2. PICK j : j = n + 1 /\ j \in 1 .. n + 1
            BY <3>0
          <6>3. j \in places /\ g[n + 1][i] = s[j]
            BY <3>2, <6>1, <6>2
          <6> QED
            BY <6>2, <6>3
        <5>3. i \in 1 .. Len(g[n]) \/ i = Len(g[n]) + 1
          <6> DEFINE before == Len(g[n])
                     after == Len(g[n + 1])
          <6>1. after = before + 1 /\ before \in Nat /\ i \in 1 .. after
            BY <4>2
          <6> HIDE DEF before, after
          <6>2. i \in 1 .. before \/ i = before + 1
            BY <6>1
          <6> QED
            BY <6>2 DEF before
        <5> QED
          BY <5>1, <5>2, <5>3
      <4>4. n + 1 \in 1 .. n + 1 /\ Len(g[n + 1]) <= n + 1
        BY <3>1, <4>2
      <4>5. Early(n + 1)
        BY <3>2, <4>3, <4>4
      <4> HIDE DEF Early
      <4> QED
        BY <3>1, <4>5
    <3>3. CASE n + 1 \notin places
      <4>1. g[n + 1] = g[n]
        BY <1>1, <3>1, <3>3
      <4>2. \A j \in 1 .. n : j \in 1 .. n + 1
        BY <3>1
      <4>3. Len(g[n]) <= n /\ Len(g[n]) \in Nat
        BY <1>3, <3>1
      <4>4. Len(g[n + 1]) <= n + 1
        BY <3>1, <4>1, <4>3
      <4>5. Early(n + 1)
        BY <3>1, <4>1, <4>2, <4>4
      <4> HIDE DEF Early
      <4> QED
        BY <3>1, <4>5
    <3> QED
      BY <3>2, <3>3
  <2>3. P \subseteq Nat
    OBVIOUS
  <2>4. P = Nat
    <3> HIDE DEF P
    <3> QED
      BY <2>1, <2>2, <2>3, Inductive
  <2> QED
    BY <2>4
<1>7. Early(a)
  <2> HIDE DEF Early
  <2> QED
    BY <1>5
<1>6. PICK m \in Nat : m = Len(g[a]) /\ m \in 0 .. a
  BY <1>3, <1>7
<1> DEFINE until(k) == IF a + k <= b THEN k ELSE b - a
           Late(k) == /\ Len(g[a + k]) = m + until(k)
                      /\ \A i \in 1 .. m : g[a + k][i] = g[a][i]
                      /\ \A i \in 1 .. until(k) : g[a + k][m + i] = s[a + i]
<1>8. \A k \in Nat : a + k <= Len(s) => Late(k)
  <2> DEFINE P == {k \in Nat : a + k <= Len(s) => Late(k)}
  <2>1. 0 \in P
    <3>1. a + 0 = a /\ until(0) = 0
      OBVIOUS
    <3>2. Late(0)
      <4> HIDE DEF until
      <4>1. Len(g[a + 0]) = m + 0 /\ g[a + 0] = g[a]
        BY <1>6, <3>1
      <4>2. \A i \in 1 .. 0 : FALSE
        OBVIOUS
      <4> QED
        BY <3>1, <4>1, <4>2
    <3> QED
      BY <3>2
  <2>2. ASSUME NEW k \in P PROVE k + 1 \in P
    <3>0. k \in Nat /\ k + 1 \in Nat
      <4> HIDE DEF Late
      <4> QED
        OBVIOUS
    <3> SUFFICES ASSUME a + (k + 1) <= Len(s) PROVE Late(k + 1)
      <4> HIDE DEF Late
      <4> QED
        BY <3>0
    <3>1. k \in Nat /\ Late(k)
      <4> HIDE DEF Late
      <4> QED
        BY <3>0
    <3>2. a + k \in Nat /\ a + (k + 1) = (a + k) + 1 /\ (a + k) + 1 \in a + 1 .. Len(s)
      BY <3>1
    <3>3. CASE (a + k) + 1 \in places
      <4>1. (a + k) + 1 <= b
        BY <3>2, <3>3
      <4>2. until(k) = k /\ until(k + 1) = k + 1
        BY <3>1, <4>1
      <4>3. g[a + (k + 1)] = Append(g[a + k], s[(a + k) + 1])
        BY <1>1, <3>2, <3>3
      <4>4. Len(g[a + k]) = m + k /\ Len(g[a + k]) \in Nat
        BY <1>3, <3>1, <3>2, <4>2
      <4>5. /\ Len(g[a + (k + 1)]) = (m + k) + 1
            /\ \A i \in 1 .. m + k : g[a + (k + 1)][i] = g[a + k][i]
            /\ g[a + (k + 1)][(m + k) + 1] = s[(a + k) + 1]
        <5> HIDE DEF Late, until
        <5>1. /\ Len(Append(g[a + k], s[(a + k) + 1])) = Len(g[a + k]) + 1
              /\ \A i \in 1 .. Len(g[a + k]) : Append(g[a + k], s[(a + k) + 1])[i] = g[a + k][i]
              /\ Append(g[a + k], s[(a + k) + 1])[Len(g[a + k]) + 1] = s[(a + k) + 1]
          BY <1>4, <3>2
        <5> QED
          BY <4>3, <4>4, <5>1, Zenon
      <4>6. \A i \in 1 .. m : g[a + k][i] = g[a][i]
        BY <3>1
      <4>7. \A i \in 1 .. k : g[a + k][m + i] = s[a + i]
        BY <3>1, <4>2
      <4> HIDE DEF until
      <4>8. \A i \in 1 .. m : i \in 1 .. m + k
        BY <1>6, <3>1
      <4>9. \A i \in 1 .. k + 1 : g[a + (k + 1)][m + i] = s[a + i]
        <5> SUFFICES ASSUME NEW i \in 1 .. k + 1 PROVE g[a + (k + 1)][m + i] = s[a + i]
          OBVIOUS
        <5>1. CASE i \in 1 .. k
          <6>1. m + i \in 1 .. m + k
            BY <3>0, <5>1
          <6> QED
            BY <4>5, <4>7, <5>1, <6>1
        <5>2. CASE i = k + 1
          <6>1. m + i = (m + k) + 1 /\ a + i = (a + k) + 1
            BY <3>0, <5>2
          <6> QED
            BY <4>5, <6>1
        <5> QED
          BY <3>1, <5>1, <5>2
      <4>10. (m + k) + 1 = m + (k + 1)
        BY <1>6, <3>1
      <4> QED
        BY <4>2, <4>5, <4>6, <4>8, <4>9, <4>10
    <3>4. CASE (a + k) + 1 \notin places
      <4>1. ~((a + k) + 1 <= b)
        BY <3>2, <3>4
      <4>2. until(k) = b - a /\ until(k + 1) = b - a
        BY <3>1, <4>1
      <4>3. g[a + (k + 1)] = g[a + k]
        BY <1>1, <3>2, <3>4
      <4> HIDE DEF until
      <4> QED
        BY <3>1, <4>2, <4>3
    <3> QED
      BY <3>3, <3>4
  <2>3. P \subseteq Nat
    OBVIOUS
  <2>4. P = Nat
    <3> HIDE DEF P
    <3> QED
      BY <2>1, <2>2, <2>3, Inductive
  <2> HIDE DEF Late
  <2> QED
    BY <2>4
<1>9. Late(Len(s) - a) /\ a + (Len(s) - a) = Len(s) /\ until(Len(s) - a) = b - a
  <2>1. Len(s) - a \in Nat /\ a + (Len(s) - a) = Len(s)
    OBVIOUS
  <2>2. Late(Len(s) - a)
    <3> HIDE DEF Late
    <3> QED
      BY <1>8, <2>1
  <2>3. until(Len(s) - a) = b - a
    <3>1. CASE Len(s) <= b
      <4>1. Len(s) = b
        BY <3>1
      <4> QED
        BY <2>1, <4>1
    <3>2. CASE ~(Len(s) <= b)
      BY <2>1, <3>2
    <3> QED
      BY <3>1, <3>2
  <2> HIDE DEF Late, until
  <2> QED
    BY <2>1, <2>2, <2>3
<1>10. ChosenFits(s, places, a, b, m, Chosen(s, places))
  <2>1. Chosen(s, places) \in Seq(E)
    BY <1>1
  <2> DEFINE q == Chosen(s, places)
  <2>2. q = g[Len(s)]
    BY <1>1
  <2> HIDE DEF q, until
  <2>3. Len(q) = m + (b - a) /\ (\A i \in 1 .. m : q[i] = g[a][i]) /\ \A i \in 1 .. b - a : q[m + i] = s[a + i]
    BY <1>9, <2>2
  <2>4. q \in Seq({s[i] : i \in Nat})
    BY <2>1 DEF q, E
  <2>5. \A i \in 1 .. m : \E j \in 1 .. a : j \in places /\ q[i] = s[j]
    BY <1>6, <1>7, <2>3
  <2>6. (\A i \in 1 .. a : i \notin places) => m = 0
    BY <1>6, <1>7
  <2>7. ChosenFits(s, places, a, b, m, q)
    <3> HIDE DEF Late, Early
    <3> QED
      BY <2>3, <2>4, <2>5, <2>6 DEF ChosenFits
  <2> QED
    BY <2>7 DEF q
<1> QED
  BY <1>6, <1>10

(* A sequence is one over any larger set.                                   *)
LEMMA SeqWidens ==
    ASSUME NEW A, NEW B, A \subseteq B, NEW q \in Seq(A)
    PROVE  q \in Seq(B)
OBVIOUS

(* Three segments of a sequence, put together.                              *)
SegmentsOf(S, N, V, O, F, a, b, n, all) ==
    /\ all = V \o O \o F
    /\ V \in Seq(S) /\ O \in Seq(S) /\ F \in Seq(S)
    /\ a \in Nat /\ b \in Nat /\ n \in Nat /\ a <= b /\ b <= n
    /\ Len(V) = a /\ Len(O) = b - a /\ Len(F) = n - b
    /\ \A i \in 1 .. a : V[i] = N[i]
    /\ \A i \in 1 .. b - a : O[i] = N[a + i]
    /\ \A i \in 1 .. n - b : F[i] = N[b + i]

LEMMA Segments ==
    ASSUME NEW S, NEW N, NEW V, NEW O, NEW F, NEW a, NEW b, NEW n, NEW all, SegmentsOf(S, N, V, O, F, a, b, n, all)
    PROVE  /\ DOMAIN all = 1 .. n
           /\ \A k \in 1 .. n : all[k] = N[k]
<1> USE DEF SegmentsOf
<1>1. /\ V \o O \in Seq(S) /\ Len(V \o O) = b
      /\ \A i \in 1 .. b : (V \o O)[i] = IF i <= a THEN V[i] ELSE O[i - a]
  <2>1. a + (b - a) = b
    OBVIOUS
  <2> QED
    BY <2>1, ConcatProperties
<1>2. \A i \in 1 .. b : (V \o O)[i] = N[i]
  <2> SUFFICES ASSUME NEW i \in 1 .. b PROVE (V \o O)[i] = N[i]
    OBVIOUS
  <2>1. CASE i <= a
    <3>1. i \in 1 .. a
      BY <2>1
    <3> QED
      BY <1>1, <2>1, <3>1
  <2>2. CASE ~(i <= a)
    <3>1. i - a \in 1 .. b - a /\ a + (i - a) = i
      BY <2>2
    <3> QED
      BY <1>1, <2>2, <3>1
  <2> QED
    BY <2>1, <2>2
<1> DEFINE W == V \o O
<1> HIDE DEF W
<1>3. /\ W \o F \in Seq(S) /\ Len(W \o F) = n
      /\ \A i \in 1 .. n : (W \o F)[i] = IF i <= b THEN W[i] ELSE F[i - b]
  <2>1. b + (n - b) = n
    OBVIOUS
  <2>2. W \in Seq(S) /\ Len(W) = b
    BY <1>1 DEF W
  <2>3. /\ W \o F \in Seq(S) /\ Len(W \o F) = Len(W) + Len(F)
        /\ \A i \in 1 .. Len(W) + Len(F) : (W \o F)[i] = IF i <= Len(W) THEN W[i] ELSE F[i - Len(W)]
    BY <2>2, ConcatProperties
  <2>4. Len(W) + Len(F) = n
    BY <2>1, <2>2
  <2> QED
    BY <2>2, <2>3, <2>4
<1>4. DOMAIN (W \o F) = 1 .. n
  BY <1>3, LenProperties
<1>5. \A i \in 1 .. n : (W \o F)[i] = N[i]
  <2> SUFFICES ASSUME NEW i \in 1 .. n PROVE (W \o F)[i] = N[i]
    OBVIOUS
  <2>1. CASE i <= b
    <3>1. i \in 1 .. b
      BY <2>1
    <3> QED
      BY <1>2, <1>3, <2>1, <3>1 DEF W
  <2>2. CASE ~(i <= b)
    <3>1. i - b \in 1 .. n - b /\ b + (i - b) = i
      BY <2>2
    <3> QED
      BY <1>3, <2>2, <3>1
  <2> QED
    BY <2>1, <2>2
<1>6. all = W \o F
  BY DEF W
<1> HIDE DEF SegmentsOf
<1> QED
  BY <1>4, <1>5, <1>6

(* The names N that were read for o, their kinds K and their texts T.       *)
LayOf(o, N, K, T) ==
    /\ N = Names(heap, o, "localsplusnames")
    /\ K = heap[Field(heap[o].items, "localspluskinds")].atom
    /\ Len(N) \in Nat /\ DOMAIN N = 1 .. Len(N) /\ DOMAIN K = 1 .. Len(K)
    /\ T = [k \in DOMAIN N |-> heap[N[k]].atom] /\ Len(T) = Len(N) /\ LaidOut(T, K)

(* Taken apart by kind and put together, the variables are as they were.    *)
LEMMA TableIsVariables ==
    ASSUME new_layout, NEW o, NEW N, NEW K, NEW T, LayOf(o, N, K, T)
    PROVE  DOMAIN FastTable(heap, o) = DOMAIN N /\ \A k \in DOMAIN N : FastTable(heap, o)[k] = N[k]
<1>0. /\ N = Names(heap, o, "localsplusnames")
      /\ K = heap[Field(heap[o].items, "localspluskinds")].atom
      /\ Len(N) \in Nat /\ DOMAIN N = 1 .. Len(N) /\ DOMAIN K = 1 .. Len(K)
      /\ T = [k \in DOMAIN N |-> heap[N[k]].atom] /\ Len(T) = Len(N) /\ LaidOut(T, K)
  BY DEF LayOf
<1> USE <1>0
<1> DEFINE n == Len(N)
           places(bit) == {i \in DOMAIN N \cap DOMAIN K : Has(K[i], bit)}
<1>1. PICK a \in 0 .. Len(T) : \E c \in a .. Len(T) :
          /\ \A i \in DOMAIN T :
                /\ Has(K[i], LOCAL_BIT) <=> i <= a
                /\ i > a => (Has(K[i], CELL_BIT) <=> i <= c)
                /\ Has(K[i], FREE_BIT) <=> i > c
          /\ \A i \in a + 1 .. c, j \in 1 .. a : T[i] # T[j]
  BY Zenon DEF LaidOut
<1>2. PICK b \in a .. Len(T) :
          /\ \A i \in DOMAIN T :
                /\ Has(K[i], LOCAL_BIT) <=> i <= a
                /\ i > a => (Has(K[i], CELL_BIT) <=> i <= b)
                /\ Has(K[i], FREE_BIT) <=> i > b
          /\ \A i \in a + 1 .. b, j \in 1 .. a : T[i] # T[j]
  BY <1>1
<1>3. a \in Nat /\ b \in Nat /\ n \in Nat /\ a <= b /\ b <= n /\ a <= n
  OBVIOUS
<1>4. DOMAIN T = 1 .. n /\ DOMAIN N = 1 .. n /\ DOMAIN K = 1 .. n
  BY DEF LaidOut
<1>5. \A bit : OfKind(heap, o, bit) = Chosen(N, places(bit))
  BY DEF OfKind
<1>6. \A i \in 1 .. n : /\ i \in places(LOCAL_BIT) <=> i <= a
                        /\ i > a => (i \in places(CELL_BIT) <=> i <= b)
                        /\ i \in places(FREE_BIT) <=> i > b
  BY <1>2, <1>4
<1> DEFINE PL == places(LOCAL_BIT)
           PC == places(CELL_BIT)
           PF == places(FREE_BIT)
<1>v. PICK V : V = Varnames(heap, o)
  OBVIOUS
<1>c. PICK C : C = Cellvars(heap, o)
  OBVIOUS
<1>f. PICK F : F = Freevars(heap, o)
  OBVIOUS
<1>7. V = Chosen(N, PL) /\ C = Chosen(N, PC) /\ F = Chosen(N, PF)
  BY <1>5, <1>v, <1>c, <1>f DEF Varnames, Cellvars, Freevars
<1>8. \A i \in 1 .. n : /\ i \in PL <=> i <= a
                        /\ i > a => (i \in PC <=> i <= b)
                        /\ i \in PF <=> i > b
  BY <1>6
<1> HIDE DEF PL, PC, PF, places
<1>9. V \in Seq({N[i] : i \in Nat}) /\ Len(V) = a /\ \A i \in 1 .. a : V[i] = N[i]
  <2>1. \A i \in 0 + 1 .. Len(N) : i \in PL <=> i <= a
    BY <1>8
  <2>2. PICK m \in 0 .. 0 : ChosenFits(N, PL, 0, a, m, V)
    <3>1. 0 \in Nat /\ 0 <= a /\ a <= Len(N) /\ Len(N) \in Nat /\ a \in Nat
      BY <1>3
    <3> QED
      BY <1>7, <2>1, <3>1, ChosenTail
  <2>3. m = 0
    OBVIOUS
  <2>4. Len(V) = 0 + (a - 0) /\ (\A i \in 1 .. a - 0 : V[0 + i] = N[0 + i]) /\ V \in Seq({N[i] : i \in Nat})
    BY <2>2, <2>3 DEF ChosenFits
  <2>5. 0 + (a - 0) = a /\ a - 0 = a /\ \A i \in 1 .. a : 0 + i = i
    BY <1>3
  <2> QED
    BY <2>4, <2>5
<1>10. F \in Seq({N[i] : i \in Nat}) /\ Len(F) = n - b /\ \A i \in 1 .. n - b : F[i] = N[b + i]
  <2>1. \A i \in b + 1 .. Len(N) : i \in PF <=> i <= n
    BY <1>3, <1>8
  <2>2. PICK m \in 0 .. b : ChosenFits(N, PF, b, n, m, F)
    <3>1. b <= n /\ n <= Len(N) /\ Len(N) \in Nat /\ b \in Nat /\ n \in Nat
      BY <1>3
    <3> HIDE DEF n
    <3> QED
      BY <1>7, <2>1, <3>1, ChosenTail
  <2>3. \A i \in 1 .. b : i \notin PF
    BY <1>3, <1>8
  <2>4. m = 0
    BY <2>2, <2>3 DEF ChosenFits
  <2>5. Len(F) = 0 + (n - b) /\ (\A i \in 1 .. n - b : F[0 + i] = N[b + i]) /\ F \in Seq({N[i] : i \in Nat})
    BY <2>2, <2>4 DEF ChosenFits
  <2>6. 0 + (n - b) = n - b /\ \A i \in 1 .. n - b : 0 + i = i
    BY <1>3
  <2> QED
    BY <2>5, <2>6
<1>11. PICK m \in 0 .. a : ChosenFits(N, PC, a, b, m, C)
  <2>1. \A i \in a + 1 .. Len(N) : i \in PC <=> i <= b
    BY <1>3, <1>8
  <2>2. a <= b /\ b <= Len(N) /\ Len(N) \in Nat /\ a \in Nat /\ b \in Nat
    BY <1>3
  <2> QED
    BY <1>7, <2>1, <2>2, ChosenTail
<1>12. /\ C \in Seq({N[i] : i \in Nat}) /\ Len(C) = m + (b - a)
       /\ \A i \in 1 .. m : \E j \in 1 .. a : C[i] = N[j]
       /\ \A i \in 1 .. b - a : C[m + i] = N[a + i]
  BY <1>11 DEF ChosenFits
<1> DEFINE rest == {i \in DOMAIN C : ~In(heap, V, C[i])}
<1>o. PICK O : O = OnlyCells(heap, o)
  OBVIOUS
<1>13. O = Chosen(C, rest)
  BY <1>o, <1>v, <1>c DEF OnlyCells
<1>14. m \in Nat /\ Len(C) \in Nat /\ DOMAIN C = 1 .. Len(C) /\ m <= Len(C) /\ DOMAIN V = 1 .. a
  BY <1>3, <1>9, <1>12, LenProperties
<1>15. \A i \in 1 .. n : T[i] = heap[N[i]].atom
  BY <1>4
<1>16. \A i \in 1 .. m : i \notin rest
  <2> SUFFICES ASSUME NEW i \in 1 .. m PROVE In(heap, V, C[i])
    BY DEF rest
  <2>1. PICK j \in 1 .. a : C[i] = N[j]
    BY <1>12
  <2>2. V[j] = N[j] /\ j \in DOMAIN V
    BY <1>9, <1>14
  <2> QED
    BY <2>1, <2>2 DEF In
<1>17. \A i \in m + 1 .. Len(C) : i \in rest
  <2> SUFFICES ASSUME NEW i \in m + 1 .. Len(C) PROVE ~In(heap, V, C[i])
    <3>1. \A i \in m + 1 .. Len(C) : i \in DOMAIN C
      BY <1>14
    <3> QED
      BY <3>1 DEF rest
  <2>1. i - m \in 1 .. b - a /\ m + (i - m) = i
    BY <1>3, <1>12, <1>14
  <2>2. PICK l : l = a + (i - m) /\ l \in a + 1 .. b /\ l \in 1 .. n
    BY <1>3, <2>1
  <2>3. C[i] = N[l]
    BY <1>12, <2>1, <2>2
  <2>4. ASSUME NEW j \in DOMAIN V PROVE heap[V[j]].atom # heap[C[i]].atom
    <3>1. j \in 1 .. a /\ V[j] = N[j] /\ j \in 1 .. n
      BY <1>3, <1>9, <1>14
    <3>2. T[l] # T[j]
      BY <1>2, <2>2, <3>1
    <3> QED
      BY <1>15, <2>2, <2>3, <3>1, <3>2
  <2> QED
    BY <2>4 DEF In
<1>18. O \in Seq({C[i] : i \in Nat}) /\ Len(O) = b - a /\ \A i \in 1 .. b - a : O[i] = N[a + i]
  <2>1. \A i \in m + 1 .. Len(C) : i \in rest <=> i <= Len(C)
    BY <1>14, <1>17
  <2> HIDE DEF rest
  <2>2. PICK l \in 0 .. m : ChosenFits(C, rest, m, Len(C), l, O)
    <3>1. Len(C) <= Len(C)
      BY <1>14
    <3> QED
      BY <1>13, <1>14, <2>1, <3>1, ChosenTail
  <2>3. l = 0
    BY <1>16, <2>2 DEF ChosenFits
  <2>4. Len(O) = 0 + (Len(C) - m) /\ (\A i \in 1 .. Len(C) - m : O[0 + i] = C[m + i]) /\ O \in Seq({C[i] : i \in Nat})
    BY <2>2, <2>3 DEF ChosenFits
  <2>5. Len(C) - m = b - a /\ 0 + (b - a) = b - a /\ \A i \in 1 .. b - a : 0 + i = i
    BY <1>3, <1>12, <1>14
  <2> QED
    BY <1>12, <2>4, <2>5
<1> DEFINE S == {N[i] : i \in Nat} \cup {C[i] : i \in Nat}
<1>19. V \in Seq(S) /\ O \in Seq(S) /\ F \in Seq(S)
  BY <1>9, <1>10, <1>18, SeqWidens
<1>a. PICK all : all = V \o O \o F
  OBVIOUS
<1>20. DOMAIN all = 1 .. n /\ \A k \in 1 .. n : all[k] = N[k]
  <2>1. /\ Len(V) = a /\ Len(O) = b - a /\ Len(F) = n - b
        /\ \A i \in 1 .. a : V[i] = N[i]
        /\ \A i \in 1 .. b - a : O[i] = N[a + i]
        /\ \A i \in 1 .. n - b : F[i] = N[b + i]
    BY <1>9, <1>10, <1>18
  <2> HIDE DEF S, n
  <2> QED
    <3>1. SegmentsOf(S, N, V, O, F, a, b, n, all)
      BY <1>3, <1>a, <1>19, <2>1 DEF SegmentsOf
    <3> QED
      BY <3>1, Segments
<1>21. FastTable(heap, o) = all
  BY <1>a, <1>v, <1>o, <1>f DEF FastTable
<1> QED
  BY <1>4, <1>20, <1>21

(* The index of a field is that of its only place.                          *)
LEMMA OnlyPlace ==
    ASSUME NEW fields, NEW x, NEW n \in DOMAIN fields, fields[n] = x,
           \A i \in DOMAIN fields : fields[i] = x => i = n
    PROVE  (CHOOSE i \in DOMAIN fields : fields[i] = x) = n
OBVIOUS

(* How many objects follow the type byte of a code object.                  *)
LEMMA FieldCount == Len(FieldsOf(TRUE)) = 10 /\ Len(FieldsOf(FALSE)) = 9
<1>1. Len(FieldsOf(TRUE)) = 10
  BY SMTT(30) DEF FieldsOf
<1>2. Len(FieldsOf(FALSE)) = 9
  BY SMTT(30) DEF FieldsOf
<1> QED
  BY <1>1, <1>2

(* Where the tables of names are among the parts.                           *)
LEMMA NewPlaces ==
    ASSUME new_layout
    PROVE  /\ \A parts : Field(parts, "localsplusnames") = parts[4] /\ Field(parts, "localspluskinds") = parts[5]
           /\ \A graph, code : /\ PartOf(graph, TRUE, code, "localsplusnames") = graph[code].parts[4]
                               /\ PartOf(graph, TRUE, code, "localspluskinds") = graph[code].parts[5]
<1> DEFINE read == Fields
           made == FieldsOf(TRUE)
<1>1. PICK f : f = read
  OBVIOUS
<1>2. PICK g : g = made
  OBVIOUS
<1>3. /\ f = <<"co_code", "co_consts", "co_names", "localsplusnames", "localspluskinds",
           "co_filename", "co_name", "co_qualname", "co_linetable", "co_exceptiontable">>
      /\ g = <<"code", "consts", "names", "localsplusnames", "localspluskinds",
           "filename", "name", "qualname", "linetable", "exceptiontable">>
  BY <1>1, <1>2 DEF Fields, FieldsOf
<1>4. DOMAIN f = 1 .. 10 /\ DOMAIN g = 1 .. 10
  BY <1>3
<1>5. \A i \in 1 .. 10 : i \in {1, 2, 3, 4, 5, 6, 7, 8, 9, 10}
  OBVIOUS
<1>6. \A i \in {1, 2, 3, 4, 5, 6, 7, 8, 9, 10} :
         /\ f[i] = "localsplusnames" <=> i = 4
         /\ f[i] = "localspluskinds" <=> i = 5
         /\ g[i] = "localsplusnames" <=> i = 4
         /\ g[i] = "localspluskinds" <=> i = 5
  BY <1>3
<1>7. 4 \in DOMAIN f /\ 5 \in DOMAIN f /\ 4 \in DOMAIN g /\ 5 \in DOMAIN g
  BY <1>4
<1>8. /\ (CHOOSE i \in DOMAIN f : f[i] = "localsplusnames") = 4
      /\ (CHOOSE i \in DOMAIN f : f[i] = "localspluskinds") = 5
      /\ (CHOOSE i \in DOMAIN g : g[i] = "localsplusnames") = 4
      /\ (CHOOSE i \in DOMAIN g : g[i] = "localspluskinds") = 5
  <2>1. \A i \in DOMAIN f : i \in {1, 2, 3, 4, 5, 6, 7, 8, 9, 10}
    BY <1>4, <1>5
  <2>2. \A i \in DOMAIN g : i \in {1, 2, 3, 4, 5, 6, 7, 8, 9, 10}
    BY <1>4, <1>5
  <2> QED
    BY <1>6, <1>7, <2>1, <2>2, OnlyPlace
<1> QED
  BY <1>1, <1>2, <1>8, Zenon DEF Field, PartOf

LEMMA OldPlaces ==
    ASSUME ~new_layout
    PROVE  /\ \A parts : /\ Field(parts, "co_varnames") = parts[4]
                          /\ Field(parts, "co_freevars") = parts[5]
                          /\ Field(parts, "co_cellvars") = parts[6]
           /\ \A graph, code : /\ PartOf(graph, FALSE, code, "varnames") = graph[code].parts[4]
                               /\ PartOf(graph, FALSE, code, "freevars") = graph[code].parts[5]
                               /\ PartOf(graph, FALSE, code, "cellvars") = graph[code].parts[6]
<1> DEFINE read == Fields
           made == FieldsOf(FALSE)
<1>1. PICK f : f = read
  OBVIOUS
<1>2. PICK g : g = made
  OBVIOUS
<1>3. /\ f = <<"co_code", "co_consts", "co_names", "co_varnames", "co_freevars", "co_cellvars",
           "co_filename", "co_name", "co_linetable">>
      /\ g = <<"code", "consts", "names", "varnames", "freevars", "cellvars", "filename", "name", "linetable">>
  BY <1>1, <1>2 DEF Fields, FieldsOf
<1>4. DOMAIN f = 1 .. 9 /\ DOMAIN g = 1 .. 9
  BY <1>3
<1>5. \A i \in 1 .. 9 : i \in {1, 2, 3, 4, 5, 6, 7, 8, 9}
  OBVIOUS
<1>6. \A i \in {1, 2, 3, 4, 5, 6, 7, 8, 9} :
         /\ f[i] = "co_varnames" <=> i = 4
         /\ f[i] = "co_freevars" <=> i = 5
         /\ f[i] = "co_cellvars" <=> i = 6
         /\ g[i] = "varnames" <=> i = 4
         /\ g[i] = "freevars" <=> i = 5
         /\ g[i] = "cellvars" <=> i = 6
  BY <1>3
<1>7. /\ 4 \in DOMAIN f /\ 5 \in DOMAIN f /\ 6 \in DOMAIN f
      /\ 4 \in DOMAIN g /\ 5 \in DOMAIN g /\ 6 \in DOMAIN g
  BY <1>4
<1>8. /\ (CHOOSE i \in DOMAIN f : f[i] = "co_varnames") = 4
      /\ (CHOOSE i \in DOMAIN f : f[i] = "co_freevars") = 5
      /\ (CHOOSE i \in DOMAIN f : f[i] = "co_cellvars") = 6
      /\ (CHOOSE i \in DOMAIN g : g[i] = "varnames") = 4
      /\ (CHOOSE i \in DOMAIN g : g[i] = "freevars") = 5
      /\ (CHOOSE i \in DOMAIN g : g[i] = "cellvars") = 6
  <2>1. \A i \in DOMAIN f : i \in {1, 2, 3, 4, 5, 6, 7, 8, 9}
    BY <1>4, <1>5
  <2>2. \A i \in DOMAIN g : i \in {1, 2, 3, 4, 5, 6, 7, 8, 9}
    BY <1>4, <1>5
  <2> QED
    BY <1>6, <1>7, <2>1, <2>2, OnlyPlace
<1> QED
  BY <1>1, <1>2, <1>8, Zenon DEF Field, PartOf

(* A part of an object was read for a part of its node.                     *)
LEMMA PartMirrors ==
    ASSUME Objects(heap), NEW new, IsGraph(nodes, new), NEW what, HeapFits(nodes, heap, what),
           NEW o \in 1 .. Len(heap), what[o] \in DOMAIN nodes, NEW k, k \in 1 .. Len(nodes[what[o]].parts)
    PROVE  /\ heap[o].items[k] \in 1 .. Len(heap)
           /\ what[heap[o].items[k]] = nodes[what[o]].parts[k]
           /\ nodes[what[o]].parts[k] \in DOMAIN nodes
           /\ Mirrors(nodes, heap, what, heap[o].items[k])
<1>1. Mirrors(nodes, heap, what, o) /\ Len(heap) \in Nat
  BY Zenon DEF HeapFits
<1> DEFINE i == what[o]
           child == heap[o].items[k]
           part == nodes[i].parts[k]
<1>2. /\ nodes[i].parts \in Seq(Nat) /\ \A l \in DOMAIN nodes[i].parts : nodes[i].parts[l] \in 1 .. i - 1
      /\ i \in 1 .. Len(nodes) /\ DOMAIN nodes = 1 .. Len(nodes) /\ Len(nodes) \in Nat
  BY GraphFacts
<1>3. DOMAIN nodes[i].parts = 1 .. Len(nodes[i].parts)
  BY <1>2, LenProperties
<1>4. part \in DOMAIN nodes
  <2>1. part \in 1 .. i - 1
    BY <1>2, <1>3
  <2> HIDE DEF part, i
  <2> QED
    BY <1>2, <2>1
<1>5. what[child] = part
  BY <1>1 DEF Mirrors
<1>6. child \in 1 .. Len(heap)
  <2>0. heap \in Seq(Node)
    BY DEF Objects
  <2>a. heap[o] \in Node
    BY <2>0, <1>1, ElementOfSeq
  <2>1. heap[o].items \in Seq(Nat)
    BY <2>a DEF Node
  <2>2. DOMAIN heap[o].items = 1 .. Len(nodes[i].parts)
    BY <1>1, <2>1, LenProperties DEF Mirrors
  <2>3. child \in 1 .. o - 1
    BY <2>2 DEF Objects
  <2> HIDE DEF child
  <2> QED
    BY <1>1, <2>3
<1>7. Mirrors(nodes, heap, what, child)
  <2> HIDE DEF child
  <2> QED
    BY <1>4, <1>5, <1>6, Zenon DEF HeapFits
<1> QED
  BY <1>4, <1>5, <1>6, <1>7

(* The texts of a tuple are those of its node.                              *)
LEMMA TextsKept ==
    ASSUME Objects(heap), NEW new, IsGraph(nodes, new), NEW what, HeapFits(nodes, heap, what),
           NEW o \in 1 .. Len(heap), what[o] \in DOMAIN nodes
    PROVE  /\ heap[o].items \in Seq(Nat)
           /\ TextsIn(heap[o].items) = TextsOf(nodes, what[o])
           /\ TextsOf(nodes, what[o]) \in Seq(Seq(Nat))
           /\ Len(TextsOf(nodes, what[o])) = Len(heap[o].items)
<1>1. Mirrors(nodes, heap, what, o) /\ Len(heap) \in Nat
  BY Zenon DEF HeapFits
<1> DEFINE i == what[o]
           items == heap[o].items
           parts == nodes[i].parts
<1>2. parts \in Seq(Nat) /\ items \in Seq(Nat)
  <2>1. heap \in Seq(Node)
    BY DEF Objects
  <2>2. heap[o] \in Node
    BY <1>1, <2>1, ElementOfSeq
  <2>3. items \in Seq(Nat)
    BY <2>2 DEF Node
  <2>4. parts \in Seq(Nat)
    BY GraphFacts
  <2> QED
    BY <2>3, <2>4
<1>3. DOMAIN parts = 1 .. Len(parts) /\ DOMAIN items = 1 .. Len(parts) /\ Len(parts) \in Nat /\ Len(items) = Len(parts)
  BY <1>1, <1>2, LenProperties DEF Mirrors
<1>4. \A k \in 1 .. Len(parts) : heap[items[k]].atom = nodes[parts[k]].atom /\ nodes[parts[k]].atom \in Seq(Nat)
  <2> SUFFICES ASSUME NEW k \in 1 .. Len(parts)
               PROVE  heap[items[k]].atom = nodes[parts[k]].atom /\ nodes[parts[k]].atom \in Seq(Nat)
    OBVIOUS
  <2>1. /\ what[items[k]] = parts[k] /\ parts[k] \in DOMAIN nodes
        /\ Mirrors(nodes, heap, what, items[k])
    BY PartMirrors
  <2>2. nodes[parts[k]] \in GraphNode
    BY <2>1, GraphFacts
  <2> HIDE DEF items, parts
  <2> QED
    BY <2>1, <2>2 DEF Mirrors, GraphNode
<1> HIDE DEF items, parts
<1>5. TextsIn(items) = [k \in 1 .. Len(parts) |-> nodes[parts[k]].atom]
  BY <1>3, <1>4 DEF TextsIn
<1>6. TextsOf(nodes, i) = [k \in 1 .. Len(parts) |-> nodes[parts[k]].atom]
  BY <1>3 DEF TextsOf, parts
<1>7. TextsOf(nodes, i) \in Seq(Seq(Nat)) /\ Len(TextsOf(nodes, i)) = Len(parts)
  <2>1. TextsOf(nodes, i) \in [1 .. Len(parts) -> Seq(Nat)]
    BY <1>4, <1>6
  <2> HIDE DEF i
  <2> QED
    BY <1>3, <2>1
<1> QED
  BY <1>2, <1>3, <1>5, <1>6, <1>7 DEF items

(* The texts of two tuples, one after the other.                            *)
BothTexts(A, B, S, T, AB, ST) ==
    /\ A \in Seq(Nat) /\ B \in Seq(Nat) /\ S \in Seq(Seq(Nat)) /\ T \in Seq(Seq(Nat))
    /\ AB = A \o B /\ ST = S \o T
    /\ S = TextsIn(A) /\ T = TextsIn(B)

LEMMA TextsTogether ==
    ASSUME NEW A, NEW B, NEW S, NEW T, NEW AB, NEW ST, BothTexts(A, B, S, T, AB, ST)
    PROVE  TextsIn(AB) = ST
<1>s. S \in Seq(Seq(Nat)) /\ T \in Seq(Seq(Nat))
  BY DEF BothTexts
<1>a. A \in Seq(Nat) /\ B \in Seq(Nat)
  BY DEF BothTexts
<1>t. S = TextsIn(A) /\ T = TextsIn(B) /\ AB = A \o B /\ ST = S \o T
  BY DEF BothTexts
<1>1. DOMAIN A = 1 .. Len(A) /\ DOMAIN B = 1 .. Len(B) /\ Len(A) \in Nat /\ Len(B) \in Nat
  BY <1>a, LenProperties
<1>2. DOMAIN S = DOMAIN A /\ DOMAIN T = DOMAIN B
  BY <1>t DEF TextsIn
<1>3. Len(S) = Len(A) /\ Len(T) = Len(B)
  BY <1>1, <1>2, <1>s, LenProperties
<1>4. /\ AB \in Seq(Nat) /\ Len(AB) = Len(A) + Len(B)
      /\ \A i \in 1 .. Len(A) + Len(B) : AB[i] = IF i <= Len(A) THEN A[i] ELSE B[i - Len(A)]
  BY <1>a, <1>t, ConcatProperties
<1>5. /\ ST \in Seq(Seq(Nat)) /\ Len(ST) = Len(A) + Len(B)
      /\ \A i \in 1 .. Len(A) + Len(B) : ST[i] = IF i <= Len(A) THEN S[i] ELSE T[i - Len(A)]
  <2> DEFINE X == Seq(Nat)
  <2>1. S \in Seq(X) /\ T \in Seq(X)
    BY <1>s
  <2> HIDE DEF X
  <2>2. /\ S \o T \in Seq(X) /\ Len(S \o T) = Len(S) + Len(T)
        /\ \A i \in 1 .. Len(S) + Len(T) : (S \o T)[i] = IF i <= Len(S) THEN S[i] ELSE T[i - Len(S)]
    BY <2>1, ConcatProperties
  <2>3. ST = S \o T
    BY <1>t
  <2>4. ST \in Seq(X)
    BY <2>2, <2>3
  <2> QED
    BY <1>3, <2>2, <2>3, <2>4 DEF X
<1> DEFINE n == Len(A) + Len(B)
<1>6. DOMAIN AB = 1 .. n /\ DOMAIN ST = 1 .. n
  BY <1>4, <1>5, LenProperties
<1>7. ASSUME NEW i \in 1 .. n PROVE heap[AB[i]].atom = ST[i]
  <2>1. CASE i <= Len(A)
    <3>1. i \in DOMAIN A
      BY <1>1, <2>1
    <3>2. S[i] = heap[A[i]].atom
      BY <1>t, <3>1 DEF TextsIn
    <3> QED
      BY <1>4, <1>5, <2>1, <3>2
  <2>2. CASE ~(i <= Len(A))
    <3>1. i - Len(A) \in DOMAIN B
      BY <1>1, <2>2
    <3>2. T[i - Len(A)] = heap[B[i - Len(A)]].atom
      BY <1>t, <3>1 DEF TextsIn
    <3> QED
      BY <1>4, <1>5, <2>2, <3>2
  <2> QED
    BY <2>1, <2>2
<1>8. ST = [i \in 1 .. n |-> ST[i]]
  <2> HIDE DEF n
  <2> QED
    BY <1>5, <1>6, LenProperties
<1>9. TextsIn(AB) = [i \in 1 .. n |-> heap[AB[i]].atom]
  BY <1>6 DEF TextsIn
<1> HIDE DEF n
<1> QED
  BY <1>7, <1>8, <1>9

(* The names that are looked up are those that were written.                *)
LEMMA TablesKept ==
    ASSUME Typed, IsGraph(nodes, new_layout), new_layout => VariablesLaidOut(nodes), NEW what, HeapFits(nodes, heap, what),
           NEW o \in 1 .. Len(heap), what[o] \in DOMAIN nodes, nodes[what[o]].kind = "code"
    PROVE  /\ TextsIn(FastTable(heap, o)) = FastNames(nodes, what[o])
           /\ TextsIn(FreeTable(heap, o)) = FreeNames(nodes, what[o])
<1> DEFINE i == what[o]
           parts == nodes[i].parts
           items == heap[o].items
<1>0. Objects(heap) /\ new_layout \in BOOLEAN
  BY DEF Typed
<1>1. Len(parts) = Len(FieldsOf(new_layout))
  <2>1. Writable(nodes, nodes[i], new_layout)
    BY GraphFacts
  <2> QED
    BY <2>1 DEF Writable
<1>2. \A k \in 1 .. Len(parts) : /\ items[k] \in 1 .. Len(heap)
                                 /\ what[items[k]] = parts[k] /\ parts[k] \in DOMAIN nodes
                                 /\ Mirrors(nodes, heap, what, items[k])
  BY <1>0, PartMirrors
<1>3. \A k \in 1 .. Len(parts) :
         /\ heap[items[k]].items \in Seq(Nat)
         /\ TextsIn(heap[items[k]].items) = TextsOf(nodes, parts[k])
         /\ TextsOf(nodes, parts[k]) \in Seq(Seq(Nat))
         /\ Len(TextsOf(nodes, parts[k])) = Len(heap[items[k]].items)
  <2> SUFFICES ASSUME NEW k \in 1 .. Len(parts)
               PROVE  /\ heap[items[k]].items \in Seq(Nat)
                      /\ TextsIn(heap[items[k]].items) = TextsOf(nodes, parts[k])
                      /\ TextsOf(nodes, parts[k]) \in Seq(Seq(Nat))
                      /\ Len(TextsOf(nodes, parts[k])) = Len(heap[items[k]].items)
    OBVIOUS
  <2>1. items[k] \in 1 .. Len(heap) /\ what[items[k]] = parts[k] /\ parts[k] \in DOMAIN nodes
    BY <1>2
  <2> HIDE DEF items, parts
  <2> QED
    BY <1>0, <2>1, TextsKept
<1>4. CASE new_layout
  <2>1. 4 \in 1 .. Len(parts) /\ 5 \in 1 .. Len(parts)
    <3>1. new_layout = TRUE
      BY <1>0, <1>4
    <3>2. Len(FieldsOf(new_layout)) = 10
      BY <3>1, FieldCount
    <3> QED
      BY <1>1, <3>2
  <2>2. /\ Field(items, "localsplusnames") = items[4] /\ Field(items, "localspluskinds") = items[5]
        /\ PartOf(nodes, TRUE, i, "localsplusnames") = parts[4]
        /\ PartOf(nodes, TRUE, i, "localspluskinds") = parts[5]
    <3>1. Field(items, "localsplusnames") = items[4] /\ Field(items, "localspluskinds") = items[5]
      <4> HIDE DEF items
      <4> QED
        BY <1>4, NewPlaces, Zenon
    <3>2. /\ PartOf(nodes, TRUE, i, "localsplusnames") = parts[4]
          /\ PartOf(nodes, TRUE, i, "localspluskinds") = parts[5]
      <4> HIDE DEF i
      <4> QED
        BY <1>4, NewPlaces, Zenon
    <3> QED
      BY <3>1, <3>2
  <2>3. LaidOut(TextsOf(nodes, parts[4]), nodes[parts[5]].atom)
    BY <1>4, <2>2 DEF VariablesLaidOut
  <2>4. PICK N : N = Names(heap, o, "localsplusnames")
    OBVIOUS
  <2>5. PICK K : K = heap[Field(heap[o].items, "localspluskinds")].atom
    OBVIOUS
  <2>6. PICK T : T = TextsOf(nodes, parts[4])
    OBVIOUS
  <2> HIDE DEF parts
  <2>7. N = heap[items[4]].items
    BY <2>2, <2>4 DEF Names
  <2>8. N \in Seq(Nat) /\ TextsIn(N) = T /\ Len(T) = Len(N)
    BY <1>3, <2>1, <2>6, <2>7
  <2>9. K = nodes[parts[5]].atom /\ K \in Seq(Nat)
    <3>1. /\ what[items[5]] = parts[5] /\ parts[5] \in DOMAIN nodes
          /\ Mirrors(nodes, heap, what, items[5])
      BY <1>2, <2>1
    <3>2. K = heap[items[5]].atom
      BY <2>2, <2>5
    <3>3. nodes[parts[5]] \in GraphNode
      BY <3>1, GraphFacts
    <3> QED
      BY <3>1, <3>2, <3>3 DEF Mirrors, GraphNode
  <2>10. Len(N) \in Nat /\ DOMAIN N = 1 .. Len(N) /\ DOMAIN K = 1 .. Len(K)
    BY <2>8, <2>9, LenProperties
  <2>11. T = [k \in DOMAIN N |-> heap[N[k]].atom]
    BY <2>8 DEF TextsIn
  <2>12. LaidOut(T, K)
    BY <2>3, <2>6, <2>9
  <2>13. DOMAIN FastTable(heap, o) = DOMAIN N /\ \A k \in DOMAIN N : FastTable(heap, o)[k] = N[k]
    <3>1. LayOf(o, N, K, T)
      BY <2>4, <2>5, <2>8, <2>10, <2>11, <2>12 DEF LayOf
    <3> QED
      BY <1>4, <3>1, TableIsVariables
  <2>14. TextsIn(FastTable(heap, o)) = T
    BY <2>11, <2>13 DEF TextsIn
  <2>15. FastNames(nodes, i) = T
    BY <1>4, <2>2, <2>6 DEF FastNames, Part
  <2> QED
    BY <1>4, <2>14, <2>15 DEF FreeTable, FreeNames
<1>5. CASE ~new_layout
  <2>0. new_layout = FALSE
    BY <1>0, <1>5
  <2>1. 4 \in 1 .. Len(parts) /\ 5 \in 1 .. Len(parts) /\ 6 \in 1 .. Len(parts)
    <3>1. Len(FieldsOf(new_layout)) = 9
      BY <2>0, FieldCount
    <3> QED
      BY <1>1, <3>1
  <2>2. /\ Field(items, "co_varnames") = items[4]
        /\ Field(items, "co_freevars") = items[5]
        /\ Field(items, "co_cellvars") = items[6]
        /\ PartOf(nodes, FALSE, i, "varnames") = parts[4]
        /\ PartOf(nodes, FALSE, i, "freevars") = parts[5]
        /\ PartOf(nodes, FALSE, i, "cellvars") = parts[6]
    <3>1. /\ Field(items, "co_varnames") = items[4]
          /\ Field(items, "co_freevars") = items[5]
          /\ Field(items, "co_cellvars") = items[6]
      <4> HIDE DEF items
      <4> QED
        BY <1>5, OldPlaces, Zenon
    <3>2. /\ PartOf(nodes, FALSE, i, "varnames") = parts[4]
          /\ PartOf(nodes, FALSE, i, "freevars") = parts[5]
          /\ PartOf(nodes, FALSE, i, "cellvars") = parts[6]
      <4> HIDE DEF i
      <4> QED
        BY <1>5, OldPlaces, Zenon
    <3> QED
      BY <3>1, <3>2
  <2> HIDE DEF parts
  <2>3. TextsIn(FastTable(heap, o)) = FastNames(nodes, i)
    <3>1. FastTable(heap, o) = heap[items[4]].items
      BY <1>5, <2>2 DEF FastTable, Varnames, Names
    <3>2. FastNames(nodes, i) = TextsOf(nodes, parts[4])
      BY <1>5, <2>0, <2>2 DEF FastNames, Part
    <3> QED
      BY <1>3, <2>1, <3>1, <3>2
  <2>4. TextsIn(FreeTable(heap, o)) = FreeNames(nodes, i)
    <3>1. PICK A : A = heap[items[6]].items
      OBVIOUS
    <3>2. PICK B : B = heap[items[5]].items
      OBVIOUS
    <3>3. PICK S : S = TextsOf(nodes, parts[6])
      OBVIOUS
    <3>4. PICK T : T = TextsOf(nodes, parts[5])
      OBVIOUS
    <3>5. FreeTable(heap, o) = A \o B
      BY <1>5, <2>2, <3>1, <3>2 DEF FreeTable, Cellvars, Freevars, Names
    <3>6. FreeNames(nodes, i) = S \o T
      BY <1>5, <2>0, <2>2, <3>3, <3>4 DEF FreeNames, Part
    <3>7. /\ A \in Seq(Nat) /\ B \in Seq(Nat) /\ S \in Seq(Seq(Nat)) /\ T \in Seq(Seq(Nat))
          /\ S = TextsIn(A) /\ T = TextsIn(B)
      BY <1>3, <2>1, <3>1, <3>2, <3>3, <3>4
    <3>8. PICK AB : AB = A \o B
      OBVIOUS
    <3>9. PICK ST : ST = S \o T
      OBVIOUS
    <3>10. BothTexts(A, B, S, T, AB, ST)
      BY <3>7, <3>8, <3>9 DEF BothTexts
    <3>11. TextsIn(AB) = ST
      BY <3>10, TextsTogether
    <3> QED
      BY <3>5, <3>6, <3>8, <3>9, <3>11
  <2> QED
    BY <2>3, <2>4
<1> QED
  BY <1>4, <1>5

(* The invariant says so of every code object that was written.            *)
LEMMA InStepNames == InStep => NamesInPlace
<1> SUFFICES ASSUME InStep, status = "returned", written # "never",
                    NEW p \in Read, nodes[p[1]].kind = "code"
             PROVE  /\ TextsIn(FastTable(heap, p[2])) = FastNames(nodes, p[1])
                    /\ TextsIn(FreeTable(heap, p[2])) = FreeNames(nodes, p[1])
  BY DEF NamesInPlace
<1>1. Typed /\ Frozen /\ Restored
  BY DEF InStep, Faithful
<1>2. IsGraph(nodes, new_layout)
  BY <1>1, FrozenFacts DEF Typed
<1>3. new_layout => VariablesLaidOut(nodes)
  <2>1. CASE new_layout
    <3>1. new_layout = TRUE
      BY <1>1, <2>1 DEF Typed
    <3> QED
      BY <1>1, <3>1, LayoutAssumption DEF Frozen
  <2> QED
    BY <2>1
<1>4. PICK what : HeapFits(nodes, heap, what) /\ what[result] = Root(nodes)
  BY <1>1 DEF Restored
<1>5. PICK o \in 1 .. Len(heap) : what[o] \in DOMAIN nodes /\ p = <<what[o], o>>
  BY <1>1, <1>2, <1>4, ReachedMirrors DEF Typed
<1>6. p[1] = what[o] /\ p[2] = o
  BY <1>5
<1> QED
  BY <1>1, <1>2, <1>3, <1>4, <1>5, <1>6, TablesKept

(* Of every code object that a writer made, the argument of LOAD_FAST or of *)
(* LOAD_DEREF finds the name that the compiler counted, in the tables that  *)
(* _Resolver puts together from co_varnames, co_cellvars and co_freevars:   *)
(* for both layouts, any number of variables, and cells that are arguments. *)
THEOREM NamesArePutBack == TripSpec => []NamesInPlace
BY AlwaysInStep, InStepNames, PTL
=============================================================================
