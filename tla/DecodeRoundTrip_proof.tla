------------------------ MODULE DecodeRoundTrip_proof ------------------------
(***************************************************************************)
(* Proofs about the reader of a code object on what the assembler wrote     *)
(* (DecodeRoundTrip.tla): parse_exception_table(), for any table of         *)
(* handlers, whole or cut short.                                            *)
(***************************************************************************)
EXTENDS DecodeRoundTrip, Induction, SequenceTheorems

-----------------------------------------------------------------------------
(* Numbers in chunks: what High() of Assembler.tla makes of a number.       *)

(* A number is its quotient and its rest.                                   *)
LEMMA Division ==
    ASSUME NEW a \in Nat
    PROVE  /\ a \div CHUNK \in Nat /\ a % CHUNK \in Nat
           /\ (a \div CHUNK) * CHUNK + (a % CHUNK) = a
           /\ a > 0 => a \div CHUNK < a
<1>1. CHUNK \in Nat /\ CHUNK > 1
  BY ChunkAssumption
<1>2. a \div CHUNK \in Nat /\ a % CHUNK \in Nat
  BY <1>1
<1>3. (a \div CHUNK) * CHUNK + (a % CHUNK) = a
  BY <1>1
<1>4. a > 0 => a \div CHUNK < a
  BY <1>1
<1> QED
  BY <1>2, <1>3, <1>4

(* What a number is shifted is found by dividing once more.                 *)
LEMMA ShiftedFacts ==
    ASSUME NEW n \in Nat
    PROVE  /\ Shifted(n, 0) = n
           /\ \A k \in Nat : Shifted(n, k) \in Nat /\ Shifted(n, k + 1) = Shifted(n, k) \div CHUNK
<1> DEFINE F == [v \in Nat |-> v \div CHUNK]
           Step(f) == [k \in Nat |-> IF k = 0 THEN n ELSE f[k - 1] \div CHUNK]
           U == CHOOSE f : f = Step(f)
<1>1. F \in [Nat -> Nat]
  BY Division
<1>2. PICK g \in [Nat -> Nat] : g[0] = n /\ \A k \in Nat : g[k + 1] = F[g[k]]
  <2> DEFINE G == [t \in Nat \X Nat |-> t[2] \div CHUNK]
  <2>1. KeepsIn(G, Nat)
    BY Division DEF KeepsIn
  <2> HIDE DEF G
  <2>2. PICK g \in [Nat -> Nat] : g[0] = n /\ Iterates(G, g)
    BY <2>1, IteratedAt
  <2>3. ASSUME NEW k \in Nat PROVE g[k + 1] = F[g[k]]
    <3>1. g[k] \in Nat /\ g[k + 1] = G[<<k, g[k]>>]
      BY <2>2 DEF Iterates
    <3>2. <<k, g[k]>> \in Nat \X Nat
      BY <3>1
    <3> QED
      BY <3>1, <3>2 DEF G
  <2> QED
    BY <2>2, <2>3
<1>3. g = Step(g)
  <2> SUFFICES ASSUME NEW k \in Nat PROVE g[k] = IF k = 0 THEN n ELSE g[k - 1] \div CHUNK
    OBVIOUS
  <2>1. CASE k = 0
    BY <1>2, <2>1
  <2>2. CASE k # 0
    <3>1. k - 1 \in Nat /\ (k - 1) + 1 = k
      BY <2>2
    <3>2. g[k] = F[g[k - 1]] /\ g[k - 1] \in Nat
      <4> HIDE DEF F
      <4> QED
        BY <1>2, <3>1
    <3> QED
      BY <2>2, <3>2
  <2> QED
    BY <2>1, <2>2
<1>4. U = Step(U)
  <2> HIDE DEF Step
  <2> QED
    BY <1>3
<1>5. \A k : Shifted(n, k) = U[k]
  BY DEF Shifted
<1> HIDE DEF U
<1>6. U[0] = n /\ \A k \in Nat : U[k + 1] = U[k] \div CHUNK
  <2>1. \A k \in Nat : U[k] = IF k = 0 THEN n ELSE U[k - 1] \div CHUNK
    BY <1>4
  <2>2. \A k \in Nat : k + 1 \in Nat /\ k + 1 # 0 /\ (k + 1) - 1 = k
    OBVIOUS
  <2> QED
    BY <2>1, <2>2
<1>7. \A k \in Nat : U[k] \in Nat
  <2> DEFINE P == {k \in Nat : U[k] \in Nat}
  <2>1. 0 \in P
    BY <1>6
  <2>2. ASSUME NEW k \in P PROVE k + 1 \in P
    <3>1. k \in Nat /\ k + 1 \in Nat /\ U[k] \in Nat /\ U[k + 1] = U[k] \div CHUNK
      BY <1>6
    <3>2. U[k] \div CHUNK \in Nat
      BY <3>1, Division
    <3> QED
      BY <3>1, <3>2
  <2>3. P = Nat
    <3>1. P \subseteq Nat
      OBVIOUS
    <3> HIDE DEF P
    <3> QED
      BY <2>1, <2>2, <3>1, Inductive
  <2> QED
    BY <2>3
<1> QED
  BY <1>5, <1>6, <1>7

(* A number has at least one chunk, and nothing is left after the last.     *)
LEMMA LengthFacts ==
    ASSUME NEW n \in Nat
    PROVE  /\ Length(n) \in Nat /\ Length(n) >= 1
           /\ Shifted(n, Length(n)) = 0
<1>1. \A k \in Nat : Shifted(n, k) = 0 \/ Shifted(n, k) + k <= n
  <2> DEFINE P == {k \in Nat : Shifted(n, k) = 0 \/ Shifted(n, k) + k <= n}
  <2>1. 0 \in P
    BY ShiftedFacts
  <2>2. ASSUME NEW k \in P PROVE k + 1 \in P
    <3>1. PICK s \in Nat : s = Shifted(n, k)
      BY ShiftedFacts
    <3>2. PICK t \in Nat : t = Shifted(n, k + 1)
      BY ShiftedFacts
    <3>3. k \in Nat /\ k + 1 \in Nat /\ (s = 0 \/ s + k <= n)
      BY <3>1
    <3>4. t = s \div CHUNK
      BY <3>1, <3>2, <3>3, ShiftedFacts
    <3>5. s > 0 => t < s
      BY <3>4, Division
    <3>6. s = 0 => t = 0
      BY <3>4, ChunkAssumption
    <3>7. t = 0 \/ t + (k + 1) <= n
      <4> HIDE DEF P
      <4> QED
        BY <3>3, <3>5, <3>6
    <3> QED
      BY <3>2, <3>3, <3>7
  <2>3. P = Nat
    <3>1. P \subseteq Nat
      OBVIOUS
    <3> HIDE DEF P
    <3> QED
      BY <2>1, <2>2, <3>1, Inductive
  <2> QED
    BY <2>3
<1> DEFINE S == {m \in 1 .. n + 1 : Shifted(n, m) = 0}
<1>2. n + 1 \in S
  <2>1. Shifted(n, n + 1) \in Nat /\ n + 1 \in Nat
    BY ShiftedFacts
  <2>2. Shifted(n, n + 1) = 0
    BY <1>1, <2>1
  <2> QED
    BY <2>2
<1>3. PICK m \in S : \A k \in S : m <= k
  <2>1. S \subseteq Nat /\ S # {}
    BY <1>2
  <2> HIDE DEF S
  <2> QED
    BY <2>1, Least
<1>4. m \in 1 .. n + 1 /\ Shifted(n, m) = 0 /\ \A j \in 1 .. m - 1 : Shifted(n, j) # 0
  BY <1>3
<1>5. Length(n) \in 1 .. n + 1 /\ Shifted(n, Length(n)) = 0
  BY <1>4 DEF Length
<1> QED
  BY <1>5

(* The chunks of a number.                                                  *)
Chunk == [more : BOOLEAN, bits : Nat]

(* High() makes chunks, of which the last alone says that none follows.     *)
LEMMA HighFacts ==
    ASSUME NEW n \in Nat
    PROVE  /\ High(n) \in Seq(Chunk) /\ Len(High(n)) = Length(n)
           /\ \A k \in 1 .. Length(n) : /\ High(n)[k].more <=> k < Length(n)
                                        /\ High(n)[k].bits = Shifted(n, Length(n) - k) % CHUNK
<1>1. PICK m \in Nat : m = Length(n)
  BY LengthFacts
<1>2. High(n) = [k \in 1 .. m |-> [more |-> k < m, bits |-> Shifted(n, m - k) % CHUNK]]
  BY <1>1 DEF High
<1>3. ASSUME NEW k \in 1 .. m PROVE [more |-> k < m, bits |-> Shifted(n, m - k) % CHUNK] \in Chunk
  <2>1. m - k \in Nat
    OBVIOUS
  <2>2. Shifted(n, m - k) % CHUNK \in Nat
    BY <2>1, ShiftedFacts, Division
  <2> QED
    BY <2>2 DEF Chunk
<1>4. High(n) \in [1 .. m -> Chunk]
  BY <1>2, <1>3
<1>5. High(n) \in Seq(Chunk) /\ Len(High(n)) = m
  <2> DEFINE h == High(n)
  <2>1. h \in [1 .. m -> Chunk]
    BY <1>4
  <2> HIDE DEF h
  <2>2. h \in Seq(Chunk) /\ Len(h) = m
    BY <2>1
  <2> QED
    BY <2>2 DEF h
<1>6. \A k \in 1 .. m : /\ High(n)[k].more <=> k < m
                        /\ High(n)[k].bits = Shifted(n, m - k) % CHUNK
  <2> SUFFICES ASSUME NEW k \in 1 .. m
               PROVE  (High(n)[k].more <=> k < m) /\ High(n)[k].bits = Shifted(n, m - k) % CHUNK
    OBVIOUS
  <2>1. High(n)[k] = [more |-> k < m, bits |-> Shifted(n, m - k) % CHUNK]
    BY <1>2, Zenon
  <2>2. High(n)[k].more <=> k < m
    <3>1. PICK c : c = (k < m)
      OBVIOUS
    <3>2. High(n)[k] = [more |-> c, bits |-> Shifted(n, m - k) % CHUNK]
      BY <2>1, <3>1, Zenon
    <3>3. High(n)[k].more = c
      BY <3>2
    <3> QED
      BY <3>1, <3>3, Zenon
  <2>3. High(n)[k].bits = Shifted(n, m - k) % CHUNK
    BY <2>1
  <2> QED
    BY <2>2, <2>3
<1> QED
  BY <1>1, <1>5, <1>6

-----------------------------------------------------------------------------
(* A number read back: LastChunk() finds where it ends, or that it is cut   *)
(* off, and Downwards() what it is.                                         *)

(* The chunks of x come after the first p of a table, as far as it goes.     *)
Placed(b, p, x) == \A k \in 1 .. Length(x) : p + k <= Len(b) => b[p + k] = High(x)[k]

(* A number that is whole is found, and read.                               *)
LEMMA NumberFound ==
    ASSUME NEW b, Len(b) \in Nat, NEW p \in Nat, NEW x \in Nat, Placed(b, p, x), p + Length(x) <= Len(b)
    PROVE  LastChunk(b, p + 1) = p + Length(x)
<1>1. PICK m \in Nat : m = Length(x) /\ m >= 1
  BY LengthFacts
<1>2. \A k \in 1 .. m : b[p + k].more <=> k < m
  <2> SUFFICES ASSUME NEW k \in 1 .. m PROVE b[p + k].more <=> k < m
    OBVIOUS
  <2>1. p + k <= Len(b)
    BY <1>1
  <2>2. b[p + k] = High(x)[k]
    BY <1>1, <2>1 DEF Placed
  <2> QED
    BY <1>1, <2>2, HighFacts
<1>3. ~b[p + m].more
  BY <1>1, <1>2
<1>4. \A k \in p + 1 .. p + m - 1 : b[k].more
  <2> SUFFICES ASSUME NEW k \in p + 1 .. p + m - 1 PROVE b[k].more
    OBVIOUS
  <2>1. PICK l \in 1 .. m : l = k - p /\ l < m
    BY <1>1
  <2>2. p + l = k
    BY <2>1
  <2> QED
    BY <1>2, <2>1, <2>2
<1> DEFINE ends(j) == ~b[j].more /\ \A k \in p + 1 .. j - 1 : b[k].more
<1>5. p + m \in p + 1 .. Len(b) /\ ends(p + m)
  BY <1>1, <1>3, <1>4
<1>6. \A j \in p + 1 .. Len(b) : ends(j) => j = p + m
  <2> SUFFICES ASSUME NEW j \in p + 1 .. Len(b), ends(j), j # p + m PROVE FALSE
    OBVIOUS
  <2>1. CASE j < p + m
    <3>1. j \in p + 1 .. p + m - 1
      BY <1>1, <2>1
    <3> QED
      BY <1>4, <3>1
  <2>2. CASE j > p + m
    <3>1. p + m \in p + 1 .. j - 1
      BY <1>1, <2>2
    <3> QED
      BY <1>3, <3>1
  <2> QED
    BY <1>1, <2>1, <2>2
<1>7. \E j \in p + 1 .. Len(b) : ~b[j].more
  BY <1>5
<1>8. LastChunk(b, p + 1) = CHOOSE j \in p + 1 .. Len(b) : ends(j)
  BY <1>7 DEF LastChunk
<1> HIDE DEF ends
<1>9. (CHOOSE j \in p + 1 .. Len(b) : ends(j)) = p + m
  BY <1>5, <1>6
<1> QED
  BY <1>1, <1>8, <1>9

(* Where the table ends inside a number, its last chunk is not found.       *)
LEMMA NumberCut ==
    ASSUME NEW b, Len(b) \in Nat, NEW p \in Nat, NEW x \in Nat, Placed(b, p, x), p + Length(x) > Len(b)
    PROVE  LastChunk(b, p + 1) = 0
<1>1. PICK m \in Nat : m = Length(x) /\ m >= 1
  BY LengthFacts
<1>2. \A j \in p + 1 .. Len(b) : b[j].more
  <2> SUFFICES ASSUME NEW j \in p + 1 .. Len(b) PROVE b[j].more
    OBVIOUS
  <2>1. PICK k \in 1 .. m : k = j - p /\ k < m
    BY <1>1
  <2>2. p + k = j
    BY <2>1
  <2>3. b[j] = High(x)[k]
    BY <1>1, <2>2 DEF Placed
  <2> QED
    BY <1>1, <2>1, <2>3, HighFacts
<1>3. ~ \E j \in p + 1 .. Len(b) : ~b[j].more
  BY <1>2
<1> QED
  BY <1>3 DEF LastChunk

(* Put together, the chunks of a number are the number.                     *)
LEMMA NumberRead ==
    ASSUME NEW b, Len(b) \in Nat, NEW p \in Nat, NEW x \in Nat, Placed(b, p, x), p + Length(x) <= Len(b)
    PROVE  Downwards(b, p + 1, p + Length(x)) = x
<1>1. PICK m \in Nat : m = Length(x) /\ m >= 1
  BY LengthFacts
<1> DEFINE i == p + 1
           j == p + m
           Step(f) == [k \in i - 1 .. j |-> IF k < i THEN 0 ELSE f[k - 1] * CHUNK + b[k].bits]
           U == CHOOSE f : f = Step(f)
           g == [k \in i - 1 .. j |-> Shifted(x, m - (k - p))]
<1>2. ASSUME NEW k \in 1 .. m
      PROVE  /\ Shifted(x, m - k) \in Nat
             /\ Shifted(x, m - (k - 1)) * CHUNK + b[p + k].bits = Shifted(x, m - k)
  <2>1. m - k \in Nat /\ m - (k - 1) = (m - k) + 1
    OBVIOUS
  <2>2. PICK s \in Nat : s = Shifted(x, m - k)
    BY <2>1, ShiftedFacts
  <2>3. Shifted(x, m - (k - 1)) = s \div CHUNK
    BY <2>1, <2>2, ShiftedFacts
  <2>4. b[p + k].bits = s % CHUNK
    <3>1. p + k <= Len(b)
      BY <1>1
    <3>2. b[p + k] = High(x)[k]
      BY <1>1, <3>1 DEF Placed
    <3> QED
      BY <1>1, <2>2, <3>2, HighFacts
  <2>5. (s \div CHUNK) * CHUNK + (s % CHUNK) = s
    BY Division
  <2> QED
    BY <2>2, <2>3, <2>4, <2>5
<1>3. Shifted(x, m) = 0 /\ Shifted(x, 0) = x
  BY <1>1, LengthFacts, ShiftedFacts
<1>4. g = Step(g)
  <2> SUFFICES ASSUME NEW k \in i - 1 .. j
               PROVE  g[k] = IF k < i THEN 0 ELSE g[k - 1] * CHUNK + b[k].bits
    OBVIOUS
  <2>1. CASE k < i
    <3>1. k = p
      BY <2>1
    <3>2. m - (k - p) = m
      BY <3>1
    <3> QED
      BY <1>3, <2>1, <3>2
  <2>2. CASE ~(k < i)
    <3>1. PICK l \in 1 .. m : l = k - p
      BY <2>2
    <3>2. p + l = k /\ k - 1 \in i - 1 .. j /\ (k - 1) - p = l - 1
      BY <2>2, <3>1
    <3>3. g[k] = Shifted(x, m - l) /\ g[k - 1] = Shifted(x, m - (l - 1))
      BY <3>1, <3>2
    <3> HIDE DEF g, i, j
    <3> QED
      BY <1>2, <2>2, <3>2, <3>3
  <2> QED
    BY <2>1, <2>2
<1>5. U = Step(U)
  <2> HIDE DEF Step, g
  <2> QED
    BY <1>4
<1>6. Downwards(b, i, j) = U[j]
  BY DEF Downwards
<1> HIDE DEF U
<1>7. U[p] = 0 /\ \A k \in 1 .. m : U[p + k] = U[p + (k - 1)] * CHUNK + b[p + k].bits
  <2>1. \A k \in i - 1 .. j : U[k] = IF k < i THEN 0 ELSE U[k - 1] * CHUNK + b[k].bits
    BY <1>5
  <2>2. p \in i - 1 .. j /\ p < i
    OBVIOUS
  <2>3. \A k \in 1 .. m : p + k \in i - 1 .. j /\ ~(p + k < i) /\ (p + k) - 1 = p + (k - 1)
    OBVIOUS
  <2> HIDE DEF i, j
  <2> QED
    BY <2>1, <2>2, <2>3
<1> DEFINE P == {k \in Nat : k <= m => U[p + k] = Shifted(x, m - k)}
<1>8. 0 \in P
  <2>1. p + 0 = p /\ m - 0 = m
    OBVIOUS
  <2> QED
    BY <1>3, <1>7, <2>1
<1>9. ASSUME NEW k \in P PROVE k + 1 \in P
  <2> SUFFICES ASSUME k + 1 <= m PROVE U[p + (k + 1)] = Shifted(x, m - (k + 1))
    OBVIOUS
  <2>1. k \in Nat /\ k + 1 \in 1 .. m /\ (k + 1) - 1 = k /\ k <= m /\ U[p + k] = Shifted(x, m - k)
    OBVIOUS
  <2>2. U[p + (k + 1)] = U[p + k] * CHUNK + b[p + (k + 1)].bits
    BY <1>7, <2>1
  <2>3. Shifted(x, m - k) * CHUNK + b[p + (k + 1)].bits = Shifted(x, m - (k + 1))
    BY <1>2, <2>1
  <2> HIDE DEF P
  <2> QED
    BY <2>1, <2>2, <2>3
<1>10. P = Nat
  <2>1. P \subseteq Nat
    OBVIOUS
  <2> HIDE DEF P
  <2> QED
    BY <1>8, <1>9, <2>1, Inductive
<1>11. U[p + m] = x
  <2>1. m \in P
    BY <1>10
  <2>2. m - m = 0
    OBVIOUS
  <2> QED
    BY <1>3, <2>1, <2>2
<1> QED
  BY <1>1, <1>6, <1>11

-----------------------------------------------------------------------------
(* The four numbers of an entry, one after the other.                       *)

(* One sequence after another.                                              *)
IsJoin(s, t, st) == s \in Seq(Chunk) /\ t \in Seq(Chunk) /\ st = s \o t

(* The parts of what is joined are where they were put.                     *)
LEMMA Joined ==
    ASSUME NEW s, NEW t, NEW st, IsJoin(s, t, st)
    PROVE  /\ st \in Seq(Chunk) /\ Len(s) \in Nat /\ Len(t) \in Nat /\ Len(st) = Len(s) + Len(t)
           /\ \A k \in 1 .. Len(s) : st[k] = s[k]
           /\ \A k \in 1 .. Len(t) : st[Len(s) + k] = t[k]
<1> DEFINE X == Chunk
<1>1. s \in Seq(X) /\ t \in Seq(X) /\ st = s \o t
  BY DEF IsJoin
<1> HIDE DEF X
<1>2. Len(s) \in Nat /\ Len(t) \in Nat
  BY <1>1, LenProperties
<1>3. /\ st \in Seq(X) /\ Len(st) = Len(s) + Len(t)
      /\ \A i \in 1 .. Len(s) + Len(t) : st[i] = IF i <= Len(s) THEN s[i] ELSE t[i - Len(s)]
  BY <1>1, ConcatProperties
<1>4. \A k \in 1 .. Len(s) : st[k] = s[k]
  BY <1>2, <1>3
<1>5. ASSUME NEW k \in 1 .. Len(t) PROVE st[Len(s) + k] = t[k]
  <2>1. Len(s) + k \in 1 .. Len(s) + Len(t) /\ ~(Len(s) + k <= Len(s)) /\ (Len(s) + k) - Len(s) = k
    BY <1>2
  <2> QED
    BY <1>3, <2>1
<1> QED
  BY <1>2, <1>3, <1>4, <1>5 DEF X

(* The last number of an entry.                                             *)
Last4(h) == 2 * h.depth + (IF h.lasti THEN 1 ELSE 0)

(* A number stands after the first p of a table.                            *)
Stands(b, p, x) == /\ p \in Nat /\ x \in Nat /\ p + Length(x) <= Len(b)
                   /\ \A k \in 1 .. Length(x) : b[p + k] = High(x)[k]

(* A number written last stands where the sequence ended before it.         *)
LEMMA StandsAfter ==
    ASSUME NEW s, NEW x \in Nat, NEW st, IsJoin(s, High(x), st)
    PROVE  Stands(st, Len(s), x) /\ Len(st) = Len(s) + Length(x)
<1>1. /\ st \in Seq(Chunk) /\ Len(s) \in Nat /\ Len(High(x)) \in Nat /\ Len(st) = Len(s) + Len(High(x))
      /\ \A k \in 1 .. Len(High(x)) : st[Len(s) + k] = High(x)[k]
  BY Joined
<1>2. Len(High(x)) = Length(x)
  BY HighFacts
<1> QED
  BY <1>1, <1>2 DEF Stands

(* A number stands where it did when more is written,                       *)
LEMMA StillStands ==
    ASSUME NEW s, NEW t, NEW st, NEW p, NEW x, Stands(s, p, x), IsJoin(s, t, st)
    PROVE  Stands(st, p, x)
<1>1. /\ Len(s) \in Nat /\ Len(t) \in Nat /\ Len(st) = Len(s) + Len(t)
      /\ \A k \in 1 .. Len(s) : st[k] = s[k]
  BY Joined
<1>2. p \in Nat /\ x \in Nat /\ p + Length(x) <= Len(s) /\ \A k \in 1 .. Length(x) : s[p + k] = High(x)[k]
  BY DEF Stands
<1>3. Length(x) \in Nat
  BY <1>2, LengthFacts
<1>4. p + Length(x) <= Len(st)
  BY <1>1, <1>2, <1>3
<1>5. ASSUME NEW k \in 1 .. Length(x) PROVE st[p + k] = High(x)[k]
  <2>1. p + k \in 1 .. Len(s)
    BY <1>1, <1>2, <1>3
  <2> QED
    BY <1>1, <1>2, <2>1
<1> QED
  BY <1>2, <1>4, <1>5 DEF Stands

(* and further on when something is put in front.                           *)
LEMMA StandsLater ==
    ASSUME NEW s, NEW t, NEW st, NEW p, NEW x, Stands(t, p, x), IsJoin(s, t, st)
    PROVE  Stands(st, Len(s) + p, x)
<1>1. p \in Nat /\ x \in Nat /\ p + Length(x) <= Len(t) /\ \A k \in 1 .. Length(x) : t[p + k] = High(x)[k]
  BY DEF Stands
<1>2. PICK l \in Nat : l = Length(x)
  BY <1>1, LengthFacts
<1>3. PICK a \in Nat : a = Len(s)
  BY Joined
<1>4. PICK c \in Nat : c = Len(t)
  BY Joined
<1>5. Len(st) = a + c /\ \A k \in 1 .. c : st[a + k] = t[k]
  BY <1>3, <1>4, Joined
<1>6. a + p \in Nat /\ (a + p) + l <= a + c
  BY <1>1, <1>2, <1>4
<1>7. ASSUME NEW k \in 1 .. l PROVE st[(a + p) + k] = High(x)[k]
  <2>1. p + k \in 1 .. c /\ (a + p) + k = a + (p + k)
    BY <1>1, <1>2, <1>4
  <2> QED
    BY <1>1, <1>2, <1>5, <2>1
<1> QED
  BY <1>1, <1>2, <1>3, <1>5, <1>6, <1>7 DEF Stands

(* Four numbers, one after the other.                                       *)
EntryStands(b, p, h) ==
    /\ Stands(b, p, h.start)
    /\ Stands(b, p + Length(h.start), h.length)
    /\ Stands(b, p + Length(h.start) + Length(h.length), h.target)
    /\ Stands(b, p + Length(h.start) + Length(h.length) + Length(h.target), Last4(h))

(* How many chunks an entry takes.                                          *)
Width(h) == Length(h.start) + Length(h.length) + Length(h.target) + Length(Last4(h))

(* The numbers of a handler and how many chunks they take.                  *)
LEMMA HandlerFacts ==
    ASSUME NEW h \in Handler
    PROVE  /\ h.start \in Nat /\ h.length \in Nat /\ h.target \in Nat /\ Last4(h) \in Nat
           /\ h.depth \in Nat /\ h.lasti \in BOOLEAN
           /\ Length(h.start) \in Nat /\ Length(h.length) \in Nat /\ Length(h.target) \in Nat
           /\ Length(Last4(h)) \in Nat /\ Length(Last4(h)) >= 1
           /\ Width(h) \in Nat /\ Width(h) >= 1
<1>1. h.start \in Nat /\ h.length \in Nat /\ h.target \in Nat /\ h.depth \in Nat /\ h.lasti \in BOOLEAN
  BY DEF Handler
<1>2. Last4(h) \in Nat
  BY <1>1 DEF Last4
<1>3. /\ Length(h.start) \in Nat /\ Length(h.length) \in Nat /\ Length(h.target) \in Nat
      /\ Length(Last4(h)) \in Nat /\ Length(Last4(h)) >= 1
  BY <1>1, <1>2, LengthFacts
<1>4. Width(h) \in Nat /\ Width(h) >= 1
  BY <1>3 DEF Width
<1> QED
  BY <1>1, <1>2, <1>3, <1>4

(* The bytes of an entry follow what is there.                              *)
LEMMA EntryJoins ==
    ASSUME NEW h \in Handler, NEW s \in Seq(Chunk), NEW st, st = s \o HandlerBytes(h)
    PROVE  st \in Seq(Chunk) /\ Len(st) = Len(s) + Width(h) /\ EntryStands(st, Len(s), h)
           /\ HandlerBytes(h) \in Seq(Chunk)
<1> DEFINE x == h.start
           y == h.length
           z == h.target
           w == Last4(h)
<1>1. x \in Nat /\ y \in Nat /\ z \in Nat /\ w \in Nat
  BY HandlerFacts
<1>2. PICK A : A = High(x)
  OBVIOUS
<1>3. PICK B : B = High(y)
  OBVIOUS
<1>4. PICK C : C = High(z)
  OBVIOUS
<1>5. PICK D : D = High(w)
  OBVIOUS
<1>6. A \in Seq(Chunk) /\ B \in Seq(Chunk) /\ C \in Seq(Chunk) /\ D \in Seq(Chunk)
  <2> HIDE DEF x, y, z, w
  <2> QED
    BY <1>1, <1>2, <1>3, <1>4, <1>5, HighFacts
<1>7. HandlerBytes(h) = ((A \o B) \o C) \o D
  BY <1>2, <1>3, <1>4, <1>5, Zenon DEF HandlerBytes, Last4
<1>8. PICK AB : AB = A \o B
  OBVIOUS
<1>9. PICK ABC : ABC = AB \o C
  OBVIOUS
<1>10. PICK ABCD : ABCD = ABC \o D
  OBVIOUS
<1>11. ABCD = HandlerBytes(h)
  BY <1>7, <1>8, <1>9, <1>10
<1>12. IsJoin(A, B, AB)
  BY <1>6, <1>8 DEF IsJoin
<1>13. IsJoin(AB, C, ABC)
  BY <1>6, <1>9, <1>12, Joined DEF IsJoin
<1>14. IsJoin(ABC, D, ABCD)
  BY <1>6, <1>10, <1>13, Joined DEF IsJoin
<1>15. IsJoin(s, ABCD, st)
  BY <1>11, <1>14, Joined DEF IsJoin
<1> DEFINE lx == Length(x)
           ly == Length(y)
           lz == Length(z)
           lw == Length(w)
<1>16. /\ Len(A) = lx /\ Len(AB) = lx + ly /\ Len(ABC) = lx + ly + lz /\ Len(ABCD) = lx + ly + lz + lw
       /\ lx \in Nat /\ ly \in Nat /\ lz \in Nat /\ lw \in Nat
  <2>1. Len(A) = lx /\ Len(B) = ly /\ Len(C) = lz /\ Len(D) = lw
    <3> HIDE DEF x, y, z, w
    <3> QED
      BY <1>1, <1>2, <1>3, <1>4, <1>5, HighFacts
  <2>2. lx \in Nat /\ ly \in Nat /\ lz \in Nat /\ lw \in Nat
    <3> HIDE DEF x, y, z, w
    <3> QED
      BY <1>1, LengthFacts
  <2>3. Len(AB) = Len(A) + Len(B)
    BY <1>12, Joined
  <2>4. Len(ABC) = Len(AB) + Len(C)
    BY <1>13, Joined
  <2>5. Len(ABCD) = Len(ABC) + Len(D)
    BY <1>14, Joined
  <2> HIDE DEF lx, ly, lz, lw
  <2> QED
    BY <2>1, <2>2, <2>3, <2>4, <2>5
<1>17. st \in Seq(Chunk) /\ Len(s) \in Nat /\ Len(st) = Len(s) + Len(ABCD)
  <2> HIDE DEF x, y, z, w, lx, ly, lz, lw
  <2> QED
    BY <1>15, Joined
<1> HIDE DEF x, y, z, w, lx, ly, lz, lw
<1>18. Stands(ABCD, 0, x)
  <2>1. ASSUME NEW k \in 1 .. Length(x) PROVE A[0 + k] = High(x)[k]
    BY <1>2
  <2>2. Stands(A, 0, x)
    BY <1>1, <1>16, <2>1 DEF Stands, lx
  <2> QED
    BY <1>12, <1>13, <1>14, <2>2, StillStands
<1>19. Stands(ABCD, lx, y)
  <2>1. Stands(AB, Len(A), y)
    BY <1>1, <1>3, <1>12, StandsAfter
  <2> QED
    BY <1>13, <1>14, <1>16, <2>1, StillStands
<1>20. Stands(ABCD, lx + ly, z)
  <2>1. Stands(ABC, Len(AB), z)
    BY <1>1, <1>4, <1>13, StandsAfter
  <2> QED
    BY <1>14, <1>16, <2>1, StillStands
<1>21. Stands(ABCD, lx + ly + lz, w)
  <2>1. Stands(ABCD, Len(ABC), w)
    BY <1>1, <1>5, <1>14, StandsAfter
  <2> QED
    BY <1>16, <2>1
<1>22. ASSUME NEW p, NEW v, Stands(ABCD, p, v) PROVE Stands(st, Len(s) + p, v)
  BY <1>15, <1>22, StandsLater
<1>23. /\ Stands(st, Len(s), x) /\ Stands(st, Len(s) + lx, y) /\ Stands(st, Len(s) + lx + ly, z)
       /\ Stands(st, Len(s) + lx + ly + lz, w)
  <2> DEFINE l == Len(s)
  <2>1. l + 0 = l /\ l + (lx + ly) = l + lx + ly /\ l + (lx + ly + lz) = l + lx + ly + lz
    <3>1. l \in Nat
      BY <1>17
    <3> HIDE DEF l
    <3> QED
      BY <1>16, <3>1
  <2>2. Stands(st, l + 0, x) /\ Stands(st, l + lx, y) /\ Stands(st, l + (lx + ly), z) /\ Stands(st, l + (lx + ly + lz), w)
    BY <1>18, <1>19, <1>20, <1>21, <1>22
  <2> QED
    BY <2>1, <2>2
<1>24. EntryStands(st, Len(s), h)
  BY <1>23 DEF EntryStands, x, y, z, w, lx, ly, lz
<1>25. Len(st) = Len(s) + Width(h)
  <2>1. Width(h) = lx + ly + lz + lw
    BY DEF Width, x, y, z, w, lx, ly, lz, lw
  <2> QED
    BY <1>16, <1>17, <2>1
<1> QED
  BY <1>11, <1>14, <1>17, <1>24, <1>25, Joined

-----------------------------------------------------------------------------
(* The tables of the first handlers.                                        *)

(* The tables of the first handlers, of all numbers of them.                *)
TablesOf(hs, g) ==
    /\ g \in [Nat -> Seq(Chunk)] /\ g[0] = << >>
    /\ \A n \in Nat : n < Len(hs) => g[n + 1] = g[n] \o HandlerBytes(hs[n + 1])
    /\ \A n \in 0 .. Len(hs) : HandlerTable(hs, n) = g[n]

(* HandlerTable() makes such tables.                                        *)
LEMMA TablesExist ==
    ASSUME NEW hs \in Seq(Handler)
    PROVE  \E g : TablesOf(hs, g)
<1> DEFINE S == Seq(Chunk)
           F == [t \in Nat \X S |-> IF t[1] < Len(hs) THEN t[2] \o HandlerBytes(hs[t[1] + 1]) ELSE t[2]]
<1>1. Len(hs) \in Nat /\ \A n \in Nat : n < Len(hs) => hs[n + 1] \in Handler
  <2>1. Len(hs) \in Nat /\ DOMAIN hs = 1 .. Len(hs)
    BY LenProperties
  <2>2. ASSUME NEW n \in Nat, n < Len(hs) PROVE hs[n + 1] \in Handler
    <3>1. n + 1 \in 1 .. Len(hs)
      BY <2>1, <2>2
    <3> QED
      BY <3>1, ElementOfSeq
  <2> QED
    BY <2>1, <2>2
<1>2. << >> \in S
  OBVIOUS
<1>3. KeepsIn(F, S)
  <2> SUFFICES ASSUME NEW n \in Nat, NEW q \in S PROVE F[<<n, q>>] \in S
    BY DEF KeepsIn
  <2>1. n < Len(hs) => q \o HandlerBytes(hs[n + 1]) \in S
    <3> SUFFICES ASSUME n < Len(hs) PROVE q \o HandlerBytes(hs[n + 1]) \in S
      OBVIOUS
    <3>1. PICK st : st = q \o HandlerBytes(hs[n + 1])
      OBVIOUS
    <3>2. hs[n + 1] \in Handler
      BY <1>1
    <3>3. st \in Seq(Chunk)
      BY <3>1, <3>2, EntryJoins
    <3> QED
      BY <3>1, <3>3
  <2>2. F[<<n, q>>] = IF n < Len(hs) THEN q \o HandlerBytes(hs[n + 1]) ELSE q
    <3> HIDE DEF S
    <3> QED
      OBVIOUS
  <2> HIDE DEF S, F
  <2> QED
    BY <2>1, <2>2
<1>4. PICK g \in [Nat -> S] : g[0] = << >> /\ Iterates(F, g)
  <2> HIDE DEF S, F
  <2> QED
    BY <1>2, <1>3, IteratedAt
<1>5. ASSUME NEW n \in Nat, n < Len(hs) PROVE g[n + 1] = g[n] \o HandlerBytes(hs[n + 1])
  <2> HIDE DEF S
  <2>1. g[n + 1] = F[<<n, g[n]>>] /\ g[n] \in S
    BY <1>4 DEF Iterates
  <2>2. <<n, g[n]>> \in Nat \X S
    BY <2>1
  <2> QED
    BY <1>5, <2>1, <2>2
<1> HIDE DEF S, F
<1>6. ASSUME NEW n \in 0 .. Len(hs) PROVE HandlerTable(hs, n) = g[n]
  <2> DEFINE Step(f) == [k \in 0 .. n |-> IF k = 0 THEN << >> ELSE f[k - 1] \o HandlerBytes(hs[k])]
             U == CHOOSE f : f = Step(f)
             G == [k \in 0 .. n |-> g[k]]
  <2>1. G = Step(G)
    <3> SUFFICES ASSUME NEW k \in 0 .. n PROVE G[k] = IF k = 0 THEN << >> ELSE G[k - 1] \o HandlerBytes(hs[k])
      OBVIOUS
    <3>1. CASE k = 0
      BY <1>4, <3>1
    <3>2. CASE k # 0
      <4>1. k - 1 \in Nat /\ k - 1 \in 0 .. n /\ (k - 1) + 1 = k /\ k - 1 < Len(hs)
        BY <1>1, <3>2
      <4>2. g[k] = g[k - 1] \o HandlerBytes(hs[k])
        BY <1>5, <4>1
      <4> QED
        BY <3>2, <4>1, <4>2
    <3> QED
      BY <3>1, <3>2
  <2>2. U = Step(U)
    <3> HIDE DEF Step, G
    <3> QED
      BY <2>1
  <2>3. HandlerTable(hs, n) = U[n]
    BY DEF HandlerTable
  <2> HIDE DEF U, G
  <2>4. \A k \in 0 .. n : U[k] = IF k = 0 THEN << >> ELSE U[k - 1] \o HandlerBytes(hs[k])
    BY <2>2
  <2> HIDE DEF Step
  <2> DEFINE P == {k \in Nat : k <= n => U[k] = g[k]}
  <2>5. 0 \in P
    BY <1>1, <1>4, <2>4
  <2>6. ASSUME NEW k \in P PROVE k + 1 \in P
    <3> SUFFICES ASSUME k + 1 <= n PROVE U[k + 1] = g[k + 1]
      OBVIOUS
    <3>1. k \in Nat /\ k + 1 \in 0 .. n /\ k + 1 # 0 /\ (k + 1) - 1 = k /\ k < Len(hs) /\ U[k] = g[k]
      BY <1>1
    <3>2. U[k + 1] = U[k] \o HandlerBytes(hs[k + 1])
      BY <2>4, <3>1
    <3>3. g[k + 1] = g[k] \o HandlerBytes(hs[k + 1])
      BY <1>5, <3>1
    <3> QED
      BY <3>1, <3>2, <3>3
  <2>7. P = Nat
    <3>1. P \subseteq Nat
      OBVIOUS
    <3> HIDE DEF P
    <3> QED
      BY <2>5, <2>6, <3>1, Inductive
  <2>8. n \in P
    BY <1>1, <2>7
  <2> QED
    BY <2>3, <2>8
<1>7. TablesOf(hs, g)
  BY <1>4, <1>5, <1>6 DEF TablesOf, S
<1> QED
  BY <1>7

(* The table of the first handlers is the beginning of that of more.        *)
Begins(s, t) == s \in Seq(Chunk) /\ t \in Seq(Chunk) /\ Len(s) <= Len(t) /\ \A i \in 1 .. Len(s) : t[i] = s[i]

(* One handler more: its entry stands at the end.                           *)
LEMMA TableStep ==
    ASSUME NEW hs \in Seq(Handler), NEW n \in Nat, n < Len(hs)
    PROVE  /\ hs[n + 1] \in Handler
           /\ Begins(HandlerTable(hs, n), HandlerTable(hs, n + 1))
           /\ Len(HandlerTable(hs, n)) \in Nat
           /\ Len(HandlerTable(hs, n + 1)) = Len(HandlerTable(hs, n)) + Width(hs[n + 1])
           /\ EntryStands(HandlerTable(hs, n + 1), Len(HandlerTable(hs, n)), hs[n + 1])
<1>1. PICK g : TablesOf(hs, g)
  BY TablesExist
<1>2. Len(hs) \in Nat /\ DOMAIN hs = 1 .. Len(hs)
  BY LenProperties
<1>3. n \in 0 .. Len(hs) /\ n + 1 \in 0 .. Len(hs) /\ n + 1 \in 1 .. Len(hs)
  BY <1>2
<1>4. hs[n + 1] \in Handler
  BY <1>3, ElementOfSeq
<1>5. PICK s : s = HandlerTable(hs, n)
  OBVIOUS
<1>6. PICK t : t = HandlerTable(hs, n + 1)
  OBVIOUS
<1>7. s \in Seq(Chunk) /\ t = s \o HandlerBytes(hs[n + 1])
  BY <1>1, <1>3, <1>5, <1>6 DEF TablesOf
<1>8. t \in Seq(Chunk) /\ Len(t) = Len(s) + Width(hs[n + 1]) /\ EntryStands(t, Len(s), hs[n + 1])
      /\ HandlerBytes(hs[n + 1]) \in Seq(Chunk)
  BY <1>4, <1>7, EntryJoins
<1>9. IsJoin(s, HandlerBytes(hs[n + 1]), t)
  BY <1>7, <1>8 DEF IsJoin
<1>10. Len(s) \in Nat /\ \A k \in 1 .. Len(s) : t[k] = s[k]
  BY <1>9, Joined
<1>11. Width(hs[n + 1]) \in Nat
  BY <1>4, HandlerFacts
<1>12. Begins(s, t)
  BY <1>7, <1>8, <1>10, <1>11 DEF Begins
<1> QED
  BY <1>4, <1>5, <1>6, <1>8, <1>10, <1>12

(* Any number of handlers more.                                             *)
LEMMA TablesGrow ==
    ASSUME NEW hs \in Seq(Handler), NEW n \in Nat, NEW m \in Nat, n <= m, m <= Len(hs)
    PROVE  Begins(HandlerTable(hs, n), HandlerTable(hs, m))
<1>1. PICK N \in Nat : N = Len(hs)
  BY LenProperties
<1>2. \A k \in Nat : k <= N => HandlerTable(hs, k) \in Seq(Chunk)
  <2>1. PICK g : TablesOf(hs, g)
    BY TablesExist
  <2>2. \A k \in Nat : k <= N => k \in 0 .. Len(hs)
    BY <1>1
  <2> QED
    BY <2>1, <2>2 DEF TablesOf
<1> DEFINE P == {d \in Nat : n + d <= N => Begins(HandlerTable(hs, n), HandlerTable(hs, n + d))}
<1>3. 0 \in P
  <2>1. n + 0 = n /\ n <= N
    BY <1>1
  <2>2. Begins(HandlerTable(hs, n), HandlerTable(hs, n))
    <3>1. HandlerTable(hs, n) \in Seq(Chunk)
      BY <1>2, <2>1
    <3>2. Len(HandlerTable(hs, n)) \in Nat
      BY <3>1, LenProperties
    <3> QED
      BY <3>1, <3>2 DEF Begins
  <2> QED
    BY <2>1, <2>2
<1>4. ASSUME NEW d \in P PROVE d + 1 \in P
  <2> SUFFICES ASSUME n + (d + 1) <= N PROVE Begins(HandlerTable(hs, n), HandlerTable(hs, n + (d + 1)))
    OBVIOUS
  <2>1. d \in Nat /\ n + d \in Nat /\ n + d < N /\ n + (d + 1) = (n + d) + 1
    BY <1>1
  <2>2. PICK s : s = HandlerTable(hs, n)
    OBVIOUS
  <2>3. PICK t : t = HandlerTable(hs, n + d)
    OBVIOUS
  <2>4. PICK u : u = HandlerTable(hs, n + (d + 1))
    OBVIOUS
  <2>5. Begins(s, t)
    BY <2>1, <2>2, <2>3
  <2>6. Begins(t, u)
    BY <1>1, <2>1, <2>3, <2>4, TableStep
  <2>7. Len(s) \in Nat /\ Len(t) \in Nat /\ Len(u) \in Nat
    BY <2>5, <2>6, LenProperties DEF Begins
  <2>8. Begins(s, u)
    BY <2>5, <2>6, <2>7 DEF Begins
  <2> QED
    BY <2>2, <2>4, <2>8
<1>5. P = Nat
  <2>1. P \subseteq Nat
    OBVIOUS
  <2> HIDE DEF P
  <2> QED
    BY <1>3, <1>4, <2>1, Inductive
<1>6. m - n \in P /\ n + (m - n) = m
  <2>1. m - n \in Nat /\ n + (m - n) = m
    OBVIOUS
  <2> HIDE DEF P
  <2> QED
    BY <1>5, <2>1
<1>7. n + (m - n) <= N
  BY <1>1, <1>6
<1> QED
  BY <1>6, <1>7

(* The table of the first handlers is how the whole table begins.           *)
LEMMA TableBegins ==
    ASSUME NEW hs \in Seq(Handler), NEW n \in Nat, n <= Len(hs)
    PROVE  /\ Begins(HandlerTable(hs, n), HandlerTable(hs, Len(hs)))
           /\ Len(HandlerTable(hs, n)) \in Nat
<1>1. PICK m \in Nat : m = Len(hs)
  BY LenProperties
<1>2. Begins(HandlerTable(hs, n), HandlerTable(hs, m))
  BY <1>1, TablesGrow
<1>3. Len(HandlerTable(hs, n)) \in Nat
  BY <1>2, LenProperties DEF Begins
<1> QED
  BY <1>1, <1>2, <1>3

-----------------------------------------------------------------------------
(* An entry read back, whole or cut off.                                    *)

(* The numbers of an entry come next in a table, as far as it goes.         *)
EntryPlaced(b, p, h) ==
    /\ Placed(b, p, h.start)
    /\ Placed(b, p + Length(h.start), h.length)
    /\ Placed(b, p + Length(h.start) + Length(h.length), h.target)
    /\ Placed(b, p + Length(h.start) + Length(h.length) + Length(h.target), Last4(h))

(* What stands in a table is in the bytes that are left of it.              *)
LEMMA PlacedIfStands ==
    ASSUME NEW b, NEW p, NEW x, NEW t, Len(t) \in Nat, Len(b) \in Nat, Stands(t, p, x),
           \A i \in 1 .. Len(b) : i <= Len(t) => b[i] = t[i]
    PROVE  Placed(b, p, x)
<1>1. p \in Nat /\ x \in Nat /\ p + Length(x) <= Len(t) /\ \A k \in 1 .. Length(x) : t[p + k] = High(x)[k]
  BY DEF Stands
<1>2. Length(x) \in Nat
  BY <1>1, LengthFacts
<1>3. ASSUME NEW k \in 1 .. Length(x), p + k <= Len(b) PROVE b[p + k] = High(x)[k]
  <2>1. p + k \in 1 .. Len(b) /\ p + k <= Len(t)
    BY <1>1, <1>2, <1>3
  <2> QED
    BY <1>1, <2>1
<1> QED
  BY <1>3 DEF Placed

(* The bytes that are left are the first ones of the whole table.           *)
LEMMA CutFacts ==
    ASSUME NEW hs \in Seq(Handler), NEW cut \in 0 .. Len(HandlerTable(hs, Len(hs))), NEW b, b = CutTable(hs, cut)
    PROVE  /\ Len(b) \in Nat /\ Len(b) = Len(HandlerTable(hs, Len(hs))) - cut
           /\ Len(b) <= Len(HandlerTable(hs, Len(hs)))
           /\ \A i \in 1 .. Len(b) : b[i] = HandlerTable(hs, Len(hs))[i]
<1>1. PICK W : W = HandlerTable(hs, Len(hs))
  OBVIOUS
<1>2. W \in Seq(Chunk) /\ Len(W) \in Nat
  <2>1. Len(hs) \in Nat /\ Len(hs) <= Len(hs)
    BY LenProperties
  <2>2. Begins(HandlerTable(hs, Len(hs)), HandlerTable(hs, Len(hs)))
    BY <2>1, TableBegins
  <2>3. W \in Seq(Chunk)
    BY <1>1, <2>2 DEF Begins
  <2> QED
    BY <2>3, LenProperties
<1>3. PICK l \in Nat : l = Len(W) - cut /\ l <= Len(W)
  <2>1. PICK c \in Nat : c = Len(W)
    BY <1>2
  <2>2. cut \in 0 .. c
    BY <1>1, <2>1
  <2>3. c - cut \in Nat /\ c - cut <= c
    BY <2>2
  <2> QED
    BY <2>1, <2>3
<1>4. b = SubSeq(W, 1, l)
  BY <1>1, <1>3 DEF CutTable
<1>5. \A i \in 1 .. l : W[i] \in Chunk
  <2>1. \A i \in 1 .. l : i \in 1 .. Len(W)
    BY <1>2, <1>3
  <2> QED
    BY <1>2, <2>1, ElementOfSeq
<1>6. Len(b) = l /\ \A i \in 1 .. l : b[i] = W[i]
  <2>1. /\ Len(SubSeq(W, 1, l)) = IF 1 <= l THEN l - 1 + 1 ELSE 0
        /\ \A i \in 1 .. l - 1 + 1 : SubSeq(W, 1, l)[i] = W[1 + i - 1]
    BY <1>5, SubSeqProperties
  <2>2. l - 1 + 1 = l /\ \A i \in 1 .. l : 1 + i - 1 = i
    OBVIOUS
  <2> QED
    BY <1>4, <2>1, <2>2
<1> QED
  BY <1>1, <1>3, <1>6

(* After the entries of n handlers comes that of the next one.              *)
LEMMA NextPlaced ==
    ASSUME NEW hs \in Seq(Handler), NEW cut \in 0 .. Len(HandlerTable(hs, Len(hs))), NEW b, b = CutTable(hs, cut),
           NEW n \in Nat, n < Len(hs), NEW p, p = Len(HandlerTable(hs, n))
    PROVE  EntryPlaced(b, p, hs[n + 1])
<1>1. n + 1 \in Nat /\ n + 1 <= Len(hs)
  BY LenProperties
<1>2. PICK t : t = HandlerTable(hs, n + 1)
  OBVIOUS
<1>3. PICK W : W = HandlerTable(hs, Len(hs))
  OBVIOUS
<1>4. EntryStands(t, p, hs[n + 1])
  BY <1>2, TableStep
<1>5. Begins(t, W) /\ Len(t) \in Nat
  BY <1>1, <1>2, <1>3, TableBegins
<1>6. Len(b) \in Nat /\ \A i \in 1 .. Len(b) : b[i] = W[i]
  BY <1>3, CutFacts
<1>7. \A i \in 1 .. Len(b) : i <= Len(t) => b[i] = t[i]
  BY <1>5, <1>6 DEF Begins
<1> QED
  BY <1>4, <1>5, <1>6, <1>7, PlacedIfStands DEF EntryPlaced, EntryStands

(* Where the numbers of an entry end, or 0.                                 *)
IsEnds(b, p, f) ==
    f = [n \in 0 .. 4 |-> IF n = 0 THEN p
                          ELSE IF n > 1 /\ f[n - 1] = 0 THEN 0
                          ELSE LastChunk(b, f[n - 1] + 1)]

(* There are such ends, and so HandlerEntry has them.                       *)
LEMMA EndsExist ==
    ASSUME NEW b, NEW p
    PROVE  \E f : IsEnds(b, p, f)
<1>1. PICK e1 : e1 = LastChunk(b, p + 1)
  OBVIOUS
<1>2. PICK e2 : e2 = IF e1 = 0 THEN 0 ELSE LastChunk(b, e1 + 1)
  OBVIOUS
<1>3. PICK e3 : e3 = IF e2 = 0 THEN 0 ELSE LastChunk(b, e2 + 1)
  OBVIOUS
<1>4. PICK e4 : e4 = IF e3 = 0 THEN 0 ELSE LastChunk(b, e3 + 1)
  OBVIOUS
<1> DEFINE f == [n \in 0 .. 4 |-> IF n = 0 THEN p ELSE IF n = 1 THEN e1 ELSE IF n = 2 THEN e2 ELSE IF n = 3 THEN e3 ELSE e4]
<1>5. f[0] = p /\ f[1] = e1 /\ f[2] = e2 /\ f[3] = e3 /\ f[4] = e4
  OBVIOUS
<1>6. ASSUME NEW n \in 0 .. 4
      PROVE  f[n] = IF n = 0 THEN p ELSE IF n > 1 /\ f[n - 1] = 0 THEN 0 ELSE LastChunk(b, f[n - 1] + 1)
  <2>1. n \in {0, 1, 2, 3, 4}
    OBVIOUS
  <2> HIDE DEF f
  <2>2. CASE n = 0
    BY <1>5, <2>2
  <2>3. CASE n = 1
    <3>1. n - 1 = 0 /\ ~(n > 1) /\ n # 0
      BY <2>3
    <3> QED
      BY <1>1, <1>5, <2>3, <3>1
  <2>4. CASE n = 2
    <3>1. n - 1 = 1 /\ n > 1 /\ n # 0
      BY <2>4
    <3> QED
      BY <1>2, <1>5, <2>4, <3>1
  <2>5. CASE n = 3
    <3>1. n - 1 = 2 /\ n > 1 /\ n # 0
      BY <2>5
    <3> QED
      BY <1>3, <1>5, <2>5, <3>1
  <2>6. CASE n = 4
    <3>1. n - 1 = 3 /\ n > 1 /\ n # 0
      BY <2>6
    <3> QED
      BY <1>4, <1>5, <2>6, <3>1
  <2> QED
    BY <2>1, <2>2, <2>3, <2>4, <2>5, <2>6
<1>7. IsEnds(b, p, f)
  BY <1>6 DEF IsEnds
<1> QED
  BY <1>7

(* The ends, one by one.                                                    *)
LEMMA EndsAre ==
    ASSUME NEW b, NEW p, NEW f, IsEnds(b, p, f)
    PROVE  /\ f[0] = p /\ f[1] = LastChunk(b, p + 1)
           /\ f[2] = IF f[1] = 0 THEN 0 ELSE LastChunk(b, f[1] + 1)
           /\ f[3] = IF f[2] = 0 THEN 0 ELSE LastChunk(b, f[2] + 1)
           /\ f[4] = IF f[3] = 0 THEN 0 ELSE LastChunk(b, f[3] + 1)
<1>1. \A n \in 0 .. 4 : f[n] = IF n = 0 THEN p
                               ELSE IF n > 1 /\ f[n - 1] = 0 THEN 0
                               ELSE LastChunk(b, f[n - 1] + 1)
  BY DEF IsEnds
<1>2. /\ 0 \in 0 .. 4 /\ 1 \in 0 .. 4 /\ 2 \in 0 .. 4 /\ 3 \in 0 .. 4 /\ 4 \in 0 .. 4
      /\ 1 - 1 = 0 /\ 2 - 1 = 1 /\ 3 - 1 = 2 /\ 4 - 1 = 3
      /\ ~(1 > 1) /\ 2 > 1 /\ 3 > 1 /\ 4 > 1 /\ 1 # 0 /\ 2 # 0 /\ 3 # 0 /\ 4 # 0
  OBVIOUS
<1>3. f[0] = p
  BY <1>1, <1>2
<1>4. f[1] = LastChunk(b, p + 1)
  BY <1>1, <1>2, <1>3
<1> QED
  BY <1>1, <1>2, <1>3, <1>4

(* An entry that is all there is found, and its numbers are the handler's.  *)
LEMMA EntryFound ==
    ASSUME NEW b, Len(b) \in Nat, NEW p \in Nat, NEW h \in Handler, EntryPlaced(b, p, h), NEW f, IsEnds(b, p, f),
           p + Width(h) <= Len(b)
    PROVE  /\ f[4] = p + Width(h) /\ f[4] # 0
           /\ Downwards(b, f[0] + 1, f[1]) = h.start
           /\ Downwards(b, f[1] + 1, f[2]) = h.length
           /\ Downwards(b, f[2] + 1, f[3]) = h.target
           /\ Downwards(b, f[3] + 1, f[4]) = Last4(h)
<1>1. PICK x \in Nat : x = h.start
  BY HandlerFacts
<1>2. PICK y \in Nat : y = h.length
  BY HandlerFacts
<1>3. PICK z \in Nat : z = h.target
  BY HandlerFacts
<1>4. PICK w \in Nat : w = Last4(h)
  BY HandlerFacts
<1>5. PICK lx \in Nat : lx = Length(x) /\ lx >= 1
  BY LengthFacts
<1>6. PICK ly \in Nat : ly = Length(y) /\ ly >= 1
  BY LengthFacts
<1>7. PICK lz \in Nat : lz = Length(z) /\ lz >= 1
  BY LengthFacts
<1>8. PICK lw \in Nat : lw = Length(w) /\ lw >= 1
  BY LengthFacts
<1>9. /\ Placed(b, p, x) /\ Placed(b, p + lx, y) /\ Placed(b, p + lx + ly, z) /\ Placed(b, p + lx + ly + lz, w)
      /\ Width(h) = lx + ly + lz + lw
  BY <1>1, <1>2, <1>3, <1>4, <1>5, <1>6, <1>7, <1>8 DEF EntryPlaced, Width
<1>10. PICK q \in Nat : q = p + lx
  OBVIOUS
<1>11. PICK r \in Nat : r = q + ly
  OBVIOUS
<1>12. PICK s \in Nat : s = r + lz
  OBVIOUS
<1>13. PICK u \in Nat : u = s + lw
  OBVIOUS
<1>14. q # 0 /\ r # 0 /\ s # 0 /\ u # 0 /\ u = p + Width(h) /\ u <= Len(b) /\ q <= Len(b) /\ r <= Len(b) /\ s <= Len(b)
  <2>1. PICK c \in Nat : c = Len(b)
    OBVIOUS
  <2>2. p + (lx + ly + lz + lw) <= c
    BY <1>9, <2>1
  <2>3. lx >= 1 /\ ly >= 1 /\ lz >= 1 /\ lw >= 1
    BY <1>5, <1>6, <1>7, <1>8
  <2>4. /\ q # 0 /\ r # 0 /\ s # 0 /\ u # 0 /\ u = p + (lx + ly + lz + lw)
        /\ u <= c /\ q <= c /\ r <= c /\ s <= c
    BY <1>10, <1>11, <1>12, <1>13, <2>2, <2>3
  <2> QED
    BY <1>9, <2>1, <2>4
<1>15. Placed(b, q, y) /\ Placed(b, r, z) /\ Placed(b, s, w)
  BY <1>9, <1>10, <1>11, <1>12
<1>a. LastChunk(b, p + 1) = q
  <2>1. p + Length(x) = q /\ p + Length(x) <= Len(b) /\ Placed(b, p, x)
    BY <1>5, <1>9, <1>10, <1>14
  <2> QED
    BY <2>1, NumberFound
<1>b. LastChunk(b, q + 1) = r
  BY <1>6, <1>11, <1>14, <1>15, NumberFound
<1>c. LastChunk(b, r + 1) = s
  BY <1>7, <1>12, <1>14, <1>15, NumberFound, SMTT(30)
<1>d. LastChunk(b, s + 1) = u
  BY <1>8, <1>13, <1>14, <1>15, NumberFound
<1>e. /\ f[0] = p /\ f[1] = LastChunk(b, p + 1)
      /\ f[2] = IF f[1] = 0 THEN 0 ELSE LastChunk(b, f[1] + 1)
      /\ f[3] = IF f[2] = 0 THEN 0 ELSE LastChunk(b, f[2] + 1)
      /\ f[4] = IF f[3] = 0 THEN 0 ELSE LastChunk(b, f[3] + 1)
  BY EndsAre
<1>16. f[0] = p /\ f[1] = q
  BY <1>a, <1>e
<1>17. f[2] = r
  BY <1>b, <1>e, <1>14, <1>16
<1>18. f[3] = s
  BY <1>c, <1>e, <1>14, <1>17
<1>19. f[4] = u
  BY <1>d, <1>e, <1>14, <1>18
<1>20. Downwards(b, p + 1, q) = x
  BY <1>5, <1>9, <1>10, <1>14, NumberRead
<1>21. Downwards(b, q + 1, r) = y
  BY <1>6, <1>11, <1>14, <1>15, NumberRead
<1>22. Downwards(b, r + 1, s) = z
  BY <1>7, <1>12, <1>14, <1>15, NumberRead
<1>23. Downwards(b, s + 1, u) = w
  BY <1>8, <1>13, <1>14, <1>15, NumberRead
<1> QED
  BY <1>1, <1>2, <1>3, <1>4, <1>14, <1>16, <1>17, <1>18, <1>19, <1>20, <1>21, <1>22, <1>23

(* An entry that is cut off has no end.                                     *)
LEMMA EntryCut ==
    ASSUME NEW b, Len(b) \in Nat, NEW p \in Nat, NEW h \in Handler, EntryPlaced(b, p, h), NEW f, IsEnds(b, p, f),
           p + Width(h) > Len(b)
    PROVE  f[4] = 0
<1>1. PICK x \in Nat : x = h.start
  BY HandlerFacts
<1>2. PICK y \in Nat : y = h.length
  BY HandlerFacts
<1>3. PICK z \in Nat : z = h.target
  BY HandlerFacts
<1>4. PICK w \in Nat : w = Last4(h)
  BY HandlerFacts
<1>5. PICK q \in Nat : q = p + Length(x)
  BY LengthFacts
<1>6. PICK r \in Nat : r = q + Length(y)
  BY LengthFacts
<1>7. PICK s \in Nat : s = r + Length(z)
  BY LengthFacts
<1>8. PICK u \in Nat : u = s + Length(w)
  BY LengthFacts
<1>9. Placed(b, p, x) /\ Placed(b, q, y) /\ Placed(b, r, z) /\ Placed(b, s, w)
  BY <1>1, <1>2, <1>3, <1>4, <1>5, <1>6, <1>7 DEF EntryPlaced
<1>10. u > Len(b)
  <2>1. PICK lx \in Nat, ly \in Nat, lz \in Nat, lw \in Nat :
           lx = Length(x) /\ ly = Length(y) /\ lz = Length(z) /\ lw = Length(w)
    BY LengthFacts
  <2>2. PICK c \in Nat : c = Len(b)
    OBVIOUS
  <2>3. Width(h) = lx + ly + lz + lw
    BY <1>1, <1>2, <1>3, <1>4, <2>1 DEF Width
  <2>4. p + (lx + ly + lz + lw) > c
    BY <2>2, <2>3
  <2>5. u = p + (lx + ly + lz + lw)
    <3>1. q = p + lx /\ r = q + ly /\ s = r + lz /\ u = s + lw
      BY <1>5, <1>6, <1>7, <1>8, <2>1
    <3> QED
      BY <3>1
  <2> QED
    BY <2>2, <2>4, <2>5
<1>11. CASE q > Len(b)
  <2>1. f[1] = 0
    BY <1>5, <1>9, <1>11, EndsAre, NumberCut
  <2> QED
    BY <2>1, EndsAre
<1>12. CASE q <= Len(b) /\ r > Len(b)
  <2>1. f[1] = q
    BY <1>5, <1>9, <1>12, EndsAre, NumberFound
  <2>2. f[2] = 0
    BY <1>6, <1>9, <1>12, <2>1, EndsAre, NumberCut
  <2> QED
    BY <2>2, EndsAre
<1>13. CASE q <= Len(b) /\ r <= Len(b) /\ s > Len(b)
  <2>1. f[1] = q
    BY <1>5, <1>9, <1>13, EndsAre, NumberFound
  <2>2. f[2] = r \/ f[2] = 0
    BY <1>6, <1>9, <1>13, <2>1, EndsAre, NumberFound
  <2>3. f[3] = 0
    BY <1>7, <1>9, <1>13, <2>2, EndsAre, NumberCut
  <2> QED
    BY <2>3, EndsAre
<1>14. CASE q <= Len(b) /\ r <= Len(b) /\ s <= Len(b)
  <2>1. f[1] = q
    BY <1>5, <1>9, <1>14, EndsAre, NumberFound
  <2>2. f[2] = r \/ f[2] = 0
    BY <1>6, <1>9, <1>14, <2>1, EndsAre, NumberFound
  <2>3. f[3] = s \/ f[3] = 0
    BY <1>7, <1>9, <1>14, <2>2, EndsAre, NumberFound
  <2> QED
    BY <1>8, <1>9, <1>10, <2>3, EndsAre, NumberCut, SMTT(30)
<1> QED
  BY <1>11, <1>12, <1>13, <1>14

-----------------------------------------------------------------------------
(* The inductive invariant.  The entries read so far are those of the first *)
(* handlers, for as many handlers as fill the bytes read so far; an error is *)
(* only raised where the next handler is cut off.                           *)

(* The entries of the handlers of a code object.                            *)
EntryOf(h) == [start |-> 2 * h.start, end |-> 2 * (h.start + h.length), target |-> 2 * h.target,
               depth |-> h.depth, lasti |-> h.lasti]

EntriesOf(c) == [j \in DOMAIN c.handlers |-> EntryOf(c.handlers[j])]

(* n entries have been read.                                                *)
Parsed(c, stage, read, found, n) ==
    /\ read = Len(HandlerTable(c.handlers, n)) /\ read <= Len(c.handler_table)
    /\ found = SubSeq(EntriesOf(c), 1, n)
    /\ stage = "done" => read = Len(c.handler_table)
    /\ stage = "ValueError" => /\ n < Len(c.handlers) /\ read < Len(c.handler_table)
                               /\ Len(HandlerTable(c.handlers, n + 1)) > Len(c.handler_table)

(* What the state says of the entries, at any stage.                        *)
HandlersFit(c, stage, read, found) ==
    IF stage \in {"units", "lines"} THEN found = << >>
    ELSE /\ stage \in {"handlers", "done", "ValueError"}
         /\ \E n \in Nat : n <= Len(c.handlers) /\ Parsed(c, stage, read, found, n)

(* The inductive invariant: it says nothing of versions without the table.  *)
HandlersInv == code \in Codes /\ (version > 10 => HandlersFit(code, phase, at, entries))

(* One more entry of a sequence.                                            *)
LEMMA OneMoreEntry ==
    ASSUME NEW s, NEW n \in Nat
    PROVE  SubSeq(s, 1, n + 1) = Append(SubSeq(s, 1, n), s[n + 1])
<1> DEFINE X == {s[i] : i \in Nat}
           q == SubSeq(s, 1, n)
           r == SubSeq(s, 1, n + 1)
           a == Append(q, s[n + 1])
<1>1. \A i \in Nat : s[i] \in X
  OBVIOUS
<1> HIDE DEF X
<1>2. \A i \in 1 .. n + 1 : s[i] \in X
  BY <1>1
<1>3. q \in Seq(X) /\ Len(q) = n /\ \A i \in 1 .. n : q[i] = s[i]
  <2>1. \A i \in 1 .. n : s[i] \in X
    BY <1>1
  <2>2. /\ SubSeq(s, 1, n) \in Seq(X)
        /\ Len(SubSeq(s, 1, n)) = IF 1 <= n THEN n - 1 + 1 ELSE 0
        /\ \A i \in 1 .. n - 1 + 1 : SubSeq(s, 1, n)[i] = s[1 + i - 1]
    BY <2>1, SubSeqProperties
  <2>3. n - 1 + 1 = n /\ \A i \in 1 .. n : 1 + i - 1 = i
    OBVIOUS
  <2> QED
    BY <2>2, <2>3
<1>4. r \in Seq(X) /\ Len(r) = n + 1 /\ \A i \in 1 .. n + 1 : r[i] = s[i]
  <2>1. n + 1 \in Nat /\ 1 <= n + 1
    OBVIOUS
  <2>2. /\ SubSeq(s, 1, n + 1) \in Seq(X)
        /\ Len(SubSeq(s, 1, n + 1)) = IF 1 <= n + 1 THEN (n + 1) - 1 + 1 ELSE 0
        /\ \A i \in 1 .. (n + 1) - 1 + 1 : SubSeq(s, 1, n + 1)[i] = s[1 + i - 1]
    BY <1>2, <2>1, SubSeqProperties
  <2>3. (n + 1) - 1 + 1 = n + 1 /\ \A i \in 1 .. n + 1 : 1 + i - 1 = i
    OBVIOUS
  <2> QED
    BY <2>1, <2>2, <2>3
<1> HIDE DEF q, r
<1>5. /\ a \in Seq(X) /\ Len(a) = n + 1
      /\ \A i \in 1 .. n : a[i] = s[i]
      /\ a[n + 1] = s[n + 1]
  <2>1. s[n + 1] \in X
    BY <1>1
  <2>2. a \in Seq(X) /\ Len(a) = Len(q) + 1 /\ (\A i \in 1 .. Len(q) : a[i] = q[i]) /\ a[Len(q) + 1] = s[n + 1]
    BY <1>3, <2>1, AppendProperties
  <2> QED
    BY <1>3, <2>2
<1>6. \A i \in 1 .. n + 1 : r[i] = a[i]
  <2> HIDE DEF a
  <2> QED
    BY <1>4, <1>5
<1>7. r = a
  <2> HIDE DEF a
  <2>1. DOMAIN r = 1 .. n + 1 /\ DOMAIN a = 1 .. n + 1
    BY <1>4, <1>5, LenProperties
  <2> QED
    BY <1>4, <1>5, <1>6, <2>1, SeqEqual
<1> QED
  BY <1>7 DEF q, r

(* CodesAssumption for one code object.                                     *)
LEMMA CodeFacts ==
    ASSUME NEW c \in Codes, c.version > 10
    PROVE  /\ c.handlers \in Seq(Handler) /\ Len(c.handlers) \in Nat
           /\ c.cut \in 0 .. Len(HandlerTable(c.handlers, Len(c.handlers)))
           /\ c.handler_table = CutTable(c.handlers, c.cut) /\ Len(c.handler_table) \in Nat
<1>1. HasHandlerTable(c)
  BY CodesAssumption
<1>2. /\ c.handlers \in Seq(Handler)
      /\ c.cut \in 0 .. Len(HandlerTable(c.handlers, Len(c.handlers)))
      /\ c.handler_table = CutTable(c.handlers, c.cut)
  BY <1>1 DEF HasHandlerTable
<1>3. PICK hs : hs = c.handlers
  OBVIOUS
<1>4. PICK cut : cut = c.cut
  OBVIOUS
<1>5. PICK b : b = c.handler_table
  OBVIOUS
<1>6. hs \in Seq(Handler) /\ cut \in 0 .. Len(HandlerTable(hs, Len(hs))) /\ b = CutTable(hs, cut)
  BY <1>2, <1>3, <1>4, <1>5
<1>7. Len(b) \in Nat
  BY <1>6, CutFacts
<1>8. Len(hs) \in Nat
  BY <1>6, LenProperties
<1> QED
  BY <1>2, <1>3, <1>5, <1>7, <1>8

(* No handlers take no bytes.                                               *)
LEMMA EmptyTable ==
    ASSUME NEW hs \in Seq(Handler)
    PROVE  Len(HandlerTable(hs, 0)) = 0
<1>1. PICK g : TablesOf(hs, g)
  BY TablesExist
<1>2. 0 \in 0 .. Len(hs)
  BY LenProperties
<1>3. HandlerTable(hs, 0) = << >>
  BY <1>1, <1>2 DEF TablesOf
<1> QED
  BY <1>3

(* Before the first entry nothing has been read.                            *)
LEMMA NothingParsed ==
    ASSUME NEW c \in Codes, c.version > 10
    PROVE  HandlersFit(c, "handlers", 0, << >>)
<1>1. c.handlers \in Seq(Handler) /\ Len(c.handlers) \in Nat /\ Len(c.handler_table) \in Nat
  BY CodeFacts
<1>2. Len(HandlerTable(c.handlers, 0)) = 0
  <2>1. PICK hs \in Seq(Handler) : hs = c.handlers
    BY <1>1
  <2> QED
    BY <2>1, EmptyTable
<1>3. SubSeq(EntriesOf(c), 1, 0) = << >>
  BY SubSeqEmpty
<1>4. Parsed(c, "handlers", 0, << >>, 0)
  BY <1>1, <1>2, <1>3 DEF Parsed
<1>5. 0 <= Len(c.handlers) /\ 0 \in Nat
  BY <1>1
<1> QED
  BY <1>4, <1>5 DEF HandlersFit

-----------------------------------------------------------------------------
(* A step of the reader.                                                    *)

(* The record made of the four numbers of a handler is its entry.           *)
LEMMA EntryMade ==
    ASSUME NEW h \in Handler, NEW a, NEW l, NEW t, NEW w, a = h.start, l = h.length, t = h.target, w = Last4(h)
    PROVE  [start |-> 2 * a, end |-> 2 * a + 2 * l, target |-> 2 * t, depth |-> w \div 2, lasti |-> w % 2 = 1]
           = EntryOf(h)
<1>1. a \in Nat /\ l \in Nat /\ h.depth \in Nat /\ h.lasti \in BOOLEAN
  BY HandlerFacts
<1>2. 2 * a + 2 * l = 2 * (a + l)
  BY <1>1
<1>3. PICK d \in Nat : d = h.depth
  BY <1>1
<1>4. CASE h.lasti
  <2>1. w = 2 * d + 1
    BY <1>3, <1>4 DEF Last4
  <2>2. w \div 2 = d /\ w % 2 = 1
    BY <2>1
  <2>3. h.lasti = TRUE /\ (w % 2 = 1) = TRUE
    BY <1>1, <1>4, <2>2
  <2> QED
    BY <1>2, <1>3, <2>2, <2>3 DEF EntryOf
<1>5. CASE ~h.lasti
  <2>1. w = 2 * d
    BY <1>3, <1>5 DEF Last4
  <2>2. w \div 2 = d /\ w % 2 # 1
    BY <2>1
  <2>3. h.lasti = FALSE /\ (w % 2 = 1) = FALSE
    BY <1>1, <1>5, <2>2
  <2> QED
    BY <1>2, <1>3, <2>2, <2>3 DEF EntryOf
<1> QED
  BY <1>4, <1>5

(* What is to be read next: an entry of the handlers, or the cut one.       *)
LEMMA NextEntry ==
    ASSUME NEW c \in Codes, c.version > 10, NEW n \in Nat, n <= Len(c.handlers), NEW p, NEW found,
           Parsed(c, "handlers", p, found, n), p < Len(c.handler_table),
           NEW f, IsEnds(c.handler_table, p, f)
    PROVE  /\ n < Len(c.handlers) /\ c.handlers[n + 1] \in Handler
           /\ \/ f[4] = 0 /\ Parsed(c, "ValueError", p, found, n)
              \/ /\ f[4] # 0 /\ Parsed(c, "handlers", f[4], Append(found, EntryOf(c.handlers[n + 1])), n + 1)
                 /\ Downwards(c.handler_table, f[0] + 1, f[1]) = c.handlers[n + 1].start
                 /\ Downwards(c.handler_table, f[1] + 1, f[2]) = c.handlers[n + 1].length
                 /\ Downwards(c.handler_table, f[2] + 1, f[3]) = c.handlers[n + 1].target
                 /\ Downwards(c.handler_table, f[3] + 1, f[4]) = Last4(c.handlers[n + 1])
<1>1. PICK hs : hs = c.handlers
  OBVIOUS
<1>2. PICK cut : cut = c.cut
  OBVIOUS
<1>3. PICK b : b = c.handler_table
  OBVIOUS
<1>4. hs \in Seq(Handler) /\ cut \in 0 .. Len(HandlerTable(hs, Len(hs))) /\ b = CutTable(hs, cut)
      /\ Len(b) \in Nat /\ Len(hs) \in Nat
  BY <1>1, <1>2, <1>3, CodeFacts
<1>5. p = Len(HandlerTable(hs, n)) /\ p < Len(b) /\ found = SubSeq(EntriesOf(c), 1, n)
  BY <1>1, <1>3 DEF Parsed
<1>6. n < Len(hs)
  <2>1. Len(b) <= Len(HandlerTable(hs, Len(hs)))
    BY <1>4, CutFacts
  <2>2. PICK w : w = Len(HandlerTable(hs, Len(hs)))
    OBVIOUS
  <2>3. n = Len(hs) => p = w
    BY <1>5, <2>2
  <2>4. w \in Nat
    <3>1. Len(hs) <= Len(hs)
      BY <1>4
    <3> QED
      BY <1>4, <2>2, <3>1, TableBegins
  <2>5. p \in Nat
    BY <1>1, <1>4, <1>5, TableBegins
  <2>6. n # Len(hs)
    BY <1>4, <1>5, <2>1, <2>2, <2>3, <2>4, <2>5
  <2> QED
    BY <1>1, <1>4, <2>6
<1>7. PICK h : h = hs[n + 1]
  OBVIOUS
<1>8. h \in Handler /\ p \in Nat /\ Len(HandlerTable(hs, n + 1)) = p + Width(h)
  BY <1>4, <1>5, <1>6, <1>7, TableStep
<1>9. EntryPlaced(b, p, h)
  BY <1>4, <1>5, <1>6, <1>7, NextPlaced
<1>10. IsEnds(b, p, f)
  BY <1>3
<1>11. Width(h) \in Nat
  BY <1>8, HandlerFacts
<1>12. CASE p + Width(h) <= Len(b)
  <2>1. /\ f[4] = p + Width(h) /\ f[4] # 0
        /\ Downwards(b, f[0] + 1, f[1]) = h.start
        /\ Downwards(b, f[1] + 1, f[2]) = h.length
        /\ Downwards(b, f[2] + 1, f[3]) = h.target
        /\ Downwards(b, f[3] + 1, f[4]) = Last4(h)
    BY <1>4, <1>8, <1>9, <1>10, <1>12, EntryFound
  <2>2. EntriesOf(c)[n + 1] = EntryOf(h)
    <3>1. n + 1 \in DOMAIN hs
      BY <1>4, <1>6, LenProperties
    <3> QED
      BY <1>1, <1>7, <3>1 DEF EntriesOf
  <2>3. SubSeq(EntriesOf(c), 1, n + 1) = Append(found, EntryOf(h))
    <3>1. PICK s : s = EntriesOf(c)
      OBVIOUS
    <3>2. SubSeq(s, 1, n + 1) = Append(SubSeq(s, 1, n), s[n + 1])
      BY OneMoreEntry
    <3> QED
      BY <1>5, <2>2, <3>1, <3>2
  <2>4. f[4] = Len(HandlerTable(c.handlers, n + 1)) /\ f[4] <= Len(c.handler_table)
    BY <1>1, <1>3, <1>8, <1>12, <2>1
  <2>5. Parsed(c, "handlers", f[4], Append(found, EntryOf(h)), n + 1)
    BY <2>3, <2>4 DEF Parsed
  <2> QED
    BY <1>1, <1>3, <1>6, <1>7, <1>8, <2>1, <2>5
<1>13. CASE ~(p + Width(h) <= Len(b))
  <2>1. p + Width(h) > Len(b)
    BY <1>4, <1>8, <1>11, <1>13
  <2>2. f[4] = 0
    BY <1>4, <1>8, <1>9, <1>10, <2>1, EntryCut
  <2>3. Parsed(c, "ValueError", p, found, n)
    <3>1. Len(HandlerTable(c.handlers, n + 1)) > Len(c.handler_table) /\ n < Len(c.handlers)
      BY <1>1, <1>3, <1>6, <1>8, <2>1
    <3> QED
      BY <3>1 DEF Parsed
  <2> QED
    BY <1>1, <1>6, <1>7, <1>8, <2>2, <2>3
<1> QED
  BY <1>12, <1>13

(* The invariant holds at the start,                                        *)
LEMMA InitHandlers == Init => HandlersInv
BY DEF Init, HandlersInv, HandlersFit, version

(* and every step keeps it.                                                 *)
LEMMA HandlersStep ==
    HandlersInv /\ [Next]_vars => HandlersInv'
<1> SUFFICES ASSUME HandlersInv, [Next]_vars PROVE HandlersInv'
  OBVIOUS
<1> USE DEF version
<1>1. CASE SkipCache \/ Unpack \/ Extend39 \/ Unpack39 \/ UnitsRead
  <2>1. phase = "units" /\ code' = code /\ entries' = entries /\ phase' \in {"units", "lines"}
    BY <1>1 DEF SkipCache, Unpack, Extend39, Unpack39, UnitsRead, Reading, Keeping
  <2> QED
    BY <2>1 DEF HandlersInv, HandlersFit
<1>2. CASE LineEntry39 \/ LineEntry310 \/ LineEntry311
  <2>1. phase = "lines" /\ code' = code /\ entries' = entries /\ phase' = phase
    BY <1>2, Zenon DEF LineEntry39, LineEntry310, LineEntry311, Reading, LinesKeep
  <2> QED
    BY <2>1 DEF HandlersInv, HandlersFit
<1>3. CASE LinesRead
  <2>1. phase = "lines" /\ code' = code /\ entries' = entries /\ phase' = "handlers" /\ at' = 0
    BY <1>3 DEF LinesRead, Reading
  <2>2. code \in Codes
    BY DEF HandlersInv
  <2>3. ASSUME code.version > 10 PROVE HandlersFit(code', phase', at', entries')
    <3>1. entries = << >>
      BY <2>1, <2>3 DEF HandlersInv, HandlersFit
    <3>2. HandlersFit(code, "handlers", 0, << >>)
      BY <2>2, <2>3, NothingParsed
    <3> QED
      BY <2>1, <3>1, <3>2
  <2> QED
    BY <2>1, <2>2, <2>3 DEF HandlersInv
<1>4. CASE HandlerEntry
  <2>1. phase = "handlers" /\ code' = code /\ code.version > 10 /\ at < Len(code.handler_table)
    BY <1>4 DEF HandlerEntry, Reading, Bytes
  <2>2. PICK c \in Codes : c = code
    BY DEF HandlersInv
  <2>3. PICK p : p = at
    OBVIOUS
  <2>4. PICK found : found = entries
    OBVIOUS
  <2>5. c.version > 10 /\ p < Len(c.handler_table)
    BY <2>1, <2>2, <2>3
  <2>6. HandlersFit(c, "handlers", p, found)
    BY <2>1, <2>2, <2>3, <2>4 DEF HandlersInv
  <2>7. PICK n \in Nat : n <= Len(c.handlers) /\ Parsed(c, "handlers", p, found, n)
    BY <2>6 DEF HandlersFit
  <2> DEFINE f == CHOOSE g : IsEnds(c.handler_table, p, g)
             number(k) == Downwards(c.handler_table, f[k - 1] + 1, f[k])
             entry == [start |-> 2 * number(1), end |-> 2 * number(1) + 2 * number(2), target |-> 2 * number(3),
                       depth |-> number(4) \div 2, lasti |-> number(4) % 2 = 1]
  <2>8. IsEnds(c.handler_table, p, f)
    BY EndsExist
  <2>9. IF f[4] = 0 THEN phase' = "ValueError" /\ UNCHANGED <<at, entries>>
        ELSE entries' = Append(entries, entry) /\ at' = f[4] /\ UNCHANGED phase
    BY <1>4, <2>2, <2>3 DEF HandlerEntry, Bytes, IsEnds
  <2> HIDE DEF f
  <2>10. PICK h : h = c.handlers[n + 1]
    OBVIOUS
  <2>11. /\ n < Len(c.handlers) /\ h \in Handler
         /\ \/ f[4] = 0 /\ Parsed(c, "ValueError", p, found, n)
            \/ /\ f[4] # 0 /\ Parsed(c, "handlers", f[4], Append(found, EntryOf(h)), n + 1)
               /\ Downwards(c.handler_table, f[0] + 1, f[1]) = h.start
               /\ Downwards(c.handler_table, f[1] + 1, f[2]) = h.length
               /\ Downwards(c.handler_table, f[2] + 1, f[3]) = h.target
               /\ Downwards(c.handler_table, f[3] + 1, f[4]) = Last4(h)
    BY <2>5, <2>7, <2>8, <2>10, NextEntry
  <2>12. CASE f[4] = 0
    <3>1. phase' = "ValueError" /\ at' = p /\ entries' = found
      BY <2>3, <2>4, <2>9, <2>12
    <3>2. Parsed(c, "ValueError", p, found, n)
      BY <2>11, <2>12
    <3>3. HandlersFit(c, "ValueError", p, found)
      BY <2>7, <3>2 DEF HandlersFit
    <3> QED
      BY <2>1, <2>2, <3>1, <3>3 DEF HandlersInv
  <2>13. CASE f[4] # 0
    <3>1. phase' = "handlers" /\ at' = f[4] /\ entries' = Append(found, entry)
      BY <2>1, <2>4, <2>9, <2>13
    <3>2. number(1) = h.start /\ number(2) = h.length /\ number(3) = h.target /\ number(4) = Last4(h)
      <4>1. 1 - 1 = 0 /\ 2 - 1 = 1 /\ 3 - 1 = 2 /\ 4 - 1 = 3
        OBVIOUS
      <4> QED
        BY <2>11, <2>13, <4>1
    <3> HIDE DEF number
    <3>3. entry = EntryOf(h)
      BY <2>11, <3>2, EntryMade
    <3> HIDE DEF entry
    <3>4. Parsed(c, "handlers", f[4], entries', n + 1)
      BY <2>11, <2>13, <3>1, <3>3
    <3>5. n + 1 \in Nat /\ n + 1 <= Len(c.handlers)
      <4>1. Len(c.handlers) \in Nat
        BY <2>5, CodeFacts
      <4> QED
        BY <2>11, <4>1
    <3>6. HandlersFit(c, "handlers", f[4], entries')
      BY <3>4, <3>5 DEF HandlersFit
    <3> QED
      BY <2>1, <2>2, <3>1, <3>6 DEF HandlersInv
  <2> QED
    BY <2>12, <2>13
<1>5. CASE HandlersRead
  <2>1. phase = "handlers" /\ code' = code /\ entries' = entries /\ at' = at /\ phase' = "done"
        /\ (at = Len(code.handler_table) \/ code.version < 11)
    BY <1>5 DEF HandlersRead, Reading, Bytes
  <2>2. PICK c \in Codes : c = code
    BY DEF HandlersInv
  <2>3. PICK p : p = at
    OBVIOUS
  <2>4. PICK found : found = entries
    OBVIOUS
  <2>5. ASSUME c.version > 10 PROVE HandlersFit(c, "done", p, found)
    <3>1. HandlersFit(c, "handlers", p, found)
      BY <2>1, <2>2, <2>3, <2>4, <2>5 DEF HandlersInv
    <3>2. PICK n \in Nat : n <= Len(c.handlers) /\ Parsed(c, "handlers", p, found, n)
      BY <3>1 DEF HandlersFit
    <3>3. c.version \in 9 .. 14
      BY CodesAssumption DEF Versions
    <3>4. ~(c.version < 11)
      BY <2>5, <3>3
    <3>5. p = Len(c.handler_table)
      BY <2>1, <2>2, <2>3, <3>4
    <3>6. Parsed(c, "done", p, found, n)
      BY <3>2, <3>5 DEF Parsed
    <3> QED
      BY <3>2, <3>6 DEF HandlersFit
  <2> QED
    BY <2>1, <2>2, <2>3, <2>4, <2>5 DEF HandlersInv
<1>6. CASE UNCHANGED vars
  BY <1>6 DEF HandlersInv, HandlersFit, Parsed, vars
<1> QED
  BY <1>1, <1>2, <1>3, <1>4, <1>5, <1>6 DEF Next

-----------------------------------------------------------------------------
(* The theorem.                                                             *)

(* The most handlers whose bytes are all there.                             *)
IsMost(hs, there, n) ==
    /\ n \in 0 .. Len(hs) /\ Len(HandlerTable(hs, n)) <= there
    /\ n < Len(hs) => Len(HandlerTable(hs, n + 1)) > there

(* The greatest of a set.                                                   *)
Most(W) == CHOOSE k \in W : \A m \in W : m <= k

(* That number is the one HandlersAreTheSources chooses.                    *)
LEMMA MostIs ==
    ASSUME NEW hs \in Seq(Handler), NEW there \in Nat, NEW n, IsMost(hs, there, n), NEW W,
           W = {k \in 0 .. Len(hs) : Len(HandlerTable(hs, k)) <= there}
    PROVE  Most(W) = n
<1>1. Len(hs) \in Nat
  BY LenProperties
<1>2. n \in Nat /\ n <= Len(hs) /\ n \in W
  BY <1>1 DEF IsMost
<1>3. ASSUME NEW m \in W PROVE m <= n
  <2>1. m \in Nat /\ m <= Len(hs) /\ Len(HandlerTable(hs, m)) <= there
    BY <1>1, <1>3
  <2>2. SUFFICES ASSUME n + 1 <= m PROVE FALSE
    BY <1>2, <2>1
  <2>3. n < Len(hs) /\ n + 1 \in Nat
    BY <1>1, <1>2, <2>1, <2>2
  <2>4. Len(HandlerTable(hs, n + 1)) > there
    BY <2>3 DEF IsMost
  <2>5. PICK s : s = HandlerTable(hs, n + 1)
    OBVIOUS
  <2>6. PICK t : t = HandlerTable(hs, m)
    OBVIOUS
  <2>7. Begins(s, t)
    BY <2>1, <2>2, <2>3, <2>5, <2>6, TablesGrow
  <2>8. Len(s) \in Nat /\ Len(t) \in Nat /\ Len(s) <= Len(t)
    BY <2>7, LenProperties DEF Begins
  <2>9. Len(s) > there /\ Len(t) <= there
    BY <2>1, <2>4, <2>5, <2>6
  <2> QED
    BY <2>8, <2>9
<1>4. \A k \in W : k \in Nat
  BY <1>1
<1>5. ASSUME NEW k \in W, \A m \in W : m <= k PROVE k = n
  BY <1>2, <1>3, <1>4, <1>5
<1>6. \A m \in W : m <= n
  BY <1>3
<1>7. Most(W) \in W /\ \A m \in W : m <= Most(W)
  BY <1>2, <1>6 DEF Most
<1> QED
  BY <1>5, <1>7

(* What the invariant says at the end.                                      *)
LEMMA HandlersAsWritten == HandlersInv => HandlersAreTheSources
<1> SUFFICES ASSUME HandlersInv, Done, version > 10
             PROVE  LET whole == {n \in 0 .. Len(code.handlers) : BytesOf(n) <= BytesOf(Len(code.handlers)) - code.cut}
                        most  == CHOOSE n \in whole : \A m \in whole : m <= n
                    IN  /\ entries = SubSeq(Complete, 1, most)
                        /\ (phase = "ValueError") = (BytesOf(most) < BytesOf(Len(code.handlers)) - code.cut)
  BY DEF HandlersAreTheSources
<1>1. PICK c \in Codes : c = code
  BY DEF HandlersInv
<1>2. c.version > 10 /\ HandlersFit(c, phase, at, entries)
  BY <1>1 DEF HandlersInv, version
<1>3. PICK hs : hs = c.handlers
  OBVIOUS
<1>4. PICK cut : cut = c.cut
  OBVIOUS
<1>5. PICK b : b = c.handler_table
  OBVIOUS
<1>6. hs \in Seq(Handler) /\ cut \in 0 .. Len(HandlerTable(hs, Len(hs))) /\ b = CutTable(hs, cut) /\ Len(hs) \in Nat
  BY <1>2, <1>3, <1>4, <1>5, CodeFacts
<1>7. PICK there \in Nat : there = Len(b) /\ there = Len(HandlerTable(hs, Len(hs))) - cut
  BY <1>6, CutFacts
<1>8. PICK n \in Nat : n <= Len(hs) /\ Parsed(c, phase, at, entries, n)
  BY <1>2, <1>3 DEF HandlersFit, Done
<1>9. PICK read : read = Len(HandlerTable(hs, n))
  OBVIOUS
<1>10. read \in Nat /\ read <= there /\ entries = SubSeq(EntriesOf(c), 1, n)
  BY <1>3, <1>5, <1>6, <1>7, <1>8, <1>9, TableBegins DEF Parsed
<1>11. phase = "done" => read = there
  BY <1>3, <1>5, <1>7, <1>8, <1>9 DEF Parsed
<1>12. phase = "ValueError" => n < Len(hs) /\ read < there /\ Len(HandlerTable(hs, n + 1)) > there
  BY <1>3, <1>5, <1>7, <1>8, <1>9 DEF Parsed
<1>13. IsMost(hs, there, n)
  <2>1. n \in 0 .. Len(hs)
    BY <1>6, <1>8
  <2>2. CASE phase = "ValueError"
    BY <1>9, <1>10, <1>12, <2>1, <2>2 DEF IsMost
  <2>3. CASE phase = "done"
    <3>1. ASSUME n < Len(hs) PROVE Len(HandlerTable(hs, n + 1)) > there
      <4>1. hs[n + 1] \in Handler /\ Len(HandlerTable(hs, n + 1)) = read + Width(hs[n + 1])
        BY <1>6, <1>9, <3>1, TableStep
      <4>2. PICK w \in Nat : w = Width(hs[n + 1]) /\ w >= 1
        BY <4>1, HandlerFacts
      <4>3. read = there
        BY <1>11, <2>3
      <4>4. read + w > there
        BY <1>10, <4>2, <4>3
      <4> QED
        BY <4>1, <4>2, <4>4
    <3> QED
      BY <1>9, <1>10, <2>1, <3>1 DEF IsMost
  <2> QED
    BY <2>2, <2>3 DEF Done
<1>14. PICK W : W = {k \in 0 .. Len(hs) : Len(HandlerTable(hs, k)) <= there}
  OBVIOUS
<1>15. Most(W) = n
  BY <1>6, <1>13, <1>14, MostIs
<1>16. W = {k \in 0 .. Len(code.handlers) : BytesOf(k) <= BytesOf(Len(code.handlers)) - code.cut}
  BY <1>1, <1>3, <1>4, <1>7, <1>14 DEF BytesOf
<1>17. Complete = EntriesOf(c)
  BY <1>1 DEF Complete, EntriesOf, EntryOf
<1>18. entries = SubSeq(Complete, 1, n)
  BY <1>10, <1>17
<1>19. (phase = "ValueError") = (BytesOf(n) < BytesOf(Len(code.handlers)) - code.cut)
  <2>1. BytesOf(n) = read /\ BytesOf(Len(code.handlers)) - code.cut = there
    BY <1>1, <1>3, <1>4, <1>7, <1>9 DEF BytesOf
  <2>2. CASE phase = "ValueError"
    BY <1>12, <2>1, <2>2
  <2>3. CASE phase = "done"
    <3>1. ~(read < there)
      BY <1>10, <1>11, <2>3
    <3> QED
      BY <2>1, <2>3, <3>1
  <2> QED
    BY <2>2, <2>3 DEF Done
<1> QED
  BY <1>15, <1>16, <1>18, <1>19 DEF Most

(* parse_exception_table(): whatever handlers the compiler wrote, with      *)
(* numbers of any size, and wherever the table is cut off, the entries are  *)
(* those of the handlers whose bytes are all there, in order and with their *)
(* numbers and flag, and a table is refused exactly when it ends inside an  *)
(* entry.                                                                   *)
THEOREM HandlersAreReadBack == Spec => []HandlersAreTheSources
<1>1. Spec => []HandlersInv
  BY InitHandlers, HandlersStep, PTL DEF Spec
<1> QED
  BY <1>1, HandlersAsWritten, PTL
=============================================================================
