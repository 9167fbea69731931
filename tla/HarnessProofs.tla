---------------------------- MODULE HarnessProofs ----------------------------
(***************************************************************************)
(* Proofs about Harness, for every stream, every cut of it, every command  *)
(* line and every decoder the model lets in: its types, what pass A learns,*)
(* and what a verdict is worth.                                            *)
(***************************************************************************)
EXTENDS HarnessStreams, FiniteSetTheorems, SequenceTheorems, WellFoundedInduction, TLAPS

\* The length of a sequence written as a function.
LEMMA LengthIs ==
    ASSUME NEW m \in Nat, NEW s, s = [x \in 1..m |-> s[x]]
    PROVE  Len(s) = m
  BY SMT

\* Of some numbers one is the least.
LEMMA LeastNumber ==
    ASSUME NEW T, T \subseteq Nat, T # {}
    PROVE  \E x \in T : \A y \in T : x <= y
<1>1. \E x \in T : \A y \in T : ~(<<y, x>> \in OpToRel(<, Nat))
  BY NatLessThanWellFounded, WFMin
<1>2. PICK x \in T : \A y \in T : ~(<<y, x>> \in OpToRel(<, Nat))
  BY <1>1
<1>3. ASSUME NEW y \in T PROVE x <= y
  <2>1. <<y, x>> \in Nat \X Nat /\ <<y, x>>[1] = y /\ <<y, x>>[2] = x
    OBVIOUS
  <2>2. ~(y < x)
    BY <1>2, <2>1, Zenon DEF OpToRel
  <2>3. QED BY <2>2, SMT
<1>4. QED BY <1>3

-----------------------------------------------------------------------------
(* The stream.                                                             *)

Given == options \in Options /\ stream = options.stream

\* What HarnessConstants says of it.
LEMMA StreamShape ==
    ASSUME Given
    PROVE  /\ stream \in Stream
           /\ stream.aus # <<>>
           /\ \A n \in AuIndices : stream.aus[n].start < stream.aus[n].end
           /\ \A n \in 1..(Len(stream.aus) - 1) : stream.aus[n].end = stream.aus[n + 1].start
           /\ \A u \in 1..Len(stream.aus[Len(stream.aus)].updates) :
                  stream.aus[Len(stream.aus)].updates[u].offset < stream.tail
<1>1. options \in Option
  BY HarnessConstants, Zenon DEF Given
<1>2. options.stream \in Stream
  BY <1>1, SMT DEF Option
<1>3. QED BY <1>2, HarnessConstants, Zenon DEF Given, AuIndices

LEMMA AuCount ==
    ASSUME Given
    PROVE  Len(stream.aus) \in Nat /\ 1 <= Len(stream.aus) /\ stream.aus \in Seq(Au)
<1>1. stream.aus \in Seq(Au)
  BY StreamShape, SMT DEF Stream
<1>2. QED BY <1>1, StreamShape, SMT

LEMMA AuFields ==
    ASSUME Given, NEW n \in AuIndices
    PROVE  /\ n \in Nat /\ 1 <= n /\ n <= Len(stream.aus)
           /\ stream.aus[n] \in Au
           /\ stream.aus[n].start \in Nat /\ stream.aus[n].end \in Nat
           /\ stream.aus[n].layout \in Nat
           /\ stream.aus[n].updates \in Seq(Update)
           /\ stream.aus[n].start < stream.aus[n].end
<1>1. stream.aus[n] \in Au
  BY AuCount, SMT DEF AuIndices
<1>2. n \in Nat /\ 1 <= n /\ n <= Len(stream.aus)
  BY AuCount, SMT DEF AuIndices
<1>3. stream.aus[n].start < stream.aus[n].end
  BY StreamShape, Zenon
<1>4. QED BY <1>1, <1>2, <1>3, SMT DEF Au

LEMMA AuAdjacent ==
    ASSUME Given, NEW n \in AuIndices, n + 1 \in AuIndices
    PROVE  stream.aus[n].end = stream.aus[n + 1].start
<1>1. n \in 1..(Len(stream.aus) - 1)
  BY AuCount, SMT DEF AuIndices
<1>2. QED BY <1>1, StreamShape, Zenon

\* Access units follow each other without overlap.
LEMMA AusOrdered ==
    ASSUME Given, NEW m \in AuIndices, NEW n \in AuIndices, m < n
    PROVE  stream.aus[m].end <= stream.aus[n].start /\ stream.aus[m].start < stream.aus[n].start
<1> DEFINE T == {x \in AuIndices : m < x /\ ~(stream.aus[m].end <= stream.aus[x].start)}
<1>1. ASSUME T # {} PROVE FALSE
  <2>1. T \subseteq Nat
    BY AuFields, Zenon
  <2>2. PICK x \in T : \A y \in T : x <= y
    BY <1>1, <2>1, LeastNumber, Zenon
  <2>3. x \in AuIndices /\ m < x /\ ~(stream.aus[m].end <= stream.aus[x].start)
    BY <2>2, Zenon
  <2>4. x - 1 \in AuIndices /\ (x - 1) + 1 = x /\ m <= x - 1
    BY <2>3, AuFields, AuCount, SMT DEF AuIndices
  <2>5. stream.aus[x - 1].end = stream.aus[x].start
    BY <2>3, <2>4, AuAdjacent
  <2>6. m # x - 1
    BY <2>3, <2>5, AuFields, SMT
  <2>7. x - 1 \notin T
    BY <2>2, <2>3, AuFields, SMT
  <2>8. stream.aus[m].end <= stream.aus[x - 1].start
    <3>1. m < x - 1
      BY <2>3, <2>4, <2>6, AuFields, SMT
    <3>2. QED BY <2>4, <2>7, <3>1, Zenon
  <2>9. stream.aus[x - 1].start < stream.aus[x - 1].end
    BY <2>4, AuFields
  <2>10. QED
    <3>1. stream.aus[m].end \in Nat /\ stream.aus[x].start \in Nat
          /\ stream.aus[x - 1].start \in Nat /\ stream.aus[x - 1].end \in Nat
      BY <2>3, <2>4, AuFields, Zenon
    <3>2. QED BY <2>3, <2>5, <2>8, <2>9, <3>1, SMT
<1>2. stream.aus[m].end <= stream.aus[n].start
  BY <1>1, Zenon
<1>3. stream.aus[m].start < stream.aus[m].end /\ stream.aus[m].start \in Nat
      /\ stream.aus[m].end \in Nat /\ stream.aus[n].start \in Nat
  BY AuFields, Zenon
<1>4. QED BY <1>2, <1>3, SMT

LEMMA EndsInside ==
    ASSUME Given, NEW n \in AuIndices
    PROVE  stream.aus[n].end <= Size /\ stream.aus[n].start < Size /\ Size \in Nat /\ 0 < Size
<1> DEFINE last == Len(stream.aus)
<1>1. last \in AuIndices /\ last \in Nat /\ n \in Nat /\ n <= last
  BY AuCount, AuFields, SMT DEF AuIndices
<1>2. /\ stream.aus[n].start \in Nat /\ stream.aus[n].end \in Nat
      /\ stream.aus[last].start \in Nat /\ stream.aus[last].end \in Nat
      /\ stream.aus[n].start < stream.aus[n].end
      /\ stream.aus[last].start < stream.aus[last].end
  BY <1>1, AuFields, Zenon
<1> DEFINE a == stream.aus[n].start
           b == stream.aus[n].end
           y == stream.aus[last].start
           z == stream.aus[last].end
<1>3. CASE n = last
  <2>1. a \in Nat /\ b \in Nat /\ a < b /\ z = b
    BY <1>2, <1>3
  <2> HIDE DEF a, b, z
  <2>2. b <= z /\ a < z /\ z \in Nat /\ 0 < z
    BY <2>1, SMT
  <2>3. QED BY <2>2 DEF Size, a, b, z
<1>4. CASE n # last
  <2>1. n < last
    BY <1>1, <1>4, SMT
  <2>2. /\ b <= y /\ a < b /\ y < z
        /\ a \in Nat /\ b \in Nat /\ y \in Nat /\ z \in Nat
    BY <1>1, <1>2, <2>1, AusOrdered
  <2> HIDE DEF a, b, y, z
  <2>3. b <= z /\ a < z /\ z \in Nat /\ 0 < z
    BY <2>2, SMT
  <2>4. QED BY <2>3 DEF Size, a, b, z
<1>5. QED BY <1>3, <1>4

\* The access units from FirstFrom(byte) on are those that begin at or after it.
LEMMA FirstFromSplits ==
    ASSUME Given, NEW byte \in Nat
    PROVE  /\ FirstFrom(byte) \in 1..(Len(stream.aus) + 1)
           /\ \A n \in AuIndices : n < FirstFrom(byte) <=> stream.aus[n].start < byte
<1> DEFINE Fits(n) == /\ \A m \in 1..(n - 1) : stream.aus[m].start < byte
                      /\ n \in AuIndices => stream.aus[n].start >= byte
           T == {n \in 1..(Len(stream.aus) + 1) : n \in AuIndices => stream.aus[n].start >= byte}
<1>1. T \subseteq Nat
  BY AuCount, SMT
<1>2. Len(stream.aus) + 1 \in T
  BY AuCount, SMT DEF AuIndices
<1>3. PICK x \in T : \A y \in T : x <= y
  BY <1>1, <1>2, LeastNumber, Zenon
<1>4. x \in 1..(Len(stream.aus) + 1) /\ (x \in AuIndices => stream.aus[x].start >= byte)
  BY <1>3, Zenon
<1>5. ASSUME NEW m \in 1..(x - 1) PROVE stream.aus[m].start < byte
  <2>1. m \in AuIndices /\ m < x /\ m \in Nat /\ m \in 1..(Len(stream.aus) + 1)
    BY <1>4, AuCount, SMT DEF AuIndices
  <2>2. ~(x <= m)
    BY <1>4, <2>1, AuCount, SMT
  <2>3. ~(stream.aus[m].start >= byte)
    BY <1>3, <2>1, <2>2, Zenon
  <2>4. stream.aus[m].start \in Nat
    BY <2>1, AuFields, Zenon
  <2>5. QED BY <2>3, <2>4, SMT
<1>6. Fits(x)
  BY <1>4, <1>5
<1>7. FirstFrom(byte) \in 1..(Len(stream.aus) + 1) /\ Fits(FirstFrom(byte))
  BY <1>4, <1>6, Zenon DEF FirstFrom
<1>8. ASSUME NEW n \in AuIndices, n < FirstFrom(byte) PROVE stream.aus[n].start < byte
  <2>1. n \in 1..(FirstFrom(byte) - 1)
    BY <1>7, <1>8, AuCount, AuFields, SMT DEF AuIndices
  <2>2. QED BY <1>7, <2>1, Zenon
<1>9. ASSUME NEW n \in AuIndices, ~(n < FirstFrom(byte)) PROVE ~(stream.aus[n].start < byte)
  <2>1. FirstFrom(byte) \in AuIndices /\ FirstFrom(byte) <= n /\ FirstFrom(byte) \in Nat /\ n \in Nat
    BY <1>7, <1>9, AuCount, AuFields, SMT DEF AuIndices
  <2>2. stream.aus[FirstFrom(byte)].start >= byte
    BY <1>7, <2>1, Zenon
  <2>3. stream.aus[FirstFrom(byte)].start \in Nat /\ stream.aus[n].start \in Nat
    BY <2>1, AuFields, Zenon
  <2>4. FirstFrom(byte) < n => stream.aus[FirstFrom(byte)].start < stream.aus[n].start
    BY <2>1, AusOrdered, Zenon
  <2>5. FirstFrom(byte) = n \/ FirstFrom(byte) < n
    BY <2>1, SMT
  <2>6. QED BY <2>2, <2>3, <2>4, <2>5, SMT
<1>10. QED BY <1>7, <1>8, <1>9, Zenon

LEMMA FirstFromStart ==
    ASSUME Given
    PROVE  FirstFrom(0) = 1
<1>1. 1 \in AuIndices
  BY AuCount, SMT DEF AuIndices
<1>2. stream.aus[1].start \in Nat
  BY <1>1, AuFields, Zenon
<1>3. ~(stream.aus[1].start < 0)
  BY <1>2, SMT
<1>4. FirstFrom(0) \in 1..(Len(stream.aus) + 1) /\ ~(1 < FirstFrom(0))
  <2>1. 0 \in Nat
    BY SMT
  <2>2. QED BY <1>1, <1>3, <2>1, FirstFromSplits, Zenon
<1> DEFINE f == FirstFrom(0)
           l == Len(stream.aus)
<1>5. f \in 1..(l + 1) /\ ~(1 < f) /\ l \in Nat
  BY <1>4, AuCount, Zenon
<1>6. f = 1
  <2> HIDE DEF f, l
  <2>1. QED BY <1>5, SMT
<1>7. QED BY <1>6

-----------------------------------------------------------------------------
(* How the stream is cut.                                                  *)

\* Its packets begin where the one before ends, and each holds something.
Consecutive(s) ==
    /\ s \in Seq(Nat)
    /\ \A p \in 1..Len(s) : (IF p = 1 THEN 0 ELSE s[p - 1]) < s[p] /\ s[p] <= Size
    /\ \A p, q \in 1..Len(s) : p < q => s[p] < s[q]

Cutting == Consecutive(input) /\ (phase # "load" => Loaded = Size)

LEMMA ConsecutiveAppend ==
    ASSUME Given, NEW s, Consecutive(s), NEW x \in Nat,
           (IF s = <<>> THEN 0 ELSE s[Len(s)]) < x, x <= Size
    PROVE  Consecutive(Append(s, x))
<1>1. /\ s \in Seq(Nat) /\ Len(s) \in Nat
      /\ Append(s, x) \in Seq(Nat) /\ Len(Append(s, x)) = Len(s) + 1
      /\ \A p \in 1..Len(s) : Append(s, x)[p] = s[p] /\ s[p] \in Nat
      /\ Append(s, x)[Len(s) + 1] = x
  BY SMT DEF Consecutive
<1>2. s = <<>> <=> Len(s) = 0
  BY <1>1, SMT
<1>3. ASSUME NEW p \in 1..Len(s) PROVE s[p] < x
  <2>1. s # <<>> /\ Len(s) \in 1..Len(s) /\ (p < Len(s) \/ p = Len(s))
    BY <1>1, <1>2, <1>3, SMT
  <2>2. s[Len(s)] < x
    BY <2>1, Zenon
  <2>3. p < Len(s) => s[p] < s[Len(s)]
    BY <2>1, Zenon DEF Consecutive
  <2>4. s[p] \in Nat /\ s[Len(s)] \in Nat
    BY <1>1, <2>1, Zenon
  <2>5. QED BY <2>1, <2>2, <2>3, <2>4, SMT
<1>4. ASSUME NEW p \in 1..(Len(s) + 1)
      PROVE  /\ (IF p = 1 THEN 0 ELSE Append(s, x)[p - 1]) < Append(s, x)[p]
             /\ Append(s, x)[p] <= Size
  <2>1. CASE p \in 1..Len(s)
    <3>1. (IF p = 1 THEN 0 ELSE s[p - 1]) < s[p] /\ s[p] <= Size
      BY <2>1, Zenon DEF Consecutive
    <3>2. p # 1 => p - 1 \in 1..Len(s)
      BY <1>1, <2>1, SMT
    <3>3. p # 1 => Append(s, x)[p - 1] = s[p - 1]
      BY <1>1, <3>2, Zenon
    <3>4. Append(s, x)[p] = s[p]
      BY <1>1, <2>1, Zenon
    <3>5. QED BY <3>1, <3>3, <3>4, Zenon
  <2>2. CASE p = Len(s) + 1
    <3>1. p = 1 => s = <<>>
      BY <1>1, <1>2, <2>2, SMT
    <3>2. p # 1 => p - 1 \in 1..Len(s) /\ p - 1 = Len(s)
      BY <1>1, <2>2, SMT
    <3>3. p # 1 => Append(s, x)[p - 1] = s[p - 1] /\ s[p - 1] < x
      BY <1>1, <1>3, <3>2, Zenon
    <3>4. p = 1 => 0 < x
      BY <3>1, Zenon
    <3>5. QED BY <1>1, <2>2, <3>3, <3>4, Zenon
  <2>3. QED BY <1>1, <1>4, <2>1, <2>2, SMT
<1>5. ASSUME NEW p \in 1..(Len(s) + 1), NEW q \in 1..(Len(s) + 1), p < q
      PROVE  Append(s, x)[p] < Append(s, x)[q]
  <2>1. p \in 1..Len(s) /\ (q \in 1..Len(s) \/ q = Len(s) + 1)
    BY <1>1, <1>5, SMT
  <2>2. Append(s, x)[p] = s[p] /\ s[p] < x
    BY <1>1, <1>3, <2>1, Zenon
  <2>3. CASE q \in 1..Len(s)
    <3>1. s[p] < s[q]
      BY <1>5, <2>1, <2>3, Zenon DEF Consecutive
    <3>2. Append(s, x)[q] = s[q]
      BY <1>1, <2>3, Zenon
    <3>3. QED BY <2>2, <3>1, <3>2, Zenon
  <2>4. CASE q = Len(s) + 1
    BY <1>1, <2>2, <2>4, Zenon
  <2>5. QED BY <2>1, <2>3, <2>4
<1>6. QED BY <1>1, <1>4, <1>5, Zenon DEF Consecutive

LEMMA LoadedType ==
    ASSUME Given, Cutting
    PROVE  /\ Loaded \in Nat /\ Loaded <= Size /\ Len(input) \in Nat
           /\ input # <<>> <=> Len(input) \in Packets
           /\ phase # "load" => Len(input) \in Packets /\ input[Len(input)] = Size
<1>1. input \in Seq(Nat) /\ Len(input) \in Nat
  BY SMT DEF Cutting, Consecutive
<1>2. input # <<>> <=> Len(input) \in 1..Len(input)
  BY <1>1, SMT
<1>3. \A p \in 1..Len(input) : input[p] \in Nat /\ input[p] <= Size
  BY <1>1, SMT DEF Cutting, Consecutive
<1>4. 1 \in AuIndices
  BY AuCount, SMT DEF AuIndices
<1>5. Size \in Nat /\ 0 < Size
  BY <1>4, EndsInside, Zenon
<1>6. Loaded \in Nat /\ Loaded <= Size
  <2>1. CASE input = <<>>
    BY <1>5, <2>1, SMT DEF Loaded
  <2>2. CASE input # <<>>
    BY <1>2, <1>3, <2>2, Zenon DEF Loaded
  <2>3. QED BY <2>1, <2>2
<1>7. ASSUME phase # "load" PROVE Len(input) \in Packets /\ input[Len(input)] = Size
  <2>1. Loaded = Size
    BY <1>7, Zenon DEF Cutting
  <2>2. input # <<>>
    BY <1>5, <2>1, SMT DEF Loaded
  <2>3. QED BY <1>2, <2>1, <2>2, Zenon DEF Loaded, Packets
<1>8. QED BY <1>1, <1>2, <1>6, <1>7, Zenon DEF Packets

LEMMA PacketEnds ==
    ASSUME Given, Cutting, NEW p \in Packets
    PROVE  /\ p \in Nat /\ 1 <= p /\ p <= Len(input)
           /\ PacketStart(p) \in Nat /\ input[p] \in Nat
           /\ PacketStart(p) < input[p] /\ input[p] <= Size
<1>1. input \in Seq(Nat) /\ Len(input) \in Nat
  BY SMT DEF Cutting, Consecutive
<1>2. p \in Nat /\ 1 <= p /\ p <= Len(input) /\ (p # 1 => p - 1 \in 1..Len(input))
  BY <1>1, SMT DEF Packets
<1>3. input[p] \in Nat /\ (p # 1 => input[p - 1] \in Nat)
  BY <1>1, <1>2, SMT DEF Packets
<1>4. PacketStart(p) < input[p] /\ input[p] <= Size
  BY Zenon DEF Cutting, Consecutive, PacketStart, Packets
<1>5. QED BY <1>2, <1>3, <1>4, Zenon DEF PacketStart

LEMMA PacketsOrdered ==
    ASSUME Given, Cutting, NEW p \in Packets, NEW q \in Packets, p < q
    PROVE  input[p] <= PacketStart(q)
<1>1. p \in Nat /\ q \in Nat /\ 1 <= p /\ q <= Len(input) /\ Len(input) \in Nat
  BY PacketEnds, LoadedType, Zenon
<1>2. q # 1 /\ q - 1 \in Packets /\ (p = q - 1 \/ p < q - 1)
  BY <1>1, SMT DEF Packets
<1>3. p < q - 1 => input[p] < input[q - 1]
  BY <1>2, Zenon DEF Cutting, Consecutive, Packets
<1>4. input[p] \in Nat /\ input[q - 1] \in Nat /\ PacketStart(q) = input[q - 1]
  BY <1>2, PacketEnds, Zenon DEF PacketStart
<1>5. QED BY <1>2, <1>3, <1>4, SMT

\* Every access unit begins in a packet, and in one only.
LEMMA PacketOfIs ==
    ASSUME Given, Cutting, phase # "load", NEW n \in AuIndices
    PROVE  /\ PacketOf(n) \in Packets
           /\ PacketStart(PacketOf(n)) <= stream.aus[n].start
           /\ stream.aus[n].start < input[PacketOf(n)]
           /\ \A p \in Packets : /\ PacketStart(p) <= stream.aus[n].start
                                 /\ stream.aus[n].start < input[p]
                                 => p = PacketOf(n)
<1> DEFINE x == stream.aus[n].start
           Inside(p) == PacketStart(p) <= x /\ x < input[p]
           T == {p \in Packets : x < input[p]}
<1>1. x \in Nat /\ x < Size /\ Len(input) \in Packets /\ input[Len(input)] = Size
  BY AuFields, EndsInside, LoadedType, Zenon
<1>2. T # {} /\ T \subseteq Nat
  BY <1>1, PacketEnds, Zenon
<1>3. PICK p \in T : \A q \in T : p <= q
  BY <1>2, LeastNumber, Zenon
<1>4. p \in Packets /\ x < input[p] /\ p \in Nat /\ 1 <= p /\ p <= Len(input) /\ Len(input) \in Nat
  BY <1>3, PacketEnds, LoadedType, Zenon
<1>5. PacketStart(p) <= x
  <2>1. CASE p = 1
    BY <1>1, <2>1, SMT DEF PacketStart
  <2>2. CASE p # 1
    <3>1. p - 1 \in Packets /\ ~(p <= p - 1)
      BY <1>4, <2>2, SMT DEF Packets
    <3>2. ~(x < input[p - 1])
      BY <1>3, <3>1, Zenon
    <3>3. input[p - 1] \in Nat
      BY <3>1, PacketEnds, Zenon
    <3>4. PacketStart(p) = input[p - 1]
      BY <2>2, Zenon DEF PacketStart
    <3>5. QED BY <1>1, <3>2, <3>3, <3>4, SMT
  <2>3. QED BY <2>1, <2>2
<1>6. PacketOf(n) \in Packets /\ Inside(PacketOf(n))
  <2>1. p \in Packets /\ Inside(p)
    BY <1>4, <1>5
  <2>2. QED BY <2>1, Zenon DEF PacketOf
<1>7. ASSUME NEW q \in Packets, Inside(q), NEW r \in Packets, Inside(r) PROVE ~(q < r)
  <2>1. q < r => input[q] <= PacketStart(r)
    BY PacketsOrdered
  <2>2. input[q] \in Nat /\ PacketStart(r) \in Nat
    BY PacketEnds
  <2>3. QED BY <1>1, <1>7, <2>1, <2>2, SMT
<1>8. ASSUME NEW q \in Packets, Inside(q) PROVE q = PacketOf(n)
  <2>1. ~(q < PacketOf(n)) /\ ~(PacketOf(n) < q)
    BY <1>6, <1>7, <1>8
  <2>2. q \in Nat /\ PacketOf(n) \in Nat
    BY <1>6, PacketEnds
  <2>3. QED BY <2>1, <2>2, SMT
<1>9. QED BY <1>6, <1>8

\* A refusal in pass A ends the program and touches nothing else.
LEMMA Refused ==
    ASSUME PushRefused \/ PullFails
    PROVE  /\ phase \in {"push A", "pull A"} /\ phase' = "stopped" /\ failed' = TRUE
           /\ phase # "load" /\ phase' # "load" /\ options.faulty = "refuses"
           /\ UNCHANGED <<options, stream, input, k, dec, map, cmp, serials, updates, target,
                          ours, shown, stated>>
           /\ UNCHANGED <<i, j, unmatched, resume, resetDone, firstAfter, before, after,
                          ordinalMismatch, afterBlocks, deviated>>
<1>1. GiveUp /\ (phase = "push A" \/ phase = "pull A")
  BY Zenon DEF PushRefused, PullFails
<1>2. QED
  BY <1>1, Zenon DEF GiveUp, fixedVars, passAVars, metaVars, matchVars, passBVars

LEMMA SourceKept == Next => options' = options /\ stream' = stream
<1> SUFFICES ASSUME Next PROVE options' = options /\ stream' = stream
  OBVIOUS
<1>1. CASE \E length \in ChunkLengths : LoadChunk(length)
  BY <1>1, Zenon DEF LoadChunk
<1>2. CASE \E n \in 1..MaxAus : LoadPacket(n)
  BY <1>2, Zenon DEF LoadPacket
<1>3. CASE StartPassA \/ PushA \/ PulledDryA \/ TakeUpdate \/ UpdatesTaken \/ FinishPassA
  BY <1>3, Zenon DEF StartPassA, PushA, PulledDryA, TakeUpdate, UpdatesTaken, FinishPassA,
     fixedVars
<1>4. CASE MatchBed \/ MatchEvent \/ FinishMatch \/ NoPassB \/ StartPassB \/ PushB \/ PulledDryB
  BY <1>4, Zenon DEF MatchBed, MatchEvent, FinishMatch, NoPassB, StartPassB, PushB, PulledDryB,
     fixedVars
<1>5. CASE \E n \in AuIndices : PullA(n) \/ PullB(n)
  BY <1>5, Zenon DEF PullA, PullB, fixedVars
<1>6. CASE (\E b \in AnyBlock : PullFaultyB(b)) \/ FinishPassB
  BY <1>6, Zenon DEF PullFaultyB, FinishPassB, fixedVars
<1>7. CASE PushRefused \/ PullFails
  BY <1>7, Refused, Zenon
<1>8. QED BY <1>1, <1>2, <1>3, <1>4, <1>5, <1>6, <1>7, Zenon DEF Next

LEMMA GivenKept == Given /\ Next => Given'
  BY SourceKept, Zenon DEF Given

\* Loading comes first, and only it changes the packets.
LEMMA InputKept ==
    ASSUME Next
    PROVE  \/ \E length \in ChunkLengths : LoadChunk(length)
           \/ \E n \in 1..MaxAus : LoadPacket(n)
           \/ StartPassA
           \/ phase # "load" /\ phase' # "load" /\ input' = input
<1> DEFINE Q == phase # "load" /\ phase' # "load" /\ input' = input
<1>1. PushA \/ PulledDryA \/ TakeUpdate \/ UpdatesTaken \/ FinishPassA => Q
  BY Zenon DEF PushA, PulledDryA, TakeUpdate, UpdatesTaken, FinishPassA, fixedVars
<1>2. MatchBed \/ MatchEvent \/ FinishMatch \/ NoPassB \/ StartPassB \/ PushB \/ PulledDryB => Q
  BY Zenon DEF MatchBed, MatchEvent, FinishMatch, NoPassB, StartPassB, PushB, PulledDryB,
     fixedVars
<1>3. ASSUME NEW n \in AuIndices, PullA(n) \/ PullB(n) PROVE Q
  <2>1. PullA(n) => Q
    BY Zenon DEF PullA, fixedVars
  <2>2. PullB(n) => Q
    BY Zenon DEF PullB, Seek, fixedVars
  <2>3. QED BY <1>3, <2>1, <2>2
<1>4. (\E b \in AnyBlock : PullFaultyB(b)) \/ FinishPassB => Q
  BY Zenon DEF PullFaultyB, FinishPassB, fixedVars
<1>5. PushRefused \/ PullFails => Q
  BY Refused, Zenon
<1>6. QED BY <1>1, <1>2, <1>3, <1>4, <1>5, Zenon DEF Next

LEMMA CuttingStart == Given /\ Init => Cutting
  BY SMT DEF Init, Cutting, Consecutive

LEMMA CuttingKept ==
    ASSUME Given, Cutting, Next
    PROVE  Cutting'
<1>1. stream' = stream
  BY SourceKept
<1>2. Size' = Size
  BY <1>1, Zenon DEF Size
<1>3. ASSUME NEW x \in Nat, Loaded < x, x <= Size, input' = Append(input, x), phase' = "load"
      PROVE  Cutting'
  <2>1. Consecutive(Append(input, x))
    BY <1>3, ConsecutiveAppend, Zenon DEF Cutting, Loaded
  <2>2. Consecutive(input')
    BY <1>3, <2>1, Zenon
  <2>3. QED BY <1>2, <1>3, <2>2, SMT DEF Cutting, Consecutive
<1>4. ASSUME NEW length \in ChunkLengths, LoadChunk(length) PROVE Cutting'
  <2>1. length \in Nat /\ 0 < length
    BY HarnessConstants, SMT
  <2>2. /\ Loaded < Size /\ input' = Append(input, Cut(Loaded + length)) /\ phase' = "load"
    BY <1>4, Zenon DEF LoadChunk
  <2>3. Loaded \in Nat /\ Size \in Nat
    BY LoadedType, <2>1, <2>2, AuCount, EndsInside, SMT DEF AuIndices
  <2>4. Cut(Loaded + length) \in Nat /\ Loaded < Cut(Loaded + length)
        /\ Cut(Loaded + length) <= Size
    BY <2>1, <2>2, <2>3, SMT DEF Cut
  <2>5. QED BY <1>3, <2>2, <2>4
<1>5. ASSUME NEW n \in 1..MaxAus, LoadPacket(n) PROVE Cutting'
  <2> DEFINE last == FirstFrom(Loaded) + n - 1
  <2>1. /\ last \in AuIndices /\ input' = Append(input, stream.aus[last].end) /\ phase' = "load"
    BY <1>5, Zenon DEF LoadPacket
  <2>2. Loaded \in Nat
    BY LoadedType
  <2>3. FirstFrom(Loaded) \in 1..(Len(stream.aus) + 1)
        /\ \A m \in AuIndices : m < FirstFrom(Loaded) <=> stream.aus[m].start < Loaded
    BY <2>2, FirstFromSplits
  <2>4. ~(last < FirstFrom(Loaded))
    BY <2>3, AuCount, HarnessConstants, SMT
  <2>5. ~(stream.aus[last].start < Loaded)
    BY <2>1, <2>3, <2>4, Zenon
  <2>6. /\ stream.aus[last].start \in Nat /\ stream.aus[last].end \in Nat
        /\ stream.aus[last].start < stream.aus[last].end /\ stream.aus[last].end <= Size
    BY <2>1, AuFields, EndsInside, Zenon
  <2>7. Loaded < stream.aus[last].end
    BY <2>2, <2>5, <2>6, SMT
  <2>8. QED BY <1>3, <2>1, <2>6, <2>7
<1>6. CASE StartPassA
  <2>1. input' = input /\ Loaded >= Size
    BY <1>6, Zenon DEF StartPassA, fixedVars
  <2>2. Loaded \in Nat /\ Loaded <= Size /\ Size \in Nat
    BY LoadedType, AuCount, EndsInside, SMT DEF AuIndices
  <2>3. Loaded = Size /\ Loaded' = Loaded
    BY <2>1, <2>2, SMT DEF Loaded
  <2>4. QED BY <1>2, <2>1, <2>3, SMT DEF Cutting, Consecutive
<1>7. CASE phase # "load" /\ phase' # "load" /\ input' = input
  <2>1. Loaded' = Loaded
    BY <1>7, SMT DEF Loaded
  <2>2. QED BY <1>2, <1>7, <2>1, SMT DEF Cutting, Consecutive
<1>8. QED BY <1>4, <1>5, <1>6, <1>7, InputKept

-----------------------------------------------------------------------------
(* Where the two passes are in it.                                         *)

Decoder == [first : Nat, next : Nat, upTo : Nat, live : BOOLEAN, frames : Nat, fresh : BOOLEAN]

Place ==
    /\ k \in 0..Len(input)
    /\ dec \in Decoder
    /\ dec.upTo = IF k = 0 THEN 0 ELSE input[k]
    /\ dec.next \in 1..(Len(stream.aus) + 1)
    /\ phase = "load" => k = 0 /\ dec = FedFrom(0) /\ resume = 1
    /\ phase # "load" => resume \in Packets

LEMMA FedFromType ==
    ASSUME Given, NEW byte \in Nat
    PROVE  /\ FedFrom(byte) \in Decoder
           /\ FedFrom(byte).next \in 1..(Len(stream.aus) + 1)
           /\ FedFrom(byte).upTo = byte
<1>1. FirstFrom(byte) \in 1..(Len(stream.aus) + 1)
  BY FirstFromSplits, Zenon
<1>2. FirstFrom(byte) \in Nat
  <2> DEFINE f == FirstFrom(byte)
             l == Len(stream.aus)
  <2>1. f \in 1..(l + 1) /\ l \in Nat
    BY <1>1, AuCount, Zenon
  <2> HIDE DEF f, l
  <2>2. QED BY <2>1, SMT DEF f
<1>3. QED BY <1>1, <1>2, SMT DEF FedFrom, Decoder

LEMMA FramesType ==
    ASSUME Given, NEW n \in AuIndices
    PROVE  Frames(n) \in Nat
<1>1. stream.tail \in 1..AuFrames
  BY StreamShape, SMT DEF Stream
<1>2. stream.tail \in Nat /\ AuFrames \in Nat
  BY <1>1, SMT DEF AuFrames
<1>3. QED BY <1>2, Zenon DEF Frames

LEMMA ReadyIs ==
    ASSUME Given, Place, NEW n \in Ready
    PROVE  /\ n \in AuIndices /\ dec.next <= n /\ n \in dec.next..Len(stream.aus)
           /\ stream.aus[n].end <= dec.upTo /\ stream.aus[n].kind # "duplicate"
<1>1. n \in dec.next..Len(stream.aus) /\ stream.aus[n].end <= dec.upTo
      /\ stream.aus[n].kind # "duplicate"
  BY Zenon DEF Ready
<1>2. n \in AuIndices /\ dec.next <= n
  BY <1>1, AuCount, SMT DEF Place, AuIndices
<1>3. QED BY <1>1, <1>2

Advanced(d, n, f) == [d EXCEPT !.next = n, !.live = TRUE, !.fresh = FALSE, !.frames = f]

LEMMA AdvancedType ==
    ASSUME NEW d \in Decoder, NEW n \in Nat, NEW f \in Nat
    PROVE  /\ Advanced(d, n, f) \in Decoder
           /\ Advanced(d, n, f).next = n /\ Advanced(d, n, f).upTo = d.upTo
           /\ Advanced(d, n, f).first = d.first
           /\ Advanced(d, n, f).live = TRUE /\ Advanced(d, n, f).frames = f
<1>0. PICK a : a = [d EXCEPT !.next = n, !.live = TRUE, !.fresh = FALSE, !.frames = f]
  OBVIOUS
<1>1. a = [first |-> d.first, next |-> n, upTo |-> d.upTo, live |-> TRUE, frames |-> f,
           fresh |-> FALSE]
  BY <1>0, Zenon DEF Decoder
<1>2. d.first \in Nat /\ d.upTo \in Nat
  BY SMT DEF Decoder
<1>3. a \in Decoder
  BY <1>1, <1>2, Zenon DEF Decoder
<1>4. a.next = n /\ a.upTo = d.upTo /\ a.first = d.first /\ a.live = TRUE /\ a.frames = f
  BY <1>1, Zenon
<1>5. QED BY <1>0, <1>3, <1>4, Zenon DEF Advanced

LEMMA AfterType ==
    ASSUME Given, Place, NEW n \in Ready
    PROVE  /\ After(n) \in Decoder
           /\ After(n).next = n + 1 /\ n + 1 \in 1..(Len(stream.aus) + 1)
           /\ After(n).upTo = dec.upTo /\ After(n).first = dec.first
           /\ After(n).live = TRUE /\ After(n).frames = dec.frames + Frames(n)
<1>1. n \in AuIndices /\ n \in Nat /\ 1 <= n /\ n <= Len(stream.aus) /\ Len(stream.aus) \in Nat
  BY ReadyIs, AuFields, AuCount, Zenon
<1>2. Frames(n) \in Nat
  BY <1>1, FramesType
<1>3. dec \in Decoder
  BY Zenon DEF Place
<1>4. dec.frames + Frames(n) \in Nat
  BY <1>2, <1>3, SMT DEF Decoder
<1>5. /\ After(n) \in Decoder
      /\ After(n).next = n + 1 /\ After(n).upTo = dec.upTo /\ After(n).first = dec.first
      /\ After(n).live = TRUE /\ After(n).frames = dec.frames + Frames(n)
  <2>1. n + 1 \in Nat
    BY <1>1, SMT
  <2> DEFINE s == n + 1
             f == dec.frames + Frames(n)
  <2>2. After(n) = Advanced(dec, s, f)
    BY Zenon DEF After, Advanced
  <2>3. s \in Nat /\ f \in Nat
    BY <1>4, <2>1
  <2> HIDE DEF s, f
  <2>4. /\ After(n) \in Decoder
        /\ After(n).next = s /\ After(n).upTo = dec.upTo /\ After(n).first = dec.first
        /\ After(n).live = TRUE /\ After(n).frames = f
    <3>1. /\ Advanced(dec, s, f) \in Decoder
          /\ Advanced(dec, s, f).next = s /\ Advanced(dec, s, f).upTo = dec.upTo
          /\ Advanced(dec, s, f).first = dec.first
          /\ Advanced(dec, s, f).live = TRUE /\ Advanced(dec, s, f).frames = f
      BY <1>3, <2>3, AdvancedType
    <3>2. QED BY <2>2, <3>1, Zenon
  <2>5. QED BY <2>4 DEF s, f
<1>6. n + 1 \in 1..(Len(stream.aus) + 1)
  BY <1>1, SMT
<1>7. QED BY <1>5, <1>6

LEMMA ResumePacketType ==
    ASSUME Given, Cutting, phase # "load"
    PROVE  ResumePacket \in Packets
<1> DEFINE T == {p \in Packets : Reaches(p)}
<1>1. 1 \in Packets
  BY LoadedType, SMT DEF Packets
<1>2. CASE T = {}
  BY <1>1, <1>2, Zenon DEF ResumePacket
<1>3. CASE T # {}
  <2>1. T \subseteq Nat
    BY PacketEnds, Zenon
  <2>2. PICK p \in T : \A q \in T : p <= q
    BY <1>3, <2>1, LeastNumber, Zenon
  <2>3. p \in Packets /\ Reaches(p) /\ p \in Nat /\ 1 <= p /\ p <= Len(input) /\ Len(input) \in Nat
    BY <2>2, PacketEnds, LoadedType, Zenon
  <2>4. ASSUME NEW q \in 1..(p - 1) PROVE ~Reaches(q)
    <3>1. q \in Packets /\ ~(p <= q)
      BY <2>3, SMT DEF Packets
    <3>2. QED BY <2>2, <3>1, Zenon
  <2>5. \E x \in Packets : Reaches(x) /\ \A q \in 1..(x - 1) : ~Reaches(q)
    BY <2>3, <2>4, Zenon
  <2>6. QED BY <2>3, <2>5, Zenon DEF ResumePacket
<1>4. QED BY <1>2, <1>3

\* Only these move in the input.
LEMMA PlaceUnmoved ==
    ASSUME Next
    PROVE  \/ \E length \in ChunkLengths : LoadChunk(length)
           \/ \E n \in 1..MaxAus : LoadPacket(n)
           \/ StartPassA \/ PushA \/ StartPassB \/ PushB
           \/ \E n \in AuIndices : PullA(n) \/ PullB(n)
           \/ phase # "load" /\ phase' # "load" /\ UNCHANGED <<input, k, dec, resume>>
<1> DEFINE Q == phase # "load" /\ phase' # "load" /\ UNCHANGED <<input, k, dec, resume>>
<1>1. PulledDryA \/ TakeUpdate \/ UpdatesTaken \/ FinishPassA => Q
  BY Zenon DEF PulledDryA, TakeUpdate, UpdatesTaken, FinishPassA, fixedVars, passBVars
<1>2. MatchBed \/ MatchEvent \/ FinishMatch \/ NoPassB \/ PulledDryB => Q
  BY Zenon DEF MatchBed, MatchEvent, FinishMatch, NoPassB, PulledDryB, fixedVars, passBVars
<1>3. (\E b \in AnyBlock : PullFaultyB(b)) \/ FinishPassB => Q
  BY Zenon DEF PullFaultyB, FinishPassB, fixedVars, passBVars
<1>4. PushRefused \/ PullFails => Q
  BY Refused, Zenon
<1>5. QED BY <1>1, <1>2, <1>3, <1>4, Zenon DEF Next

LEMMA PlaceStart == Given /\ Init => Place
<1> SUFFICES ASSUME Given, Init PROVE Place
  OBVIOUS
<1>1. /\ dec = FedFrom(0) /\ k = 0 /\ input = <<>> /\ phase = "load" /\ resume = 1
  BY Zenon DEF Init
<1>2. FedFrom(0) \in Decoder /\ FedFrom(0).next \in 1..(Len(stream.aus) + 1) /\ FedFrom(0).upTo = 0
  <2>1. 0 \in Nat
    BY SMT
  <2>2. QED BY <2>1, FedFromType, Zenon
<1>3. k \in 0..Len(input)
  BY <1>1, SMT
<1>4. QED BY <1>1, <1>2, <1>3, Zenon DEF Place

LEMMA PushedType ==
    ASSUME Given, Cutting, Place, phase # "load", phase' # "load", k < Len(input),
           UNCHANGED <<stream, input, resume>>,
           k' = k + 1, dec' = [dec EXCEPT !.upTo = input[k + 1]]
    PROVE  Place'
<1>1. k \in Nat /\ k + 1 \in 1..Len(input) /\ k + 1 # 0 /\ Len(input) \in Nat
  BY LoadedType, SMT DEF Place
<1>2. input[k + 1] \in Nat
  BY <1>1, PacketEnds, Zenon DEF Packets
<1>3. dec' \in Decoder /\ dec'.upTo = input[k + 1] /\ dec'.next = dec.next
  <2>1. dec \in Decoder
    BY Zenon DEF Place
  <2>2. dec' = [first |-> dec.first, next |-> dec.next, upTo |-> input[k + 1],
                live |-> dec.live, frames |-> dec.frames, fresh |-> dec.fresh]
    BY <2>1, Zenon DEF Decoder
  <2>3. /\ dec.first \in Nat /\ dec.next \in Nat /\ dec.frames \in Nat
        /\ dec.live \in BOOLEAN /\ dec.fresh \in BOOLEAN
    BY <2>1, Zenon DEF Decoder
  <2>4. dec' \in Decoder
    BY <1>2, <2>2, <2>3, Zenon DEF Decoder
  <2>5. dec'.upTo = input[k + 1] /\ dec'.next = dec.next
    BY <2>2, Zenon
  <2>6. QED BY <2>4, <2>5
<1>4. k' \in 0..Len(input)
  BY <1>1, SMT
<1>5. QED BY <1>1, <1>3, <1>4, Zenon DEF Place, Packets

LEMMA PulledType ==
    ASSUME Given, Place, phase # "load", phase' # "load", NEW n \in Ready,
           UNCHANGED <<stream, input, k, resume>>, dec' = After(n)
    PROVE  Place'
<1>1. /\ After(n) \in Decoder
      /\ After(n).next \in 1..(Len(stream.aus) + 1)
      /\ After(n).upTo = dec.upTo
  BY AfterType, Zenon
<1>2. QED BY <1>1, Zenon DEF Place, Packets

LEMMA PlaceKept ==
    ASSUME Given, Cutting, Place, Next
    PROVE  Place'
<1>1. stream' = stream /\ Len(input) \in Nat /\ input \in Seq(Nat)
  BY SourceKept, LoadedType, Zenon DEF Cutting, Consecutive
<1>2. FedFrom(0)' = FedFrom(0)
  BY <1>1, Zenon DEF FedFrom, FirstFrom, AuIndices
<1>3. ASSUME NEW x, input' = Append(input, x), UNCHANGED <<k, dec, resume, phase>>, phase = "load"
      PROVE  Place'
  <2>1. Len(input') = Len(input) + 1
    BY <1>1, <1>3, SMT
  <2>2. QED BY <1>1, <1>2, <1>3, <2>1, SMT DEF Place
<1>4. ASSUME NEW length \in ChunkLengths, LoadChunk(length) PROVE Place'
  BY <1>3, <1>4, Zenon DEF LoadChunk, passBVars
<1>5. ASSUME NEW n \in 1..MaxAus, LoadPacket(n) PROVE Place'
  BY <1>3, <1>5, Zenon DEF LoadPacket, passBVars
<1>6. CASE StartPassA
  <2>1. /\ UNCHANGED <<input, dec, resume>> /\ k' = 0 /\ phase = "load" /\ phase' # "load"
    BY <1>6, Zenon DEF StartPassA, passBVars, fixedVars
  <2>2. FedFrom(0).upTo = 0
    BY FedFromType, SMT
  <2>3. 1 \in 1..Len(input')
    <3>1. Loaded >= Size
      BY <1>6, Zenon DEF StartPassA
    <3>2. Size \in Nat /\ 0 < Size
      BY EndsInside, AuCount, SMT DEF AuIndices
    <3>3. Loaded # 0
      BY <3>1, <3>2, SMT
    <3>4. Len(input) \in Packets
      BY <3>3, LoadedType, Zenon DEF Loaded
    <3>5. QED BY <1>1, <2>1, <3>4, SMT DEF Packets
  <2>4. QED BY <1>1, <1>2, <2>1, <2>2, <2>3, SMT DEF Place, Packets
<1>7. CASE PushA
  <2>1. /\ UNCHANGED <<input, resume>> /\ phase # "load" /\ phase' # "load" /\ k < Len(input)
        /\ k' = k + 1 /\ dec' = [dec EXCEPT !.upTo = input[k + 1]]
    BY <1>7, Zenon DEF PushA, passBVars, fixedVars
  <2>2. QED BY <1>1, <2>1, PushedType, Zenon
<1>8. CASE PushB
  <2>1. /\ UNCHANGED <<input, resume>> /\ phase # "load" /\ phase' # "load" /\ k < Len(input)
        /\ k' = k + 1 /\ dec' = [dec EXCEPT !.upTo = input[k + 1]]
    BY <1>8, Zenon DEF PushB, passBVars, fixedVars
  <2>2. QED BY <1>1, <2>1, PushedType, Zenon
<1>9. CASE StartPassB
  <2>1. /\ input' = input /\ resume' = ResumePacket /\ phase # "load" /\ phase' # "load"
        /\ k' = 0 /\ dec' = FedFrom(0)
    BY <1>9, Zenon DEF StartPassB, fixedVars
  <2>2. ResumePacket \in Packets
    BY <2>1, ResumePacketType
  <2>3. FedFrom(0) \in Decoder /\ FedFrom(0).next \in 1..(Len(stream.aus) + 1) /\ FedFrom(0).upTo = 0
    BY FedFromType, SMT
  <2>4. QED BY <1>1, <2>1, <2>2, <2>3, SMT DEF Place, Packets
<1>10. ASSUME NEW n \in AuIndices, PullA(n) PROVE Place'
  <2>1. /\ UNCHANGED <<input, k, resume>> /\ phase # "load" /\ phase' # "load" /\ n \in Ready
        /\ dec' = After(n)
    BY <1>10, Zenon DEF PullA, Pulled, passBVars, fixedVars
  <2>2. QED BY <1>1, <2>1, PulledType, Zenon
<1>11. ASSUME NEW n \in AuIndices, PullB(n) PROVE Place'
  <2>1. /\ UNCHANGED <<input, resume>> /\ phase # "load" /\ phase' # "load" /\ n \in Ready
        /\ \/ k' = k /\ dec' = After(n)
           \/ k' = resume - 1 /\ dec' = FedFrom(PacketStart(resume))
    BY <1>11, Zenon DEF PullB, Pulled, Seek, fixedVars
  <2>2. CASE k' = k /\ dec' = After(n)
    BY <1>1, <2>1, <2>2, PulledType, Zenon
  <2>3. CASE k' = resume - 1 /\ dec' = FedFrom(PacketStart(resume))
    <3>1. resume \in Packets /\ resume \in Nat /\ 1 <= resume /\ resume <= Len(input)
          /\ PacketStart(resume) \in Nat
      BY <2>1, PacketEnds, Zenon DEF Place
    <3>2. /\ dec' \in Decoder /\ dec'.next \in 1..(Len(stream.aus) + 1)
          /\ dec'.upTo = PacketStart(resume)
      BY <2>3, <3>1, FedFromType, Zenon
    <3>3. k' \in 0..Len(input) /\ (k' = 0 <=> resume = 1)
      BY <1>1, <2>3, <3>1, SMT
    <3>4. dec'.upTo = IF k' = 0 THEN 0 ELSE input[k']
      BY <2>3, <3>2, <3>3, Zenon DEF PacketStart
    <3>5. QED BY <1>1, <2>1, <3>1, <3>2, <3>3, <3>4, Zenon DEF Place, Packets
  <2>4. QED BY <2>1, <2>2, <2>3
<1>12. ASSUME phase # "load", phase' # "load", UNCHANGED <<input, k, dec, resume>>
       PROVE  Place'
  BY <1>1, <1>12, Zenon DEF Place, Packets
<1>13. QED
  BY <1>4, <1>5, <1>6, <1>7, <1>8, <1>9, <1>10, <1>11, <1>12, PlaceUnmoved, Zenon

-----------------------------------------------------------------------------
(* What is kept of the blocks.                                             *)

Entry      == [ref : Int, ordinal : Int]
Comparison == [frames : Int, mismatch : BOOLEAN]

Flags ==
    /\ unmatched \in BOOLEAN /\ resetDone \in BOOLEAN /\ firstAfter \in BOOLEAN
    /\ before \in BOOLEAN /\ after \in BOOLEAN /\ ordinalMismatch \in BOOLEAN
    /\ afterBlocks \in BOOLEAN /\ failed \in BOOLEAN /\ deviated \in BOOLEAN

Kept ==
    /\ phase # "load" => map \in [Packets -> Entry]
    /\ cmp \in Comparison
    /\ Flags

LEMMA BlockType ==
    ASSUME Given, Cutting, Place, phase # "load", NEW n \in Ready
    PROVE  /\ Block(n).au = n /\ Block(n).pts = PacketOf(n) /\ Block(n).pts \in Packets
           /\ Block(n).index \in Nat
           /\ Block(n).ordinal = n - dec.first /\ Block(n).ordinal \in Int
           /\ Block(n).position = dec.frames /\ Block(n).position \in Nat
           /\ Block(n).frames = Frames(n) /\ Block(n).frames \in Nat
           /\ Block(n).auFrames = AuFrames /\ Block(n).auFrames \in Nat
           /\ Block(n).offset = Block(n).ordinal * AuFrames
<1>1. n \in AuIndices /\ n \in Nat
  BY ReadyIs, AuFields, Zenon
<1>2. dec.first \in Nat /\ dec.frames \in Nat
  BY SMT DEF Place, Decoder
<1>3. PacketOf(n) \in Packets
  BY <1>1, PacketOfIs
<1>4. Cardinality({m \in dec.first..(n - 1) : PacketOf(m) = PacketOf(n)}) \in Nat
  <2>1. IsFiniteSet(dec.first..(n - 1))
    <3>1. dec.first \in Int /\ n - 1 \in Int
      BY <1>1, <1>2, SMT
    <3>2. QED BY <3>1, FS_Interval, Zenon
  <2>2. {m \in dec.first..(n - 1) : PacketOf(m) = PacketOf(n)} \in SUBSET (dec.first..(n - 1))
    BY Zenon
  <2>3. IsFiniteSet({m \in dec.first..(n - 1) : PacketOf(m) = PacketOf(n)})
    BY <2>1, <2>2, FS_Subset
  <2>4. QED BY <2>3, FS_CardinalityType
<1>5. /\ Block(n).au = n /\ Block(n).pts = PacketOf(n)
      /\ Block(n).index = Cardinality({m \in dec.first..(n - 1) : PacketOf(m) = PacketOf(n)})
      /\ Block(n).ordinal = n - dec.first
      /\ Block(n).position = dec.frames
      /\ Block(n).frames = Frames(n) /\ Block(n).auFrames = AuFrames
      /\ Block(n).offset = (n - dec.first) * AuFrames
  BY Zenon DEF Block
<1>6. n - dec.first \in Int
  BY <1>1, <1>2, SMT
<1>7. Frames(n) \in Nat /\ AuFrames \in Nat
  <2>1. Frames(n) \in Nat
    BY <1>1, FramesType
  <2>2. AuFrames \in Nat
    BY SMT DEF AuFrames
  <2>3. QED BY <2>1, <2>2
<1>8. QED BY <1>2, <1>3, <1>4, <1>5, <1>6, <1>7, Zenon

LEMMA MapEntryType ==
    ASSUME NEW b, b.position \in Nat, b.index \in Nat, b.ordinal \in Int,
           b.auFrames = AuFrames
    PROVE  MapEntry(b) \in Entry
  BY SMT DEF MapEntry, Entry, AuFrames

LEMMA CompareBlockType ==
    ASSUME NEW c \in Comparison, NEW b, b.frames \in Nat, NEW at
    PROVE  CompareBlock(c, b, at) \in Comparison
<1> DEFINE far  == c.mismatch \/ b.frames > 0
           near == c.mismatch \/ (b.frames > 0 /\ ~Holds(b, at))
<1>1. c.frames + b.frames \in Int /\ c.frames \in Int
  BY SMT DEF Comparison
<1>2. far \in BOOLEAN /\ near \in BOOLEAN
  BY Zenon
<1> HIDE DEF far, near
<1>3. PICK x : x = [c EXCEPT !.mismatch = far]
  OBVIOUS
<1>4. x = [frames |-> c.frames, mismatch |-> far]
  BY <1>3, Zenon DEF Comparison
<1>5. x \in Comparison
  BY <1>1, <1>2, <1>4, Zenon DEF Comparison
<1>6. [frames |-> c.frames + b.frames, mismatch |-> near] \in Comparison
  BY <1>1, <1>2, Zenon DEF Comparison
<1>7. QED BY <1>3, <1>5, <1>6, Zenon DEF CompareBlock, far, near

LEMMA KeptStart == Init => Kept
<1> SUFFICES ASSUME Init PROVE Kept
  OBVIOUS
<1>1. phase = "load" /\ cmp = NothingCompared
  BY Zenon DEF Init
<1>2. NothingCompared \in Comparison
  <2>1. 0 \in Int
    BY SMT
  <2>2. QED BY <2>1, Zenon DEF NothingCompared, Comparison
<1>3. Flags
  BY Zenon DEF Init, Flags
<1>4. QED BY <1>1, <1>2, <1>3, Zenon DEF Kept

LEMMA JudgeFlags ==
    ASSUME NEW b, Judge(b), Flags
    PROVE  /\ firstAfter' \in BOOLEAN /\ before' \in BOOLEAN /\ after' \in BOOLEAN
           /\ ordinalMismatch' \in BOOLEAN /\ afterBlocks' \in BOOLEAN /\ failed' \in BOOLEAN
           /\ deviated' \in BOOLEAN
<1>1. CASE Lost(b)
  BY <1>1, Zenon DEF Lost, Flags
<1>2. CASE JudgeBefore(b)
  BY <1>2, Zenon DEF JudgeBefore, Flags
<1>3. CASE JudgeAfter(b)
  BY <1>3, Zenon DEF JudgeAfter, Flags
<1>4. QED BY <1>1, <1>2, <1>3, Zenon DEF Judge

LEMMA FlagsKept == Flags /\ Next => Flags'
<1> SUFFICES ASSUME Flags, Next PROVE Flags'
  OBVIOUS
<1>1. CASE \E length \in ChunkLengths : LoadChunk(length)
  BY <1>1, Zenon DEF LoadChunk, Flags, matchVars, passBVars
<1>2. CASE \E n \in 1..MaxAus : LoadPacket(n)
  BY <1>2, Zenon DEF LoadPacket, Flags, matchVars, passBVars
<1>3. CASE StartPassA \/ PushA \/ PulledDryA \/ UpdatesTaken \/ NoPassB \/ PushB \/ PulledDryB
  <2>1. UNCHANGED <<matchVars, passBVars, failed>>
    BY <1>3, Zenon DEF StartPassA, PushA, PulledDryA, UpdatesTaken, NoPassB, PushB, PulledDryB
  <2>2. QED BY <2>1, Zenon DEF Flags, matchVars, passBVars
<1>4. CASE TakeUpdate
  BY <1>4, Zenon DEF TakeUpdate, Flags, matchVars, passBVars
<1>5. CASE FinishPassA
  BY <1>5, Zenon DEF FinishPassA, Flags, matchVars, passBVars
<1>6. CASE MatchBed
  BY <1>6, Zenon DEF MatchBed, Flags, matchVars, passBVars
<1>7. CASE MatchEvent
  BY <1>7, Zenon DEF MatchEvent, Flags, matchVars, passBVars
<1>8. CASE FinishMatch
  BY <1>8, Zenon DEF FinishMatch, Flags, matchVars, passBVars
<1>9. CASE StartPassB
  BY <1>9, Zenon DEF StartPassB, Flags, matchVars, passBVars
<1>10. CASE \E n \in AuIndices : PullA(n)
  BY <1>10, Zenon DEF PullA, Flags, matchVars, passBVars
<1>11. ASSUME NEW n \in AuIndices, PullB(n) PROVE Flags'
  <2>1. Judge(Block(n)) /\ unmatched' = unmatched /\ (resetDone' = resetDone \/ resetDone' = TRUE)
    BY <1>11, Zenon DEF PullB, Seek, matchVars
  <2>2. QED BY <2>1, JudgeFlags, Zenon DEF Flags
<1>12. ASSUME NEW b \in AnyBlock, PullFaultyB(b) PROVE Flags'
  <2>1. Judge(b) /\ unmatched' = unmatched /\ resetDone' = resetDone
    BY <1>12, Zenon DEF PullFaultyB, matchVars
  <2>2. QED BY <2>1, JudgeFlags, Zenon DEF Flags
<1>13. CASE FinishPassB
  BY <1>13, Zenon DEF FinishPassB, Flags, matchVars, passBVars
<1>14. CASE PushRefused \/ PullFails
  BY <1>14, Refused, Zenon DEF Flags
<1>15. QED
  BY <1>1, <1>2, <1>3, <1>4, <1>5, <1>6, <1>7, <1>8, <1>9, <1>10, <1>11, <1>12, <1>13, <1>14,
     Zenon DEF Next

\* Only pass A learns and compares.
LEMMA LearntKept ==
    ASSUME Next
    PROVE  \/ \E length \in ChunkLengths : LoadChunk(length)
           \/ \E n \in 1..MaxAus : LoadPacket(n)
           \/ StartPassA
           \/ \E n \in AuIndices : PullA(n)
           \/ phase # "load" /\ phase' # "load" /\ UNCHANGED <<input, map, cmp>>
<1> DEFINE Q == phase # "load" /\ phase' # "load" /\ UNCHANGED <<input, map, cmp>>
<1>1. PushA \/ PulledDryA \/ TakeUpdate \/ UpdatesTaken \/ FinishPassA => Q
  BY Zenon DEF PushA, PulledDryA, TakeUpdate, UpdatesTaken, FinishPassA, fixedVars, passAVars
<1>2. MatchBed \/ MatchEvent \/ FinishMatch \/ NoPassB \/ StartPassB \/ PushB \/ PulledDryB => Q
  BY Zenon DEF MatchBed, MatchEvent, FinishMatch, NoPassB, StartPassB, PushB, PulledDryB,
     fixedVars, passAVars
<1>3. ASSUME NEW n \in AuIndices, PullB(n) PROVE Q
  BY <1>3, Zenon DEF PullB, Seek, fixedVars, passAVars
<1>4. (\E b \in AnyBlock : PullFaultyB(b)) \/ FinishPassB => Q
  BY Zenon DEF PullFaultyB, FinishPassB, fixedVars, passAVars
<1>5. PushRefused \/ PullFails => Q
  BY Refused, Zenon
<1>6. QED BY <1>1, <1>2, <1>3, <1>4, <1>5, Zenon DEF Next

LEMMA KeptKept ==
    ASSUME Given, Cutting, Place, Kept, Next
    PROVE  Kept'
<1>1. Flags'
  BY FlagsKept, Zenon DEF Kept
<1>2. CASE (\E length \in ChunkLengths : LoadChunk(length)) \/ \E n \in 1..MaxAus : LoadPacket(n)
  <2>1. phase' = "load" /\ cmp' = cmp
    BY <1>2, Zenon DEF LoadChunk, LoadPacket, passAVars
  <2>2. QED BY <1>1, <2>1, Zenon DEF Kept, Comparison
<1>3. CASE StartPassA
  <2>1. input' = input /\ map' = [p \in Packets |-> Unmapped] /\ cmp' = cmp
    BY <1>3, Zenon DEF StartPassA, fixedVars
  <2>2. Unmapped \in Entry
    BY SMT DEF Unmapped, Entry
  <2>3. map' \in [Packets' -> Entry]
    BY <2>1, <2>2, Zenon DEF Packets
  <2>4. QED BY <1>1, <2>1, <2>3, Zenon DEF Kept, Comparison, Entry
<1>4. ASSUME NEW n \in AuIndices, PullA(n) PROVE Kept'
  <2>1. /\ input' = input /\ map' = Learn(Block(n)) /\ cmp' = CompareBlock(cmp, Block(n), dec.frames)
        /\ n \in Ready /\ phase # "load"
    BY <1>4, Zenon DEF PullA, Pulled, fixedVars
  <2>2. /\ Block(n).au = n /\ Block(n).pts \in Packets /\ Block(n).index \in Nat
        /\ Block(n).ordinal \in Int /\ Block(n).position \in Nat
        /\ Block(n).frames \in Nat /\ Block(n).auFrames = AuFrames
    BY <2>1, BlockType
  <2>3. MapEntry(Block(n)) \in Entry
    BY <2>2, MapEntryType
  <2>4. map \in [Packets -> Entry]
    BY <2>1, Zenon DEF Kept
  <2>5. Learn(Block(n)) \in [Packets -> Entry]
    BY <2>2, <2>3, <2>4, Zenon DEF Learn
  <2>7. CompareBlock(cmp, Block(n), dec.frames) \in Comparison
    BY <2>2, CompareBlockType, Zenon DEF Kept
  <2>8. QED BY <1>1, <2>1, <2>5, <2>7, Zenon DEF Kept, Comparison, Entry, Packets
<1>5. CASE phase # "load" /\ phase' # "load" /\ UNCHANGED <<input, map, cmp>>
  BY <1>1, <1>5, Zenon DEF Kept, Comparison, Entry, Packets
<1>6. QED BY <1>2, <1>3, <1>4, <1>5, LearntKept

-----------------------------------------------------------------------------
(* Our position events.                                                    *)

\* How many are below.
Rank(S, e) == Cardinality({f \in S : f < e})

LEMMA RankType ==
    ASSUME NEW S, IsFiniteSet(S), NEW e
    PROVE  IsFiniteSet({f \in S : f < e}) /\ Rank(S, e) \in Nat
<1>1. {f \in S : f < e} \in SUBSET S
  BY Zenon
<1>2. IsFiniteSet({f \in S : f < e})
  BY <1>1, FS_Subset
<1>3. QED BY <1>2, FS_CardinalityType DEF Rank

LEMMA RankGrows ==
    ASSUME NEW S, IsFiniteSet(S), S \subseteq Nat, NEW d \in S, NEW e \in S, d < e
    PROVE  Rank(S, d) < Rank(S, e)
<1> DEFINE D == {f \in S : f < d}
           E == {f \in S : f < e}
<1>1. IsFiniteSet(D) /\ IsFiniteSet(E) /\ Cardinality(D) \in Nat /\ Cardinality(E) \in Nat
      /\ Rank(S, d) = Cardinality(D) /\ Rank(S, e) = Cardinality(E)
  BY RankType, Zenon DEF Rank
<1>2. d \notin D /\ d \in E
  BY SMT
<1>3. D \subseteq E
  <2>1. \A f \in S : f < d => f < e
    BY SMT
  <2>2. QED BY <2>1, Zenon
<1>4. Cardinality(D) <= Cardinality(E) /\ (Cardinality(E) = Cardinality(D) => E = D)
  BY <1>1, <1>3, FS_Subset
<1>5. Cardinality(E) # Cardinality(D)
  BY <1>2, <1>4, Zenon
<1>6. QED BY <1>1, <1>4, <1>5, SMT

\* Of a finite set of numbers there is one of each rank.
LEMMA RankTaken ==
    ASSUME NEW S, IsFiniteSet(S), S \subseteq Nat, NEW r \in Nat, r < Cardinality(S)
    PROVE  \E e \in S : Rank(S, e) = r
<1> SUFFICES ASSUME \A e \in S : Rank(S, e) # r PROVE FALSE
  OBVIOUS
<1> DEFINE A == {e \in S : Rank(S, e) < r}
           B == {e \in S : r < Rank(S, e)}
<1>1. \A e \in S : e \in Nat /\ Rank(S, e) \in Nat
  BY RankType, Zenon
<1>2. \A e \in S : e \in A \/ e \in B
  BY <1>1, SMT
<1>3. A \in SUBSET S /\ IsFiniteSet(A) /\ Cardinality(A) \in Nat
  <2>1. A \in SUBSET S
    BY Zenon
  <2>2. QED BY <2>1, FS_Subset, FS_CardinalityType
<1>4. r < Cardinality(A)
  <2>1. CASE B = {}
    <3>1. A = S
      BY <1>2, <2>1, Zenon
    <3>2. QED BY <3>1, Zenon
  <2>2. CASE B # {}
    <3>1. B \subseteq Nat
      BY <1>1, Zenon
    <3>2. PICK b \in B : \A y \in B : b <= y
      BY <2>2, <3>1, LeastNumber, Zenon
    <3>3. b \in S /\ r < Rank(S, b) /\ b \in Nat
      BY <1>1, <3>2, Zenon
    <3>4. ASSUME NEW f \in S PROVE f < b <=> f \in A
      <4>1. f \in Nat /\ Rank(S, f) \in Nat /\ Rank(S, b) \in Nat
        BY <1>1, <3>3, Zenon
      <4>2. ASSUME f < b PROVE f \in A
        <5>1. ~(b <= f)
          BY <3>3, <4>1, <4>2, SMT
        <5>2. f \notin B
          BY <3>2, <5>1, Zenon
        <5>3. QED BY <1>2, <5>2, Zenon
      <4>3. ASSUME f \in A, ~(f < b) PROVE FALSE
        <5>1. Rank(S, f) < r
          BY <4>3, Zenon
        <5>2. b = f \/ b < f
          BY <3>3, <4>1, <4>3, SMT
        <5>3. b < f => Rank(S, b) < Rank(S, f)
          BY <3>3, RankGrows
        <5>4. QED BY <3>3, <4>1, <5>1, <5>2, <5>3, SMT
      <4>4. QED BY <4>2, <4>3
    <3>5. {f \in S : f < b} = A
      BY <3>4, Zenon
    <3>6. QED BY <3>3, <3>5, Zenon DEF Rank
  <2>3. QED BY <2>1, <2>2
<1>5. A # {}
  <2>1. Cardinality({}) = 0
    BY FS_EmptySet
  <2>2. A = {} => Cardinality(A) = 0
    BY <2>1, Zenon
  <2> HIDE DEF A
  <2>3. QED BY <1>4, <2>2, SMT
<1> DEFINE T == {r - Rank(S, e) : e \in A}
<1>6. \A e \in A : e \in S /\ Rank(S, e) < r /\ r - Rank(S, e) \in Nat
  BY <1>1, SMT
<1>7. T \subseteq Nat /\ T # {}
  BY <1>5, <1>6, Zenon
<1>8. PICK t \in T : \A y \in T : t <= y
  BY <1>7, LeastNumber, Zenon
<1>9. PICK a \in A : t = r - Rank(S, a)
  BY <1>8, Zenon
<1>10. a \in S /\ Rank(S, a) < r /\ Rank(S, a) \in Nat /\ a \in Nat
  BY <1>1, <1>6, <1>9, Zenon
<1>11. ASSUME NEW f \in A PROVE f = a \/ f < a
  <2>1. f \in S /\ f \in Nat /\ Rank(S, f) \in Nat
    BY <1>1, <1>6, Zenon
  <2>2. r - Rank(S, a) <= r - Rank(S, f)
    BY <1>8, <1>9, Zenon
  <2>3. ~(Rank(S, a) < Rank(S, f))
    BY <1>10, <2>1, <2>2, SMT
  <2>4. ~(a < f)
    BY <1>10, <2>1, <2>3, RankGrows
  <2>5. QED BY <1>10, <2>1, <2>4, SMT
<1> DEFINE L == {f \in S : f < a}
<1>12. A \subseteq L \cup {a}
  BY <1>6, <1>11, Zenon
<1>13. IsFiniteSet(L) /\ Cardinality(L) = Rank(S, a)
  BY RankType, Zenon DEF Rank
<1>14. a \notin L
  BY <1>10, SMT
<1>15. IsFiniteSet(L \cup {a}) /\ Cardinality(L \cup {a}) = Rank(S, a) + 1
  BY <1>13, <1>14, FS_AddElement
<1>16. Cardinality(A) <= Rank(S, a) + 1
  BY <1>12, <1>15, FS_Subset
<1>17. QED BY <1>3, <1>4, <1>10, <1>16, SMT

\* The nth event of an update.
EventAt(u, moved, n) ==
    LET e == CHOOSE e \in moved : Cardinality({f \in moved : f < e}) = n - 1
    IN  [id |-> e, time |-> updates.position + u.offset, position |-> u.positions[e]]

EventsStep(f, u, moved) ==
    [n \in 0..Cardinality(moved) |->
        IF n = 0 THEN <<>> ELSE Append(f[n - 1], EventAt(u, moved, n))]

LEMMA EventsChosen ==
    ASSUME NEW u, NEW moved
    PROVE  EventsOf(u, moved) = (CHOOSE f : f = EventsStep(f, u, moved))[Cardinality(moved)]
  BY Zenon DEF EventsOf, EventsStep, EventAt

\* The events of an update are one for each object moved.
LEMMA EventsAre ==
    ASSUME NEW u, NEW moved, IsFiniteSet(moved)
    PROVE  EventsOf(u, moved) = [x \in 1..Cardinality(moved) |-> EventAt(u, moved, x)]
<1> DEFINE N == Cardinality(moved)
           E(n) == EventAt(u, moved, n)
           G(n) == [x \in 1..n |-> E(x)]
           g == [n \in 0..N |-> G(n)]
           c == CHOOSE f : f = EventsStep(f, u, moved)
<1>1. N \in Nat
  BY FS_CardinalityType
<1> HIDE DEF N, E
<1>2. ASSUME NEW n \in 0..N, n # 0 PROVE G(n) = Append(G(n - 1), E(n)) /\ n - 1 \in 0..N
  <2>1. n \in Nat /\ n - 1 \in Nat /\ (n - 1) + 1 = n /\ n - 1 \in 0..N
    BY <1>1, <1>2, SMT
  <2>2. G(n - 1) \in Seq({E(x) : x \in 1..n}) /\ Len(G(n - 1)) = n - 1
    <3>1. \A x \in 1..(n - 1) : x \in 1..n
      BY <2>1, SMT
    <3>2. G(n - 1) \in [1..(n - 1) -> {E(x) : x \in 1..n}]
      BY <3>1, Zenon
    <3>3. QED
      <4> DEFINE m == n - 1
                 S == {E(x) : x \in 1..n}
                 h == G(n - 1)
      <4>1. m \in Nat /\ h \in [1..m -> S]
        BY <2>1, <3>2
      <4> HIDE DEF m, S, h
      <4>2. h \in Seq(S) /\ Len(h) = m
        BY <4>1, SMT
      <4>3. QED BY <4>2 DEF m, S, h
  <2>3. QED BY <2>1, <2>2, SMT
<1>3. g[0] = <<>>
  <2>1. 0 \in 0..N /\ 1..0 = {}
    BY <1>1, SMT
  <2>2. QED BY <2>1, SMT
<1>4. g = EventsStep(g, u, moved)
  <2>1. \A n \in 0..N : g[n] = IF n = 0 THEN <<>> ELSE Append(g[n - 1], E(n))
    BY <1>2, <1>3, Zenon
  <2>2. g = [n \in 0..N |-> IF n = 0 THEN <<>> ELSE Append(g[n - 1], E(n))]
    BY <2>1, Zenon
  <2>3. QED BY <2>2, Zenon DEF EventsStep, N, E
<1>5. c = EventsStep(c, u, moved)
  BY <1>4, Zenon
<1>6. \A n \in 0..N : c[n] = IF n = 0 THEN <<>> ELSE Append(c[n - 1], E(n))
  <2> HIDE DEF c
  <2>1. c = [n \in 0..N |-> IF n = 0 THEN <<>> ELSE Append(c[n - 1], E(n))]
    BY <1>5, Zenon DEF EventsStep, N, E
  <2>2. QED BY <2>1, Zenon
<1>7. \A n \in 0..N : c[n] = g[n]
  <2> HIDE DEF c
  <2> DEFINE T == {n \in 0..N : c[n] # g[n]}
  <2>1. ASSUME T # {} PROVE FALSE
    <3>1. T \subseteq Nat
      BY <1>1, SMT
    <3>2. PICK n \in T : \A y \in T : n <= y
      BY <2>1, <3>1, LeastNumber, Zenon
    <3>3. n \in 0..N /\ c[n] # g[n]
      BY <3>2, Zenon
    <3>4. n # 0
      BY <1>3, <1>6, <3>3, Zenon
    <3>5. n - 1 \in 0..N /\ ~(n <= n - 1)
      BY <1>1, <3>3, <3>4, SMT
    <3>6. c[n - 1] = g[n - 1]
      BY <3>2, <3>5, Zenon
    <3>7. g[n] = Append(g[n - 1], E(n))
      BY <1>2, <3>3, <3>4, <3>5, Zenon
    <3>8. QED BY <1>6, <3>3, <3>4, <3>6, <3>7, Zenon
  <2>2. QED BY <2>1, Zenon
<1>8. N \in 0..N
  BY <1>1, SMT
<1>9. EventsOf(u, moved) = c[N]
  BY EventsChosen, Zenon DEF N
<1>10. c[N] = G(N)
  <2> HIDE DEF c
  <2>1. QED BY <1>7, <1>8, Zenon
<1>11. QED BY <1>9, <1>10, Zenon DEF N, E

MarkedUpdate == [offset : Nat, positions : [Objects -> Positions], changed : SUBSET Objects]
OurEvent     == [id : Objects, time : Nat, position : Positions]
Places       == Positions \cup {Nowhere}

Meta ==
    /\ updates \in [pending : Seq(MarkedUpdate), position : Nat, frames : Nat]
    /\ target \in [Objects -> Places] /\ shown \in [Objects -> Places]
    /\ target = stated
    /\ ours \in Seq(OurEvent)
    /\ ~failed => shown = stated

LEMMA EventsType ==
    ASSUME NEW u \in MarkedUpdate, updates.position \in Nat, NEW moved \in SUBSET Objects
    PROVE  /\ EventsOf(u, moved) \in Seq(OurEvent)
           /\ Len(EventsOf(u, moved)) = Cardinality(moved)
<1>1. IsFiniteSet(moved) /\ moved \subseteq Nat
  BY HarnessConstants, FS_Subset, Zenon
<1> DEFINE N == Cardinality(moved)
<1>2. N \in Nat
  BY <1>1, FS_CardinalityType
<1>3. ASSUME NEW x \in 1..N PROVE EventAt(u, moved, x) \in OurEvent
  <2> DEFINE d == CHOOSE d \in moved : Cardinality({f \in moved : f < d}) = x - 1
  <2>1. x - 1 \in Nat /\ x - 1 < N
    BY <1>2, SMT
  <2>2. \E d1 \in moved : Cardinality({f \in moved : f < d1}) = x - 1
    <3>1. \E d1 \in moved : Rank(moved, d1) = x - 1
      BY <1>1, <2>1, RankTaken
    <3>2. QED BY <3>1, Zenon DEF Rank
  <2>3. d \in moved
    BY <2>2, Zenon
  <2>4. EventAt(u, moved, x) = [id |-> d, time |-> updates.position + u.offset,
                                position |-> u.positions[d]]
    BY Zenon DEF EventAt
  <2> HIDE DEF d
  <2>5. u.offset \in Nat /\ u.positions \in [Objects -> Positions]
    BY SMT DEF MarkedUpdate
  <2>6. updates.position + u.offset \in Nat
    BY <2>5, SMT
  <2>7. d \in Objects /\ u.positions[d] \in Positions
    BY <2>3, <2>5, Zenon
  <2> DEFINE t == updates.position + u.offset
             q == u.positions[d]
  <2>8. [id |-> d, time |-> t, position |-> q] \in OurEvent
    <3>1. t \in Nat /\ d \in Objects /\ q \in Positions
      BY <2>6, <2>7
    <3> HIDE DEF t, q
    <3>2. QED BY <3>1, SMT DEF OurEvent
  <2>9. QED BY <2>4, <2>8, Zenon
<1>4. [x \in 1..N |-> EventAt(u, moved, x)] \in [1..N -> OurEvent]
  BY <1>3, Zenon
<1>5. EventsOf(u, moved) = [x \in 1..N |-> EventAt(u, moved, x)]
  BY <1>1, EventsAre
<1>6. EventsOf(u, moved) \in [1..N -> OurEvent]
  BY <1>4, <1>5, Zenon
<1> HIDE DEF N
<1>7. EventsOf(u, moved) \in Seq(OurEvent) /\ Len(EventsOf(u, moved)) = N
  BY <1>2, <1>6, SMT
<1>8. QED BY <1>7 DEF N

LEMMA UpdateFields ==
    ASSUME NEW u \in Update
    PROVE  u.offset \in Nat /\ u.offset < AuFrames /\ u.positions \in [Objects -> Positions]
<1>1. u.offset \in 0..(AuFrames - 1) /\ u.positions \in [Objects -> Positions]
  BY Zenon DEF Update
<1>2. QED BY <1>1, SMT DEF AuFrames

LEMMA MarkedType ==
    ASSUME NEW us \in Seq(Update)
    PROVE  Marked(us) \in Seq(MarkedUpdate)
<1> DEFINE D == 1..Len(us)
           was(u) == IF u = 1 THEN stated ELSE us[u - 1].positions
           M(u) == [offset |-> us[u].offset, positions |-> us[u].positions,
                    changed |-> {e \in Objects : was(u)[e] # us[u].positions[e]}]
<1>1. Len(us) \in Nat /\ DOMAIN us = D /\ \A u \in D : us[u] \in Update
  BY SMT
<1>2. ASSUME NEW u \in D PROVE M(u) \in MarkedUpdate
  <2>1. us[u] \in Update
    BY <1>1, Zenon
  <2>2. us[u].offset \in Nat /\ us[u].positions \in [Objects -> Positions]
    BY <2>1, UpdateFields
  <2>3. {e \in Objects : was(u)[e] # us[u].positions[e]} \in SUBSET Objects
    BY Zenon
  <2>4. QED BY <2>2, <2>3, Zenon DEF MarkedUpdate
<1>3. Marked(us) = [u \in D |-> M(u)]
  BY <1>1, Zenon DEF Marked
<1> HIDE DEF M
<1>4. Marked(us) \in [1..Len(us) -> MarkedUpdate]
  BY <1>2, <1>3, Zenon
<1>5. QED BY <1>1, <1>4, SMT

LEMMA UpdateChanged ==
    ASSUME NEW x \in MarkedUpdate
    PROVE  /\ \A q \in [Objects -> Positions] : [x EXCEPT !.positions = q] \in MarkedUpdate
           /\ \A t \in Nat : [x EXCEPT !.offset = t] \in MarkedUpdate
           /\ \A c \in SUBSET Objects : [x EXCEPT !.changed = c] \in MarkedUpdate
<1>1. /\ x.offset \in Nat /\ x.changed \in SUBSET Objects
      /\ x.positions \in [Objects -> Positions]
  BY Zenon DEF MarkedUpdate
<1>2. ASSUME NEW q \in [Objects -> Positions] PROVE [x EXCEPT !.positions = q] \in MarkedUpdate
  <2>1. PICK a : a = [x EXCEPT !.positions = q]
    OBVIOUS
  <2>2. a = [offset |-> x.offset, positions |-> q, changed |-> x.changed]
    BY <2>1, Zenon DEF MarkedUpdate
  <2>3. QED BY <1>1, <2>1, <2>2, Zenon DEF MarkedUpdate
<1>3. ASSUME NEW t \in Nat PROVE [x EXCEPT !.offset = t] \in MarkedUpdate
  <2>1. PICK a : a = [x EXCEPT !.offset = t]
    OBVIOUS
  <2>2. a = [offset |-> t, positions |-> x.positions, changed |-> x.changed]
    BY <2>1, Zenon DEF MarkedUpdate
  <2>3. QED BY <1>1, <2>1, <2>2, Zenon DEF MarkedUpdate
<1>4. ASSUME NEW c \in SUBSET Objects PROVE [x EXCEPT !.changed = c] \in MarkedUpdate
  <2>1. PICK a : a = [x EXCEPT !.changed = c]
    OBVIOUS
  <2>2. a = [offset |-> x.offset, positions |-> x.positions, changed |-> c]
    BY <2>1, Zenon DEF MarkedUpdate
  <2>3. QED BY <1>1, <2>1, <2>2, Zenon DEF MarkedUpdate
<1>5. QED BY <1>2, <1>3, <1>4

LEMMA GarbledType ==
    ASSUME NEW us \in Seq(MarkedUpdate), NEW g \in Garbled(us)
    PROVE  g \in Seq(MarkedUpdate)
<1>1. DOMAIN us = 1..Len(us)
  BY SMT
<1>2. ASSUME NEW u \in DOMAIN us, NEW x \in MarkedUpdate PROVE [us EXCEPT ![u] = x] \in Seq(MarkedUpdate)
  BY <1>1, ExceptSeq, Zenon
<1>3. ASSUME NEW u \in DOMAIN us
      PROVE  /\ us[u] = [offset |-> us[u].offset, positions |-> us[u].positions,
                         changed |-> us[u].changed]
             /\ us[u].offset \in Nat /\ us[u].positions \in [Objects -> Positions]
             /\ us[u].changed \in SUBSET Objects
  <2>1. us[u] \in MarkedUpdate
    BY <1>1, ElementOfSeq, Zenon
  <2>2. QED BY <2>1, SMT DEF MarkedUpdate
<1>4. CASE g = <<>>
  BY <1>4, EmptySeq
<1>5. ASSUME NEW u \in DOMAIN us, NEW e \in Objects, NEW p \in Positions,
             g = [us EXCEPT ![u].positions[e] = p]
      PROVE  g \in Seq(MarkedUpdate)
  <2>1. [us[u].positions EXCEPT ![e] = p] \in [Objects -> Positions]
    BY <1>3, Zenon
  <2>2. [us[u] EXCEPT !.positions[e] = p] \in MarkedUpdate
    <3>1. PICK q : q = [us[u].positions EXCEPT ![e] = p]
      OBVIOUS
    <3>2. [us[u] EXCEPT !.positions = q] \in MarkedUpdate
      <4>1. us[u] \in MarkedUpdate
        BY <1>1, ElementOfSeq, Zenon
      <4>2. QED BY <2>1, <3>1, <4>1, UpdateChanged, Zenon
    <3>3. [us[u] EXCEPT !.positions[e] = p] = [us[u] EXCEPT !.positions = q]
      BY <3>1
    <3>4. QED BY <3>2, <3>3, Zenon
  <2>3. g = [us EXCEPT ![u] = [us[u] EXCEPT !.positions[e] = p]]
    BY <1>5
  <2>4. QED BY <1>2, <2>2, <2>3, Zenon
<1>6. ASSUME NEW u \in DOMAIN us, g = [us EXCEPT ![u].offset = AuFrames]
      PROVE  g \in Seq(MarkedUpdate)
  <2>1. [us[u] EXCEPT !.offset = AuFrames] \in MarkedUpdate
    <3>1. AuFrames \in Nat
      BY SMT DEF AuFrames
    <3>2. us[u] \in MarkedUpdate
      BY <1>1, ElementOfSeq, Zenon
    <3>3. QED BY <3>1, <3>2, UpdateChanged, Zenon
  <2>2. g = [us EXCEPT ![u] = [us[u] EXCEPT !.offset = AuFrames]]
    BY <1>6
  <2>3. QED BY <1>2, <2>1, <2>2, Zenon
<1>7. ASSUME NEW u \in DOMAIN us, NEW c \in SUBSET Objects, g = [us EXCEPT ![u].changed = c]
      PROVE  g \in Seq(MarkedUpdate)
  <2>1. [us[u] EXCEPT !.changed = c] \in MarkedUpdate
    <3>1. us[u] \in MarkedUpdate
      BY <1>1, ElementOfSeq, Zenon
    <3>2. QED BY <3>1, UpdateChanged, Zenon
  <2>2. g = [us EXCEPT ![u] = [us[u] EXCEPT !.changed = c]]
    BY <1>7
  <2>3. QED BY <1>2, <2>1, <2>2, Zenon
<1> DEFINE A == {[us EXCEPT ![u].positions[e] = p] : u \in DOMAIN us, e \in Objects, p \in Positions}
           B == {[us EXCEPT ![u].offset = AuFrames] : u \in DOMAIN us}
           C == {[us EXCEPT ![u].changed = c] : u \in DOMAIN us, c \in SUBSET Objects}
<1>8. Garbled(us) = {<<>>} \cup A \cup B \cup C
  BY DEF Garbled
<1>9. g \in A => g \in Seq(MarkedUpdate)
  BY <1>5
<1>10. g \in B => g \in Seq(MarkedUpdate)
  BY <1>6
<1>11. g \in C => g \in Seq(MarkedUpdate)
  BY <1>7
<1> HIDE DEF A, B, C
<1>12. QED BY <1>4, <1>8, <1>9, <1>10, <1>11, Zenon

\* Only these touch metadata; nothing undoes a failure.
LEMMA MetaSame ==
    ASSUME Next
    PROVE  \/ \E n \in AuIndices : PullA(n)
           \/ TakeUpdate
           \/ UpdatesTaken
           \/ UNCHANGED <<updates, target, ours, shown, stated>> /\ (failed => failed')
<1> DEFINE Same == UNCHANGED <<updates, target, ours, shown, stated>>
           Q == Same /\ (failed => failed')
<1>1. ASSUME \/ \E length \in ChunkLengths : LoadChunk(length)
             \/ \E n \in 1..MaxAus : LoadPacket(n)
      PROVE Same /\ failed' = failed
  BY <1>1, Zenon DEF LoadChunk, LoadPacket, metaVars
<1>2. StartPassA \/ PushA \/ PulledDryA \/ MatchBed \/ MatchEvent => Same /\ failed' = failed
  BY Zenon DEF StartPassA, PushA, PulledDryA, MatchBed, MatchEvent, metaVars
<1>3. NoPassB \/ StartPassB \/ PushB \/ PulledDryB => Same /\ failed' = failed
  BY Zenon DEF NoPassB, StartPassB, PushB, PulledDryB, metaVars
<1>4. FinishPassA \/ FinishMatch \/ FinishPassB => Q
  BY Zenon DEF FinishPassA, FinishMatch, FinishPassB, metaVars
<1>5. ASSUME NEW b, Judge(b) PROVE failed => failed'
  BY <1>5, Zenon DEF Judge, Lost, JudgeBefore, JudgeAfter
<1>6. ASSUME NEW n \in AuIndices, PullB(n) PROVE Q
  BY <1>5, <1>6, Zenon DEF PullB, metaVars
<1>7. ASSUME \E b \in AnyBlock : PullFaultyB(b) PROVE Q
  BY <1>5, <1>7, Zenon DEF PullFaultyB, metaVars
<1>8. Same /\ failed' = failed => Q
  OBVIOUS
<1>9. PushRefused \/ PullFails => Q
  BY Refused, Zenon
<1> HIDE DEF Same, Q
<1>10. \/ \E n \in AuIndices : PullA(n)
      \/ TakeUpdate
      \/ UpdatesTaken
      \/ Q
  BY <1>1, <1>2, <1>3, <1>4, <1>6, <1>7, <1>8, <1>9, Zenon DEF Next
<1>11. QED BY <1>10 DEF Same, Q

LEMMA MetaStart == Init => Meta
<1> SUFFICES ASSUME Init PROVE Meta
  OBVIOUS
<1>1. /\ updates = Silent /\ ours = <<>> /\ target = [e \in Objects |-> Nowhere]
      /\ shown = target /\ stated = target
  BY Zenon DEF Init
<1>2. Silent \in [pending : Seq(MarkedUpdate), position : Nat, frames : Nat]
  BY SMT DEF Silent
<1>3. QED BY <1>1, <1>2, EmptySeq, Zenon DEF Meta, Places

LEMMA MetaKept ==
    ASSUME Given, Cutting, Place, Meta, Next
    PROVE  Meta'
<1>1. ASSUME NEW n \in AuIndices, PullA(n) PROVE Meta'
  <2> DEFINE due == Marked(stream.aus[n].updates)
  <2>1. PICK us \in {due} \cup (IF options.faulty = "metadata" THEN Garbled(due) ELSE {}) :
            updates' = [pending |-> us, position |-> dec.frames, frames |-> Frames(n)]
    BY <1>1, Zenon DEF PullA
  <2>2. due \in Seq(MarkedUpdate)
    BY AuFields, MarkedType
  <2>3. us \in Seq(MarkedUpdate)
    <3> HIDE DEF due
    <3>1. us = due \/ us \in Garbled(due)
      BY <2>1, Zenon
    <3>2. QED BY <2>2, <3>1, GarbledType
  <2>4. dec.frames \in Nat /\ Frames(n) \in Nat
    BY FramesType, SMT DEF Place, Decoder
  <2>5. updates' \in [pending : Seq(MarkedUpdate), position : Nat, frames : Nat]
    BY <2>1, <2>3, <2>4, Zenon
  <2>6. UNCHANGED <<target, ours, shown, stated, failed>>
    BY <1>1, Zenon DEF PullA
  <2>7. QED BY <2>5, <2>6, Zenon DEF Meta
<1>2. CASE TakeUpdate
  <2> DEFINE u == Head(updates.pending)
  <2>1. /\ updates.pending # <<>>
        /\ failed' = (failed \/ u.offset >= updates.frames \/ ~(Moved(u) \subseteq u.changed))
        /\ ours' = ours \o EventsOf(u, Moved(u))
        /\ target' = [e \in Objects |-> IF e \in Moved(u) THEN u.positions[e] ELSE target[e]]
        /\ shown' = [e \in Objects |-> IF e \in u.changed THEN u.positions[e] ELSE shown[e]]
        /\ stated' = u.positions
        /\ updates' = [updates EXCEPT !.pending = Tail(updates.pending)]
    BY <1>2, Zenon DEF TakeUpdate
  <2>2. updates.pending \in Seq(MarkedUpdate) /\ updates.position \in Nat
    BY SMT DEF Meta
  <2>3. u \in MarkedUpdate /\ Tail(updates.pending) \in Seq(MarkedUpdate)
    BY <2>1, <2>2, HeadTailProperties
  <2> HIDE DEF u
  <2>4. u.positions \in [Objects -> Positions] /\ u.changed \in SUBSET Objects
    BY <2>3, SMT DEF MarkedUpdate
  <2>5. updates' \in [pending : Seq(MarkedUpdate), position : Nat, frames : Nat]
    BY <2>1, <2>2, <2>3, Zenon DEF Meta
  <2>6. ours' \in Seq(OurEvent)
    <3>1. Moved(u) \in SUBSET Objects
      BY Zenon DEF Moved
    <3>2. EventsOf(u, Moved(u)) \in Seq(OurEvent) /\ ours \in Seq(OurEvent)
      BY <2>2, <2>3, <3>1, EventsType, Zenon DEF Meta
    <3>3. QED BY <2>1, <3>2, ConcatProperties, Zenon
  <2>7. target' = u.positions
    <3>1. \A e \in Objects : target'[e] = u.positions[e]
      BY <2>1, Zenon DEF Moved
    <3>2. target' = [e \in Objects |-> target'[e]] /\ u.positions = [e \in Objects |-> u.positions[e]]
      BY <2>1, <2>4, Zenon
    <3>3. QED BY <3>1, <3>2, Zenon
  <2>8. ~failed' => shown' = u.positions
    <3>1. ASSUME ~failed', NEW e \in Objects PROVE shown'[e] = u.positions[e]
      <4>1. shown = target /\ (e \in Moved(u) => e \in u.changed)
        BY <2>1, <3>1, Zenon DEF Meta
      <4>2. QED BY <2>1, <4>1, Zenon DEF Moved
    <3>2. shown' = [e \in Objects |-> shown'[e]] /\ u.positions = [e \in Objects |-> u.positions[e]]
      BY <2>1, <2>4, Zenon
    <3>3. QED BY <3>1, <3>2, Zenon
  <2>9. shown' \in [Objects -> Places] /\ u.positions \in [Objects -> Places]
    BY <2>1, <2>4, Zenon DEF Meta, Places
  <2>10. QED BY <2>1, <2>5, <2>6, <2>7, <2>8, <2>9, Zenon DEF Meta
<1>3. CASE UpdatesTaken
  <2>1. updates' = Silent /\ UNCHANGED <<target, ours, shown, stated, failed>>
    BY <1>3, Zenon DEF UpdatesTaken
  <2>2. Silent \in [pending : Seq(MarkedUpdate), position : Nat, frames : Nat]
    BY SMT DEF Silent
  <2>3. QED BY <2>1, <2>2, Zenon DEF Meta
<1>4. CASE UNCHANGED <<updates, target, ours, shown, stated>> /\ (failed => failed')
  BY <1>4, Zenon DEF Meta
<1>5. QED BY <1>1, <1>2, <1>3, <1>4, MetaSame

-----------------------------------------------------------------------------
(* The reference's events, and the search of ours for them.                *)

CliStep(f) ==
    [n \in 0..Len(stream.events) |->
        IF n = 0 THEN <<>>
        ELSE IF stream.events[n].position = Nowhere THEN f[n - 1]
        ELSE Append(f[n - 1], stream.events[n])]

LEMMA CliChosen == CliEvents = (CHOOSE f : f = CliStep(f))[Len(stream.events)]
  BY Zenon DEF CliEvents, KeptEvents, CliStep

LEMMA CliType ==
    ASSUME Given
    PROVE  CliEvents \in Seq(Event) /\ Len(CliEvents) \in Nat
<1> DEFINE L == Len(stream.events)
           Next1(s, n) == IF stream.events[n].position = Nowhere THEN s
                          ELSE Append(s, stream.events[n])
           Good(m) == \E f \in [0..m -> Seq(Event)] :
                          \A n \in 0..m : f[n] = IF n = 0 THEN <<>> ELSE Next1(f[n - 1], n)
           c == CHOOSE f : f = CliStep(f)
<1>1. stream.events \in Seq(Event) /\ L \in Nat
  BY StreamShape, SMT DEF Stream
<1>2. ASSUME NEW s \in Seq(Event), NEW n \in 1..L PROVE Next1(s, n) \in Seq(Event)
  <2>1. stream.events[n] \in Event
    BY <1>1, ElementOfSeq
  <2>2. QED BY <2>1, AppendProperties, Zenon
<1>3. <<>> \in Seq(Event)
  BY EmptySeq
<1> HIDE DEF L, Next1
<1>4. Good(0)
  <2>1. 0..0 = {0}
    BY SMT
  <2>2. [n \in 0..0 |-> <<>>] \in [0..0 -> Seq(Event)]
    BY <1>3, Zenon
  <2>3. \A n \in 0..0 : [x \in 0..0 |-> <<>>][n] = IF n = 0 THEN <<>>
            ELSE Next1([x \in 0..0 |-> <<>>][n - 1], n)
    BY <2>1, Zenon
  <2>4. QED BY <2>2, <2>3, Zenon
<1>5. ASSUME NEW m \in 1..L, Good(m - 1) PROVE Good(m)
  <2>1. m \in Nat /\ m # 0 /\ m - 1 \in Nat /\ m - 1 \in 0..(m - 1) /\ ~(m <= m - 1)
    BY <1>1, SMT
  <2>2. PICK f \in [0..(m - 1) -> Seq(Event)] :
            \A n \in 0..(m - 1) : f[n] = IF n = 0 THEN <<>> ELSE Next1(f[n - 1], n)
    BY <1>5, Zenon
  <2> DEFINE g == [n \in 0..m |-> IF n <= m - 1 THEN f[n] ELSE Next1(f[m - 1], m)]
  <2>3. ASSUME NEW n \in 0..m
        PROVE  /\ n <= m - 1 => n \in 0..(m - 1) /\ (n # 0 => n - 1 \in 0..m /\ n - 1 <= m - 1)
               /\ ~(n <= m - 1) => n = m /\ n - 1 \in 0..m /\ n - 1 <= m - 1
    BY <2>1, SMT
  <2>4. g \in [0..m -> Seq(Event)]
    <3>1. f[m - 1] \in Seq(Event)
      BY <2>1, Zenon
    <3>2. Next1(f[m - 1], m) \in Seq(Event)
      BY <1>2, <3>1
    <3>3. QED BY <2>3, <3>2, Zenon
  <2>5. ASSUME NEW n \in 0..m PROVE g[n] = IF n = 0 THEN <<>> ELSE Next1(g[n - 1], n)
    <3>1. CASE n <= m - 1
      <4>1. g[n] = f[n]
        BY <3>1, Zenon
      <4>2. n # 0 => g[n - 1] = f[n - 1]
        BY <2>3, <3>1, Zenon
      <4>3. QED BY <2>2, <2>3, <3>1, <4>1, <4>2, Zenon
    <3>2. CASE ~(n <= m - 1)
      <4>1. n = m /\ n # 0 /\ g[n] = Next1(f[m - 1], m)
        BY <2>1, <2>3, <3>2, Zenon
      <4>2. g[n - 1] = f[m - 1]
        BY <2>3, <3>2, Zenon
      <4>3. QED BY <4>1, <4>2, Zenon
    <3>3. QED BY <3>1, <3>2
  <2>6. QED BY <2>4, <2>5, Zenon
<1>6. Good(L)
  <2> HIDE DEF Good
  <2> DEFINE T == {m \in 0..L : ~Good(m)}
  <2>1. ASSUME T # {} PROVE FALSE
    <3>1. T \subseteq Nat
      BY <1>1, SMT
    <3>2. PICK m \in T : \A y \in T : m <= y
      BY <2>1, <3>1, LeastNumber, Zenon
    <3>3. m \in 0..L /\ ~Good(m)
      BY <3>2, Zenon
    <3>4. m # 0
      BY <1>4, <3>3, Zenon
    <3>5. m \in 1..L /\ m - 1 \in 0..L /\ ~(m <= m - 1)
      BY <1>1, <3>3, <3>4, SMT
    <3>6. Good(m - 1)
      BY <3>2, <3>5, Zenon
    <3>7. QED BY <1>5, <3>3, <3>5, <3>6
  <2>2. L \in 0..L
    BY <1>1, SMT
  <2>3. QED BY <2>1, <2>2, Zenon
<1>7. PICK f \in [0..L -> Seq(Event)] :
          \A n \in 0..L : f[n] = IF n = 0 THEN <<>> ELSE Next1(f[n - 1], n)
  BY <1>6, Zenon
<1>8. f = CliStep(f)
  <2>1. f = [n \in 0..L |-> IF n = 0 THEN <<>> ELSE Next1(f[n - 1], n)]
    BY <1>7, Zenon
  <2>2. QED BY <2>1, Zenon DEF CliStep, L, Next1
<1>9. c = CliStep(c)
  BY <1>8, Zenon
<1>10. \A n \in 0..L : c[n] = IF n = 0 THEN <<>> ELSE Next1(c[n - 1], n)
  <2> HIDE DEF c
  <2>1. c = [n \in 0..L |-> IF n = 0 THEN <<>> ELSE Next1(c[n - 1], n)]
    BY <1>9, Zenon DEF CliStep, L, Next1
  <2>2. QED BY <2>1, Zenon
<1> DEFINE U == {n \in 0..L : c[n] \notin Seq(Event)}
<1>11. ASSUME U # {} PROVE FALSE
  <2> HIDE DEF c
  <2>1. U \subseteq Nat
    BY <1>1, SMT
  <2>2. PICK n \in U : \A y \in U : n <= y
    BY <1>11, <2>1, LeastNumber, Zenon
  <2>3. n \in 0..L /\ c[n] \notin Seq(Event)
    BY <2>2, Zenon
  <2>4. n # 0
    BY <1>3, <1>10, <2>3, Zenon
  <2>5. n \in 1..L /\ n - 1 \in 0..L /\ ~(n <= n - 1)
    BY <1>1, <2>3, <2>4, SMT
  <2>6. c[n - 1] \in Seq(Event)
    BY <2>2, <2>5, Zenon
  <2>7. QED BY <1>2, <1>10, <2>3, <2>4, <2>5, <2>6
<1>12. L \in 0..L
  BY <1>1, SMT
<1>13. c[L] \in Seq(Event)
  BY <1>11, <1>12, Zenon
<1>14. CliEvents = c[L]
  BY CliChosen, Zenon DEF L
<1>15. QED BY <1>13, <1>14, LenProperties, Zenon

Cursor == i \in 1..(Len(CliEvents) + 1) /\ j \in 1..(Len(ours) + 1)

\* Of the numbers from a on, the first that is in S or beyond b.
LEMMA FirstIn ==
    ASSUME NEW a \in Nat, NEW b \in Nat, a <= b + 1, NEW S
    PROVE  \E m \in a..(b + 1) : (\A n \in a..(m - 1) : n \notin S) /\ (m <= b => m \in S)
<1> DEFINE T == {m \in a..(b + 1) : m <= b => m \in S}
<1>1. T \subseteq Nat
  BY SMT
<1>2. b + 1 \in T
  BY SMT
<1>3. PICK m \in T : \A y \in T : m <= y
  BY <1>1, <1>2, LeastNumber, Zenon
<1>4. m \in a..(b + 1) /\ (m <= b => m \in S)
  BY <1>3, Zenon
<1>5. ASSUME NEW n \in a..(m - 1) PROVE n \notin S
  <2>1. n \in a..(b + 1) /\ ~(m <= n)
    BY <1>4, SMT
  <2>2. n \notin T
    BY <1>3, <2>1, Zenon
  <2>3. QED BY <2>1, <2>2, Zenon
<1>6. QED BY <1>4, <1>5, Zenon

LEMMA SkippedToType ==
    ASSUME Meta, Cursor, NEW c
    PROVE  /\ SkippedTo(c) \in j..(Len(ours) + 1) /\ SkippedTo(c) \in 1..(Len(ours) + 1)
           /\ \A n \in j..(SkippedTo(c) - 1) : Passed(ours[n], c)
<1> DEFINE S == {n \in Nat : ~Passed(ours[n], c)}
<1>1. Len(ours) \in Nat
  BY LenProperties, Zenon DEF Meta
<1>2. j \in Nat /\ 1 <= j /\ j <= Len(ours) + 1
  BY <1>1, SMT DEF Cursor
<1>3. PICK m \in j..(Len(ours) + 1) : (\A n \in j..(m - 1) : n \notin S) /\ (m <= Len(ours) => m \in S)
  BY <1>1, <1>2, FirstIn
<1>4. \A n \in j..(m - 1) : n \in Nat
  BY <1>1, <1>2, SMT
<1>5. (\A n \in j..(m - 1) : Passed(ours[n], c)) /\ (m <= Len(ours) => ~Passed(ours[m], c))
  BY <1>3, <1>4, Zenon
<1>6. /\ SkippedTo(c) \in j..(Len(ours) + 1)
      /\ \A n \in j..(SkippedTo(c) - 1) : Passed(ours[n], c)
  BY <1>5, Zenon DEF SkippedTo
<1>7. SkippedTo(c) \in 1..(Len(ours) + 1)
  BY <1>1, <1>2, <1>6, SMT
<1>8. QED BY <1>6, <1>7

LEMMA BeyondType ==
    ASSUME Meta, NEW c \in Event, NEW from \in 1..(Len(ours) + 1)
    PROVE  /\ Beyond(c, from) \in from..(Len(ours) + 1)
           /\ Beyond(c, from) <= Len(ours) => ours[Beyond(c, from)].time > c.time + Window
<1> DEFINE S == {n \in Nat : ~(ours[n].time <= c.time + Window)}
<1>1. Len(ours) \in Nat
  BY LenProperties, Zenon DEF Meta
<1>2. from \in Nat /\ 1 <= from /\ from <= Len(ours) + 1
  BY <1>1, SMT
<1>3. PICK m \in from..(Len(ours) + 1) :
          (\A n \in from..(m - 1) : n \notin S) /\ (m <= Len(ours) => m \in S)
  BY <1>1, <1>2, FirstIn
<1>4. \A n \in from..(m - 1) : n \in Nat
  BY <1>1, <1>2, SMT
<1>5. \A n \in from..(m - 1) : ours[n].time <= c.time + Window
  BY <1>3, <1>4, Zenon
<1>6. ASSUME m <= Len(ours) PROVE ours[m].time > c.time + Window
  <2>1. ~(ours[m].time <= c.time + Window)
    BY <1>3, <1>6, Zenon
  <2>2. m \in 1..Len(ours)
    BY <1>1, <1>2, <1>3, <1>6, SMT
  <2>3. ours[m] \in OurEvent
    BY <2>2, ElementOfSeq, Zenon DEF Meta
  <2>4. ours[m].time \in Nat
    BY <2>3, Zenon DEF OurEvent
  <2>5. c.time \in Nat
    BY Zenon DEF Event
  <2>6. QED BY <2>1, <2>4, <2>5, SMT DEF Window
<1>7. QED BY <1>3, <1>5, <1>6, Zenon DEF Beyond

\* Only these move in the events.
LEMMA CursorSame ==
    ASSUME Next
    PROVE  \/ TakeUpdate \/ FinishPassA \/ MatchBed \/ MatchEvent
           \/ UNCHANGED <<i, j, unmatched, ours>>
<1> DEFINE Q == UNCHANGED <<i, j, unmatched, ours>>
<1>1. (\E length \in ChunkLengths : LoadChunk(length)) \/ (\E n \in 1..MaxAus : LoadPacket(n)) => Q
  BY Zenon DEF LoadChunk, LoadPacket, metaVars, matchVars
<1>2. StartPassA \/ PushA \/ PulledDryA \/ UpdatesTaken => Q
  BY Zenon DEF StartPassA, PushA, PulledDryA, UpdatesTaken, metaVars, matchVars
<1>3. FinishMatch \/ NoPassB \/ StartPassB \/ PushB \/ PulledDryB \/ FinishPassB => Q
  BY Zenon DEF FinishMatch, NoPassB, StartPassB, PushB, PulledDryB, FinishPassB, metaVars,
     matchVars
<1>4. (\E n \in AuIndices : PullA(n)) => Q
  BY Zenon DEF PullA, matchVars
<1>5. (\E n \in AuIndices : PullB(n)) \/ (\E b \in AnyBlock : PullFaultyB(b)) => Q
  BY Zenon DEF PullB, PullFaultyB, metaVars, matchVars
<1>6. PushRefused \/ PullFails => Q
  BY Refused, Zenon
<1>7. QED BY <1>1, <1>2, <1>3, <1>4, <1>5, <1>6, Zenon DEF Next

LEMMA CursorStart == Given /\ Init => Cursor
<1> SUFFICES ASSUME Given, Init PROVE Cursor
  OBVIOUS
<1>1. i = 1 /\ j = 1 /\ ours = <<>>
  BY Zenon DEF Init
<1>2. Len(CliEvents) \in Nat
  BY CliType
<1>3. QED BY <1>1, <1>2, SMT DEF Cursor

LEMMA CursorKept ==
    ASSUME Given, Meta, Cursor, Next
    PROVE  Cursor'
<1>1. CliEvents' = CliEvents /\ Len(CliEvents) \in Nat /\ Len(ours) \in Nat
  <2>1. CliEvents' = CliEvents
    <3>1. stream' = stream
      BY SourceKept
    <3>2. QED BY <3>1, Zenon DEF CliEvents
  <2>2. QED BY <2>1, CliType, LenProperties, Zenon DEF Meta
<1>2. CASE TakeUpdate
  <2> DEFINE u == Head(updates.pending)
             more == EventsOf(u, Moved(u))
  <2>1. updates.pending # <<>> /\ ours' = ours \o more /\ UNCHANGED <<i, j>>
    BY <1>2, Zenon DEF TakeUpdate, matchVars
  <2>2. updates.pending \in Seq(MarkedUpdate) /\ updates.position \in Nat
    BY SMT DEF Meta
  <2>3. u \in MarkedUpdate
    BY <2>1, <2>2, HeadTailProperties
  <2>4. Moved(u) \in SUBSET Objects
    BY Zenon DEF Moved
  <2>5. more \in Seq(OurEvent)
    BY <2>2, <2>3, <2>4, EventsType
  <2> HIDE DEF more
  <2>6. Len(more) \in Nat /\ Len(ours') = Len(ours) + Len(more)
    BY <2>1, <2>5, ConcatProperties, LenProperties, Zenon DEF Meta
  <2>7. QED BY <1>1, <2>1, <2>6, SMT DEF Cursor
<1>3. CASE FinishPassA
  <2>1. i' = 1 /\ j' = 1 /\ ours' = ours
    BY <1>3, Zenon DEF FinishPassA, metaVars
  <2>2. QED BY <1>1, <2>1, SMT DEF Cursor
<1>4. CASE MatchBed
  <2>1. i <= Len(CliEvents) /\ i' = i + 1 /\ j' = j /\ ours' = ours
    BY <1>4, Zenon DEF MatchBed, metaVars
  <2>2. QED BY <1>1, <2>1, SMT DEF Cursor
<1>5. CASE MatchEvent
  <2>1. i <= Len(CliEvents) /\ i' = i + 1 /\ j' = SkippedTo(CliEvents[i]) /\ ours' = ours
    BY <1>5, Zenon DEF MatchEvent, metaVars
  <2>2. SkippedTo(CliEvents[i]) \in 1..(Len(ours) + 1)
    BY SkippedToType
  <2>3. QED BY <1>1, <2>1, <2>2, SMT DEF Cursor
<1>6. CASE UNCHANGED <<i, j, unmatched, ours>>
  BY <1>1, <1>6, Zenon DEF Cursor
<1>7. QED BY <1>2, <1>3, <1>4, <1>5, <1>6, CursorSame

-----------------------------------------------------------------------------
(* Types, and the renderer.                                                *)

TInv == Given /\ Cutting /\ Place /\ Kept /\ Meta /\ Cursor

LEMMA TInvStart == Init => TInv
<1> SUFFICES ASSUME Init PROVE TInv
  OBVIOUS
<1>1. Given
  BY Zenon DEF Init, Given
<1>2. QED BY <1>1, CuttingStart, PlaceStart, KeptStart, MetaStart, CursorStart, Zenon DEF TInv

LEMMA TInvKept == TInv /\ [Next]_vars => TInv'
<1> SUFFICES ASSUME TInv, [Next]_vars PROVE TInv'
  OBVIOUS
<1>1. CASE Next
  BY <1>1, GivenKept, CuttingKept, PlaceKept, KeptKept, MetaKept, CursorKept, Zenon DEF TInv
<1>2. CASE UNCHANGED vars
  <2>1. UNCHANGED <<options, stream, input, phase, k, dec, map, cmp, updates, target, ours, shown,
                    stated, i, j, resume>>
    BY <1>2, Zenon DEF vars, fixedVars, passAVars, metaVars, matchVars, passBVars
  <2>2. UNCHANGED <<unmatched, resetDone, firstAfter, before, after, ordinalMismatch, afterBlocks,
                    failed, deviated>>
    BY <1>2, Zenon DEF vars, matchVars, passBVars
  <2>3. Given'
    BY <2>1, Zenon DEF TInv, Given
  <2>4. Cutting'
    BY <2>1, Zenon DEF TInv, Cutting, Consecutive, Loaded, Size
  <2>5. Place'
    BY <2>1, Zenon DEF TInv, Place, FedFrom, FirstFrom, AuIndices, Decoder, Packets
  <2>6. Flags'
    BY <2>2, Zenon DEF TInv, Kept, Flags
  <2>7. Kept'
    BY <2>1, <2>6, Zenon DEF TInv, Kept, Entry, Comparison, Packets
  <2>8. Meta'
    <3>1. failed' = failed
      BY <2>2
    <3>2. QED BY <2>1, <3>1, Zenon DEF TInv, Meta, MarkedUpdate, OurEvent, Places
  <2>9. Cursor'
    BY <2>1, Zenon DEF TInv, Cursor, CliEvents
  <2>10. QED BY <2>3, <2>4, <2>5, <2>7, <2>8, <2>9, Zenon DEF TInv
<1>3. QED BY <1>1, <1>2

LEMMA TInvAlways == Spec => []TInv
<1>1. Init => TInv
  BY TInvStart
<1>2. TInv /\ [Next]_vars => TInv'
  BY TInvKept
<1>3. QED BY <1>1, <1>2, PTL DEF Spec

LEMMA TInvTypes == TInv => TypeOK /\ RendererInStep
<1> SUFFICES ASSUME TInv PROVE TypeOK /\ RendererInStep
  OBVIOUS
<1>1. Given /\ Cutting /\ Place /\ Kept /\ Meta /\ Cursor
  BY DEF TInv
<1>2. options \in Options /\ stream = options.stream
  BY <1>1 DEF Given
<1>3. \A p \in Packets : PacketStart(p) < input[p] /\ input[p] <= Size
  BY <1>1, PacketEnds
<1>4. phase # "load" => Loaded = Size
  BY <1>1, Zenon DEF Cutting
<1>5. k \in 0..Len(input) /\ resume \in 1..(Len(input) + 1)
  <2>1. Len(input) \in Nat
    BY <1>1, LoadedType
  <2>2. resume = 1 \/ resume \in Packets
    BY <1>1, Zenon DEF Place
  <2>3. QED BY <1>1, <2>1, <2>2, SMT DEF Place, Packets
<1>6. phase # "load" => DOMAIN map = Packets
  BY <1>1, Zenon DEF Kept
<1>7. dec.upTo = IF k = 0 THEN 0 ELSE input[k]
  BY <1>1, Zenon DEF Place
<1>8. {cmp.mismatch, unmatched, resetDone, firstAfter, before, after, ordinalMismatch,
       afterBlocks, failed, deviated} \subseteq BOOLEAN
  <2>1. cmp.mismatch \in BOOLEAN
    BY <1>1, Zenon DEF Kept, Comparison
  <2>2. QED BY <1>1, <2>1, Zenon DEF Kept, Flags
<1>9. target \in [Objects -> Positions \cup {Nowhere}]
  BY <1>1, Zenon DEF Meta, Places
<1>10. i \in 1..(Len(CliEvents) + 1) /\ j \in 1..(Len(ours) + 1)
  BY <1>1, Zenon DEF Cursor
<1>11. TypeOK
  BY <1>2, <1>3, <1>4, <1>5, <1>6, <1>7, <1>8, <1>9, <1>10, Zenon DEF TypeOK
<1>12. RendererInStep
  BY <1>1, Zenon DEF Meta, RendererInStep
<1>13. QED BY <1>11, <1>12

\* However the stream is cut, whatever the decoder returns: every variable stays
\* in its type, and the packets are consecutive pieces that make the stream up.
THEOREM HarnessTypes == Spec => []TypeOK
<1>1. TInv => TypeOK
  BY TInvTypes
<1>2. QED BY <1>1, TInvAlways, PTL

\* Until something fails, a renderer that obeys the CHANGED marks (harness.c:494-512)
\* shows what the updates state, also when the decoder's metadata are wrong.
THEOREM RendererFollows == Spec => []RendererInStep
<1>1. TInv => RendererInStep
  BY TInvTypes
<1>2. QED BY <1>1, TInvAlways, PTL

-----------------------------------------------------------------------------
(* What the cursor over our events finds.                                  *)

Early == {"load", "push A", "pull A", "updates"}
Late  == {"seek", "push B", "pull B", "done"}

\* The events of the reference that a search of all of ours would not find.
Missing == {n \in ObjectEvents : ~HasOurs(CliEvents[n])}

\* What was skipped was too early for an event compared before.
SkippedPassed ==
    \A m \in 1..Len(ours) : m < j =>
        \E n \in ObjectEvents : n < i /\ Passed(ours[m], CliEvents[n])

Ordered == EventsInOrder /\ OursInOrder

Compared ==
    /\ phase \in Early => ~unmatched
    /\ phase = "match" => SkippedPassed
    /\ phase = "match" /\ Ordered => (unmatched <=> \E n \in Missing : n < i)
    /\ phase \in Late /\ options.refMetadata /\ Ordered => (unmatched <=> Missing # {})

LEMMA ListedTypes ==
    ASSUME Given, Meta
    PROVE  /\ Len(ours) \in Nat /\ \A x \in 1..Len(ours) : ours[x].time \in Nat
           /\ \A n \in ObjectEvents : CliEvents[n] \in Event /\ CliEvents[n].time \in Nat
                                      /\ CliEvents[n].id \in Nat /\ n \in 1..Len(CliEvents)
<1>1. Len(ours) \in Nat
  BY LenProperties, Zenon DEF Meta
<1>2. ASSUME NEW x \in 1..Len(ours) PROVE ours[x].time \in Nat
  <2>1. ours[x] \in OurEvent
    BY ElementOfSeq, Zenon DEF Meta
  <2>2. QED BY <2>1, Zenon DEF OurEvent
<1>3. ASSUME NEW n \in ObjectEvents
      PROVE  CliEvents[n] \in Event /\ CliEvents[n].time \in Nat
             /\ CliEvents[n].id \in Nat /\ n \in 1..Len(CliEvents)
  <2>1. n \in 1..Len(CliEvents)
    BY Zenon DEF ObjectEvents
  <2>2. CliEvents[n] \in Event
    BY <2>1, CliType, ElementOfSeq, Zenon
  <2>3. QED BY <2>1, <2>2, Zenon DEF Event
<1>4. QED BY <1>1, <1>2, <1>3

\* One of ours that an event needs is among those looked at for it. It was not
\* skipped for an earlier event, which is at most the window later, nor is it now;
\* and one too late for the event is later than it.
LEMMA MatchFound ==
    ASSUME Given, Meta, Cursor, Ordered, i \in ObjectEvents, SkippedPassed,
           NEW y \in 1..Len(ours), SameEvent(ours[y], CliEvents[i])
    PROVE  y \in SkippedTo(CliEvents[i])..(Beyond(CliEvents[i], SkippedTo(CliEvents[i])) - 1)
<1> DEFINE c == CliEvents[i]
           from == SkippedTo(c)
           b == Beyond(c, from)
           l == Len(ours)
           time(x) == ours[x].time
           t == time(y)
           w == c.time
<1>1. /\ l \in Nat /\ \A x \in 1..l : ours[x].time \in Nat
      /\ \A n \in ObjectEvents : CliEvents[n] \in Event /\ CliEvents[n].time \in Nat
                                 /\ CliEvents[n].id \in Nat
  BY ListedTypes, Zenon
<1>2. t \in Nat /\ w \in Nat /\ (t = w \/ t = w + BlockOffset)
  <2>1. t \in Nat /\ w \in Nat /\ t - w \in {0, BlockOffset}
    BY <1>1, Zenon DEF SameEvent
  <2> HIDE DEF t, w
  <2>2. QED BY <2>1, SMT DEF BlockOffset
<1>3. from \in j..(l + 1) /\ from \in 1..(l + 1) /\ (\A n \in j..(from - 1) : Passed(ours[n], c))
  BY SkippedToType
<1>4. b \in from..(l + 1) /\ (b <= l => time(b) > w + Window)
  <2>1. c \in Event
    BY <1>1
  <2>2. QED BY <1>3, <2>1, BeyondType
<1>5. j <= y
  <2>1. SUFFICES ASSUME y < j PROVE FALSE
    <3>1. j \in Int /\ y \in Int
      <4>1. j \in 1..(l + 1)
        BY Zenon DEF Cursor
      <4> HIDE DEF l
      <4>2. QED BY <1>1, <4>1, SMT
    <3>2. QED BY <3>1, SMT
  <2>2. PICK n \in ObjectEvents : n < i /\ Passed(ours[y], CliEvents[n])
    BY <2>1, Zenon DEF SkippedPassed
  <2> DEFINE s == CliEvents[n].time
  <2>3. s <= w + Window
    BY <2>2, Zenon DEF Ordered, EventsInOrder
  <2>4. t + Window < s /\ s \in Nat
    BY <1>1, <2>2 DEF Passed
  <2> HIDE DEF s, w, t
  <2>5. QED BY <1>2, <2>3, <2>4, SMT DEF Window, BlockOffset
<1>6. from <= y
  <2>1. SUFFICES ASSUME ~(from <= y) PROVE FALSE
    OBVIOUS
  <2>2. y \in j..(from - 1)
    <3>1. j \in 1..(l + 1)
      BY Zenon DEF Cursor
    <3> HIDE DEF from, l
    <3>2. QED BY <1>1, <1>3, <1>5, <2>1, <3>1, SMT
  <2>3. t + Window < w
    BY <1>3, <2>2 DEF Passed
  <2> HIDE DEF t, w
  <2>4. QED BY <1>2, <2>3, SMT DEF Window, BlockOffset
<1>7. y < b
  <2>1. SUFFICES ASSUME ~(y < b) PROVE FALSE
    OBVIOUS
  <2>2. b \in 1..l /\ b <= l /\ (b < y \/ b = y)
    <3>1. b \in from..(l + 1) /\ from \in 1..(l + 1) /\ l \in Nat /\ y \in 1..l
      BY <1>1, <1>3, <1>4
    <3> HIDE DEF from, l, b
    <3>2. QED BY <2>1, <3>1, SMT
  <2> DEFINE s == time(b)
  <2>3. s \in Nat /\ s > w + Window
    BY <1>1, <1>4, <2>2
  <2>4. s <= t + (Window - BlockOffset)
    <3>1. CASE b < y
      BY <2>2, <3>1, Zenon DEF Ordered, OursInOrder
    <3>2. CASE b = y
      <4>1. s = t
        BY <3>2
      <4> HIDE DEF s, t
      <4>2. QED BY <1>2, <4>1, SMT DEF Window, BlockOffset
    <3>3. QED BY <2>2, <3>1, <3>2
  <2> HIDE DEF s, t, w
  <2>5. QED BY <1>2, <2>3, <2>4, SMT DEF Window, BlockOffset
<1>8. y \in from..(b - 1)
  <2> HIDE DEF from, l, b
  <2>1. QED BY <1>1, <1>3, <1>4, <1>6, <1>7, SMT
<1>9. QED BY <1>8

\* Only these move between the parts of the comparison.
LEMMA LateSame ==
    ASSUME Next
    PROVE  \/ FinishPassA \/ MatchBed \/ MatchEvent \/ FinishMatch
           \/ phase' = "stopped"
           \/ phase \in Early /\ phase' \in Early /\ unmatched' = unmatched
           \/ phase \in Late /\ phase' \in Late /\ ours' = ours /\ unmatched' = unmatched
<1> DEFINE E == phase \in Early /\ phase' \in Early /\ unmatched' = unmatched
           L == phase \in Late /\ phase' \in Late /\ ours' = ours /\ unmatched' = unmatched
           S == phase' = "stopped"
<1>1. (\E length \in ChunkLengths : LoadChunk(length)) \/ (\E n \in 1..MaxAus : LoadPacket(n)) => E
  BY Zenon DEF LoadChunk, LoadPacket, Early, matchVars
<1>2. StartPassA \/ PushA \/ PulledDryA \/ TakeUpdate \/ UpdatesTaken => E
  BY Zenon DEF StartPassA, PushA, PulledDryA, TakeUpdate, UpdatesTaken, Early, matchVars
<1>3. (\E n \in AuIndices : PullA(n)) => E
  BY Zenon DEF PullA, Early, matchVars
<1>4. NoPassB \/ StartPassB \/ PushB \/ PulledDryB \/ FinishPassB => L
  BY Zenon DEF NoPassB, StartPassB, PushB, PulledDryB, FinishPassB, metaVars, matchVars, Late
<1>5. (\E n \in AuIndices : PullB(n)) => L
  BY Zenon DEF PullB, Seek, metaVars, matchVars, Late
<1>6. (\E b \in AnyBlock : PullFaultyB(b)) => L
  BY Zenon DEF PullFaultyB, metaVars, matchVars, Late
<1>7. PushRefused \/ PullFails => S
  BY Refused, Zenon
<1>8. QED
  <2> HIDE DEF E, L, S
  <2>1. FinishPassA \/ MatchBed \/ MatchEvent \/ FinishMatch \/ S \/ E \/ L
    BY <1>1, <1>2, <1>3, <1>4, <1>5, <1>6, <1>7, Zenon DEF Next
  <2>2. QED BY <2>1 DEF E, L, S

LEMMA ObjectEventsSame ==
    ASSUME stream' = stream, ours' = ours
    PROVE  /\ CliEvents' = CliEvents /\ ObjectEvents' = ObjectEvents
           /\ Missing' = Missing /\ (Ordered' <=> Ordered)
<1>1. CliEvents' = CliEvents
  BY Zenon DEF CliEvents
<1>2. ObjectEvents' = ObjectEvents
  BY <1>1, Zenon DEF ObjectEvents
<1>3. Missing' = Missing
  BY <1>1, <1>2, Zenon DEF Missing, HasOurs, SameEvent
<1>4. Ordered' <=> Ordered
  BY <1>1, <1>2, Zenon DEF Ordered, EventsInOrder, OursInOrder
<1>5. QED BY <1>1, <1>2, <1>3, <1>4

\* Nothing was skipped yet, or what was is still too early for an event compared.
LEMMA SkippedKept ==
    ASSUME TInv, MatchBed \/ MatchEvent, SkippedPassed, stream' = stream
    PROVE  SkippedPassed'
<1>1. Given /\ Meta /\ Cursor
  BY Zenon DEF TInv
<1>2. i' = i + 1 /\ ours' = ours /\ i <= Len(CliEvents)
  BY Zenon DEF MatchBed, MatchEvent, metaVars
<1>3. ObjectEvents' = ObjectEvents /\ CliEvents' = CliEvents
  BY <1>2, ObjectEventsSame
<1>4. i \in Nat /\ i \in 1..Len(CliEvents) /\ \A n \in ObjectEvents : n \in Nat
  <2>1. i \in 1..(Len(CliEvents) + 1) /\ Len(CliEvents) \in Nat
    BY <1>1, CliType, Zenon DEF Cursor
  <2>2. ObjectEvents \subseteq 1..Len(CliEvents)
    BY Zenon DEF ObjectEvents
  <2>3. QED BY <1>2, <2>1, <2>2, SMT
<1>5. ASSUME NEW m \in 1..Len(ours), m < j
      PROVE  \E n \in ObjectEvents : n < i + 1 /\ Passed(ours[m], CliEvents[n])
  <2>1. PICK n \in ObjectEvents : n < i /\ Passed(ours[m], CliEvents[n])
    BY <1>5, Zenon DEF SkippedPassed
  <2>2. n < i + 1
    BY <1>4, <2>1, SMT
  <2>3. QED BY <2>1, <2>2, Zenon
<1>6. CASE MatchBed
  <2>1. j' = j
    BY <1>6, Zenon DEF MatchBed
  <2>2. QED BY <1>2, <1>3, <1>5, <2>1, Zenon DEF SkippedPassed, Passed
<1>7. CASE MatchEvent
  <2> DEFINE c == CliEvents[i]
             from == SkippedTo(c)
  <2>1. c.id >= FirstObjectId /\ j' = from
    BY <1>7, Zenon DEF MatchEvent
  <2>2. i \in ObjectEvents
    BY <1>4, <2>1, Zenon DEF ObjectEvents
  <2>3. ASSUME NEW m \in 1..Len(ours), m < from
        PROVE  \E n \in ObjectEvents : n < i + 1 /\ Passed(ours[m], CliEvents[n])
    <3>1. CASE m < j
      BY <1>5, <3>1, Zenon
    <3>2. CASE ~(m < j)
      <4>1. /\ from \in j..(Len(ours) + 1) /\ j \in 1..(Len(ours) + 1) /\ Len(ours) \in Nat
            /\ \A n \in j..(from - 1) : Passed(ours[n], c)
        BY <1>1, SkippedToType, ListedTypes, Zenon DEF Cursor
      <4> DEFINE l == Len(ours)
      <4>2. m \in j..(from - 1)
        <5>1. from \in j..(l + 1) /\ j \in 1..(l + 1) /\ l \in Nat /\ m \in 1..l
          BY <4>1
        <5> HIDE DEF from, l
        <5>2. QED BY <2>3, <3>2, <5>1, SMT
      <4>3. Passed(ours[m], CliEvents[i])
        BY <4>1, <4>2
      <4>4. i < i + 1
        BY <1>4, SMT
      <4>5. QED BY <2>2, <4>3, <4>4, Zenon
    <3>3. QED BY <3>1, <3>2
  <2> HIDE DEF from
  <2>4. QED BY <1>2, <1>3, <2>1, <2>3, Zenon DEF SkippedPassed, Passed
<1>8. QED BY <1>6, <1>7

\* An event of an object is found where a search of all our events finds it.
LEMMA EventJudged ==
    ASSUME TInv, MatchEvent, SkippedPassed, Ordered
    PROVE  i \in ObjectEvents /\ (unmatched' <=> unmatched \/ i \in Missing)
<1> DEFINE c == CliEvents[i]
           from == SkippedTo(c)
           found == \E n \in from..(Beyond(c, from) - 1) : SameEvent(ours[n], c)
<1>1. /\ unmatched' = (unmatched \/ ~found) /\ i <= Len(CliEvents)
      /\ c.id >= FirstObjectId
  BY Zenon DEF MatchEvent
<1>2. Given /\ Meta /\ Cursor /\ unmatched \in BOOLEAN
  BY Zenon DEF TInv, Kept, Flags
<1>3. i \in 1..Len(CliEvents)
  <2>1. i \in 1..(Len(CliEvents) + 1) /\ Len(CliEvents) \in Nat
    BY <1>2, CliType, Zenon DEF Cursor
  <2>2. QED BY <1>1, <2>1, SMT
<1>4. i \in ObjectEvents
  BY <1>1, <1>3, Zenon DEF ObjectEvents
<1>5. c \in Event /\ Len(ours) \in Nat
  BY <1>2, <1>4, ListedTypes
<1>6. from \in 1..(Len(ours) + 1)
  BY <1>2, SkippedToType
<1>7. Beyond(c, from) \in from..(Len(ours) + 1)
  BY <1>2, <1>5, <1>6, BeyondType
<1>8. ASSUME NEW n \in from..(Beyond(c, from) - 1), SameEvent(ours[n], c) PROVE HasOurs(c)
  <2> DEFINE a == from
             b == Beyond(c, from)
  <2>1. a \in 1..(Len(ours) + 1) /\ b \in a..(Len(ours) + 1) /\ n \in a..(b - 1)
    BY <1>6, <1>7
  <2> HIDE DEF a, b, from
  <2>2. n \in 1..Len(ours)
    BY <1>5, <2>1, SMT
  <2>3. QED BY <1>8, <2>2, Zenon DEF HasOurs
<1>9. ASSUME HasOurs(c) PROVE found
  <2>1. PICK y \in 1..Len(ours) : SameEvent(ours[y], c)
    BY <1>9, Zenon DEF HasOurs
  <2>2. y \in from..(Beyond(c, from) - 1)
    BY <1>2, <1>4, <2>1, MatchFound
  <2>3. QED BY <2>1, <2>2
<1>10. found <=> HasOurs(c)
  BY <1>8, <1>9
<1>11. i \in Missing <=> ~HasOurs(c)
  BY <1>4, Zenon DEF Missing
<1> HIDE DEF found
<1>12. QED BY <1>1, <1>2, <1>4, <1>10, <1>11, Zenon

LEMMA ComparedKept ==
    ASSUME TInv, Compared, Next
    PROVE  Compared'
<1>1. /\ stream' = stream /\ options' = options /\ unmatched \in BOOLEAN
      /\ Len(CliEvents) \in Nat /\ i \in 1..(Len(CliEvents) + 1) /\ i \in Nat
  <2>1. Given /\ Meta /\ Cursor /\ stream' = stream /\ options' = options /\ unmatched \in BOOLEAN
    BY SourceKept, Zenon DEF TInv, Kept, Flags
  <2>2. Len(CliEvents) \in Nat
    BY <2>1, CliType
  <2>3. QED BY <2>1, <2>2, SMT DEF Cursor
<1>2. Missing \subseteq 1..Len(CliEvents) /\ Missing \subseteq ObjectEvents
  BY Zenon DEF Missing, ObjectEvents
<1>3. CASE FinishPassA
  <2>1. /\ phase = "push A" /\ i' = 1 /\ j' = 1 /\ ours' = ours /\ unmatched' = unmatched
        /\ phase' = (IF options.refMetadata THEN "match" ELSE "seek")
    <3>1. /\ phase = "push A" /\ i' = 1 /\ j' = 1
          /\ phase' = (IF options.refMetadata THEN "match" ELSE "seek")
      BY <1>3, Zenon DEF FinishPassA
    <3>2. ours' = ours /\ unmatched' = unmatched
      BY <1>3, Zenon DEF FinishPassA, metaVars
    <3>3. QED BY <3>1, <3>2
  <2>2. ~unmatched'
    BY <2>1, Zenon DEF Compared, Early
  <2>3. (\A n \in Missing : ~(n < i')) /\ \A m \in 1..Len(ours) : ~(m < j')
    <3>1. \A n \in 1..Len(CliEvents) : ~(n < 1)
      BY SMT
    <3>2. \A m \in 1..Len(ours) : ~(m < 1)
      BY SMT
    <3>3. QED BY <1>2, <2>1, <3>1, <3>2, Zenon
  <2>4. /\ phase' \notin Early /\ (phase' = "match" <=> options.refMetadata)
        /\ (phase' \in Late <=> ~options.refMetadata)
    BY <2>1, Zenon DEF Late, Early
  <2>5. SkippedPassed'
    BY <2>1, <2>3, Zenon DEF SkippedPassed
  <2>6. QED BY <1>1, <2>1, <2>2, <2>3, <2>4, <2>5, ObjectEventsSame, Zenon DEF Compared
<1>4. CASE MatchBed
  <2>1. /\ phase = "match" /\ phase' = phase /\ i' = i + 1 /\ ours' = ours /\ unmatched' = unmatched
        /\ CliEvents[i].id < FirstObjectId /\ i <= Len(CliEvents)
    BY <1>4, Zenon DEF MatchBed, metaVars, matchVars
  <2>2. SkippedPassed'
    BY <1>1, <1>4, <2>1, SkippedKept, Zenon DEF Compared
  <2>3. CliEvents[i].id \in Nat
    <3>1. i \in 1..Len(CliEvents) /\ CliEvents \in Seq(Event)
      <4>1. CliEvents \in Seq(Event)
        BY CliType, Zenon DEF TInv
      <4>2. QED BY <1>1, <2>1, <4>1, SMT
    <3>2. CliEvents[i] \in Event
      BY <3>1, ElementOfSeq
    <3>3. QED BY <3>2, Zenon DEF Event
  <2>4. ~(CliEvents[i].id >= FirstObjectId)
    BY <2>1, <2>3, SMT DEF FirstObjectId
  <2>5. i \notin Missing
    BY <1>2, <2>4, Zenon DEF ObjectEvents
  <2>6. \A n \in Missing : n < i' <=> n < i
    BY <1>1, <1>2, <2>1, <2>5, SMT
  <2>7. phase' \notin Late /\ phase' \notin Early
    BY <2>1, Zenon DEF Late, Early
  <2>8. QED BY <1>1, <2>1, <2>2, <2>6, <2>7, ObjectEventsSame, Zenon DEF Compared
<1>5. CASE MatchEvent
  <2>1. phase = "match" /\ phase' = phase /\ i' = i + 1 /\ ours' = ours
    BY <1>5, Zenon DEF MatchEvent, metaVars
  <2>2. SkippedPassed /\ SkippedPassed'
    BY <1>1, <1>5, <2>1, SkippedKept, Zenon DEF Compared
  <2>3. \A n \in Missing : n < i' <=> n < i \/ n = i
    BY <1>1, <1>2, <2>1, SMT
  <2>4. phase' \notin Late /\ phase' \notin Early
    BY <2>1, Zenon DEF Late, Early
  <2>5. ASSUME Ordered PROVE unmatched' <=> \E n \in Missing : n < i'
    <3>1. unmatched' <=> unmatched \/ i \in Missing
      BY <1>5, <2>2, <2>5, EventJudged
    <3>2. unmatched <=> \E n \in Missing : n < i
      BY <2>1, <2>5, Zenon DEF Compared
    <3>3. QED BY <2>3, <3>1, <3>2, Zenon
  <2>6. QED BY <1>1, <2>1, <2>2, <2>4, <2>5, ObjectEventsSame, Zenon DEF Compared
<1>6. CASE FinishMatch
  <2>1. phase = "match" /\ phase' = "seek" /\ ours' = ours /\ unmatched' = unmatched
        /\ i > Len(CliEvents)
    BY <1>6, Zenon DEF FinishMatch, metaVars, matchVars
  <2>2. \A n \in Missing : n < i
    BY <1>1, <1>2, <2>1, SMT
  <2>3. Missing # {} <=> \E n \in Missing : n < i
    BY <2>2, Zenon
  <2>4. phase' # "match" /\ phase' \notin Early
    BY <2>1, Zenon DEF Early
  <2>5. QED BY <1>1, <2>1, <2>3, <2>4, ObjectEventsSame, Zenon DEF Compared
<1>7. CASE phase' = "stopped"
  <2>1. phase' # "match" /\ phase' \notin Early /\ phase' \notin Late
    BY <1>7, Zenon DEF Early, Late
  <2>2. QED BY <2>1, Zenon DEF Compared
<1>8. CASE phase \in Early /\ phase' \in Early /\ unmatched' = unmatched
  <2>1. phase' # "match" /\ phase' \notin Late
    BY <1>8, Zenon DEF Early, Late
  <2>2. QED BY <1>8, <2>1, Zenon DEF Compared
<1>9. CASE phase \in Late /\ phase' \in Late /\ ours' = ours /\ unmatched' = unmatched
  <2>1. phase' # "match" /\ phase' \notin Early
    BY <1>9, Zenon DEF Early, Late
  <2>2. QED BY <1>1, <1>9, <2>1, ObjectEventsSame, Zenon DEF Compared
<1>10. QED BY <1>3, <1>4, <1>5, <1>6, <1>7, <1>8, <1>9, LateSame

CInv == TInv /\ Compared

LEMMA CInvStart == Init => CInv
<1> SUFFICES ASSUME Init PROVE CInv
  OBVIOUS
<1>1. phase = "load" /\ ~unmatched
  BY Zenon DEF Init
<1>2. phase # "match" /\ phase \notin Late
  BY <1>1, Zenon DEF Late
<1>3. QED BY <1>1, <1>2, TInvStart, Zenon DEF CInv, Compared

LEMMA CInvKept == CInv /\ [Next]_vars => CInv'
<1> SUFFICES ASSUME CInv, [Next]_vars PROVE CInv'
  OBVIOUS
<1>1. TInv'
  BY TInvKept, Zenon DEF CInv
<1>2. CASE Next
  BY <1>1, <1>2, ComparedKept, Zenon DEF CInv
<1>3. CASE UNCHANGED vars
  <2>1. UNCHANGED <<options, stream, phase, ours, i, j>>
    BY <1>3, Zenon DEF vars, fixedVars, metaVars, matchVars
  <2>2. unmatched' = unmatched
    BY <1>3, Zenon DEF vars, matchVars
  <2>3. ObjectEvents' = ObjectEvents /\ CliEvents' = CliEvents /\ Missing' = Missing
        /\ (Ordered' <=> Ordered)
    BY <2>1, ObjectEventsSame
  <2>4. SkippedPassed' <=> SkippedPassed
    BY <2>1, <2>3, Zenon DEF SkippedPassed, Passed
  <2>5. Compared'
    BY <2>1, <2>2, <2>3, <2>4, Zenon DEF CInv, Compared
  <2>6. QED BY <1>1, <2>5, Zenon DEF CInv
<1>4. QED BY <1>2, <1>3

LEMMA CInvAlways == Spec => []CInv
<1>1. Init => CInv
  BY CInvStart
<1>2. CInv /\ [Next]_vars => CInv'
  BY CInvKept
<1>3. QED BY <1>1, <1>2, PTL DEF Spec

\* However many events there are and whichever they are, as long as the
\* reference's are in order but for the window and ours but for what the block
\* offset leaves of it: the cursor, which never goes back (harness.c:571-606),
\* comes to the same verdict as a search of all our events for each of the
\* reference's.
THEOREM CursorFindsAll == Spec => []CursorMissesNothing
<1>1. CInv => CursorMissesNothing
  <2> SUFFICES ASSUME CInv, phase \in {"seek", "push B", "pull B", "done"}, options.refMetadata,
                      EventsInOrder, OursInOrder
               PROVE  unmatched <=> \E n \in ObjectEvents : ~HasOurs(CliEvents[n])
    BY DEF CursorMissesNothing
  <2>1. phase \in Late /\ Ordered
    BY Zenon DEF Late, Ordered
  <2>2. unmatched <=> Missing # {}
    BY <2>1, Zenon DEF CInv, Compared
  <2>3. QED BY <2>2, Zenon DEF Missing
<1>2. QED BY <1>1, CInvAlways, PTL

-----------------------------------------------------------------------------
(* What pass A learns.                                                     *)

FirstOf(p) == FirstFrom(PacketStart(p))
Begins(p)  == FirstOf(p) \in AuIndices /\ stream.aus[FirstOf(p)].start < input[p]

\* The access units of a packet before n are those from the packet's first on.
LEMMA PacketRun ==
    ASSUME Given, Cutting, phase # "load", NEW n \in AuIndices
    PROVE  /\ Begins(PacketOf(n))
           /\ FirstOf(PacketOf(n)) \in Nat /\ 1 <= FirstOf(PacketOf(n)) /\ FirstOf(PacketOf(n)) <= n
           /\ Cardinality({m \in 1..(n - 1) : PacketOf(m) = PacketOf(n)})
                  = n - FirstOf(PacketOf(n))
<1> DEFINE p == PacketOf(n)
           first == FirstOf(p)
           Begun(m) == stream.aus[m].start
<1>1. /\ p \in Packets /\ PacketStart(p) <= Begun(n) /\ Begun(n) < input[p]
      /\ PacketStart(p) \in Nat /\ input[p] \in Nat /\ Begun(n) \in Nat /\ n \in Nat /\ 1 <= n
  BY PacketOfIs, PacketEnds, AuFields, Zenon
<1>2. /\ first \in 1..(Len(stream.aus) + 1)
      /\ \A m \in AuIndices : m < first <=> Begun(m) < PacketStart(p)
  BY <1>1, FirstFromSplits, Zenon DEF FirstOf
<1>3. first \in Nat /\ 1 <= first
  BY <1>2, AuCount, SMT
<1>4. first <= n
  <2>1. ~(Begun(n) < PacketStart(p))
    BY <1>1, SMT
  <2>2. QED BY <1>1, <1>2, <1>3, <2>1, SMT
<1>5. first \in AuIndices
  BY <1>1, <1>3, <1>4, AuFields, AuCount, SMT DEF AuIndices
<1>6. Begun(first) < input[p]
  <2>1. first < n => Begun(first) < Begun(n)
    BY <1>5, AusOrdered, Zenon
  <2>2. Begun(first) \in Nat
    BY <1>5, AuFields, Zenon
  <2>3. first = n => Begun(first) < input[p]
    BY <1>1, Zenon
  <2>4. first = n \/ first < n
    BY <1>1, <1>3, <1>4, SMT
  <2>5. QED BY <1>1, <2>1, <2>2, <2>3, <2>4, SMT
<1>7. ASSUME NEW m \in 1..(n - 1) PROVE PacketOf(m) = p <=> first <= m
  <2>1. m \in AuIndices /\ m < n /\ m \in Nat
    BY <1>1, AuFields, AuCount, SMT DEF AuIndices
  <2>2. Begun(m) < Begun(n) /\ Begun(m) \in Nat
    BY <2>1, AusOrdered, AuFields, Zenon
  <2>3. Begun(m) < input[p]
    BY <1>1, <2>2, SMT
  <2>4. PacketOf(m) = p => PacketStart(p) <= Begun(m)
    BY <2>1, PacketOfIs, Zenon
  <2>5. PacketStart(p) <= Begun(m) => PacketOf(m) = p
    BY <1>1, <2>1, <2>3, PacketOfIs, Zenon
  <2>6. PacketStart(p) <= Begun(m) <=> ~(Begun(m) < PacketStart(p))
    BY <1>1, <2>2, SMT
  <2>7. first <= m <=> ~(m < first)
    BY <1>3, <2>1, SMT
  <2>8. QED BY <1>2, <2>1, <2>4, <2>5, <2>6, <2>7, Zenon
<1>8. {m \in 1..(n - 1) : PacketOf(m) = p} = first..(n - 1)
  <2> HIDE DEF p, first
  <2>1. \A m : m \in first..(n - 1) <=> m \in 1..(n - 1) /\ first <= m
    BY <1>1, <1>3, SMT
  <2>2. QED BY <1>7, <2>1, Zenon
<1>9. Cardinality(first..(n - 1)) = n - first
  <2>1. first \in Int /\ n - 1 \in Int
    BY <1>1, <1>3, SMT
  <2>2. Cardinality(first..(n - 1)) = IF first > n - 1 THEN 0 ELSE (n - 1) - first + 1
    BY <2>1, FS_Interval, Zenon
  <2>3. QED BY <1>1, <1>3, <1>4, <2>2, SMT
<1>10. QED BY <1>3, <1>4, <1>5, <1>6, <1>8, <1>9, Zenon DEF Begins

\* Where every access unit gives a block, the reference has them all.
LEMMA PlainReference ==
    ASSUME Given, Plain, NEW n \in AuIndices
    PROVE  /\ InReference(n) /\ stream.aus[n].kind # "duplicate"
           /\ stream.aus[1].kind = "sync"
           /\ RefPosition(n) = AuFrames * (n - 1)
<1>1. \A m \in AuIndices : InReference(m)
  BY Zenon DEF Plain
<1>2. 1 \in AuIndices /\ n \in Nat /\ 1 <= n
  BY AuCount, AuFields, SMT DEF AuIndices
<1>3. stream.aus[1].kind = "sync"
  <2>1. \E s \in 1..1 : stream.aus[s].kind = "sync"
    BY <1>1, <1>2, Zenon DEF InReference
  <2>2. \A s \in 1..1 : s = 1
    BY SMT
  <2>3. QED BY <2>1, <2>2, Zenon
<1>4. \A m \in 1..(n - 1) : m \in AuIndices
  BY <1>2, AuCount, AuFields, SMT DEF AuIndices
<1>5. {m \in 1..(n - 1) : InReference(m)} = 1..(n - 1)
  BY <1>1, <1>4, Zenon
<1>6. Cardinality(1..(n - 1)) = n - 1
  <2>1. 1 \in Int /\ n - 1 \in Int
    BY <1>2, SMT
  <2>2. Cardinality(1..(n - 1)) = IF 1 > n - 1 THEN 0 ELSE (n - 1) - 1 + 1
    BY <2>1, FS_Interval, Zenon
  <2>3. QED BY <1>2, <2>2, SMT
<1>7. RefPosition(n) = AuFrames * (n - 1)
  BY <1>5, <1>6, Zenon DEF RefPosition
<1>8. QED BY <1>1, <1>3, <1>7, Zenon DEF InReference


\* The nth access unit is the next, and all before it are decoded and known of.
InOrder ==
    /\ dec.next = 1 \/ dec.live = TRUE
    /\ dec.next \in AuIndices => dec.frames = AuFrames * (dec.next - 1)
    /\ phase # "load" =>
           \A p \in Packets :
               map[p].ref = IF Begins(p) /\ FirstOf(p) < dec.next
                            THEN AuFrames * (FirstOf(p) - 1) ELSE Unmapped.ref

PassA ==
    /\ dec.first = 1
    /\ phase = "push A" => Ready = {}
    /\ Plain => InOrder

Numbers == phase # "load" =>
    \A p \in Packets : map[p] # Unmapped => Begins(p) /\ map[p].ordinal = FirstOf(p) - 1

Frames0 == Plain =>
    \A p \in Packets :
        map[p].ref = IF Begins(p) THEN AuFrames * (FirstOf(p) - 1) ELSE Unmapped.ref

\* Pass A has come to its end.
Past == {"match", "seek", "push B", "pull B", "done"}

Learning ==
    /\ Numbers
    /\ phase \in Early => PassA
    /\ phase \in Past => Frames0

\* In order, whatever is whole is ready.
LEMMA PlainReady ==
    ASSUME Given, Place, Plain, dec.next = 1 \/ dec.live = TRUE, NEW n \in AuIndices, dec.next <= n,
           stream.aus[n].end <= dec.upTo
    PROVE  n \in Ready
<1>1. dec.next \in Nat /\ 1 <= dec.next /\ n \in Nat /\ n <= Len(stream.aus) /\ Len(stream.aus) \in Nat
  BY AuCount, AuFields, SMT DEF Place
<1>2. n \in dec.next..Len(stream.aus)
  BY <1>1, SMT
<1>3. stream.aus[n].kind # "duplicate" /\ stream.aus[1].kind = "sync"
  BY PlainReference, Zenon
<1>4. dec.next = 1 => \E s \in dec.next..n : stream.aus[s].kind = "sync"
  <2>1. dec.next = 1 => 1 \in dec.next..n
    BY <1>1, SMT
  <2>2. QED BY <1>3, <2>1, Zenon
<1>5. QED BY <1>2, <1>3, <1>4, Zenon DEF Ready

LEMMA PlainPulled ==
    ASSUME Given, Place, Plain, dec.next = 1 \/ dec.live = TRUE, NEW n, Pulled(n)
    PROVE  n = dec.next /\ n \in AuIndices
<1>1. n \in Ready /\ \A m \in Ready : n <= m
  BY Zenon DEF Pulled
<1>2. n \in AuIndices /\ dec.next <= n /\ stream.aus[n].end <= dec.upTo
  BY <1>1, ReadyIs, Zenon
<1>3. n \in Nat /\ n <= Len(stream.aus) /\ dec.next \in Nat /\ 1 <= dec.next /\ Len(stream.aus) \in Nat
  BY <1>2, AuCount, AuFields, SMT DEF Place
<1>4. ASSUME dec.next < n PROVE FALSE
  <2>1. dec.next \in AuIndices
    BY <1>3, <1>4, SMT DEF AuIndices
  <2>2. stream.aus[dec.next].end <= stream.aus[n].start
    BY <1>2, <1>4, <2>1, AusOrdered
  <2>3. /\ stream.aus[n].start < stream.aus[n].end /\ stream.aus[dec.next].end \in Nat
        /\ stream.aus[n].start \in Nat /\ stream.aus[n].end \in Nat
    BY <1>2, <2>1, AuFields, Zenon
  <2>4. dec.upTo \in Nat
    BY Zenon DEF Place, Decoder
  <2>5. stream.aus[dec.next].end <= dec.upTo
    BY <1>2, <2>2, <2>3, <2>4, SMT
  <2>6. dec.next <= dec.next
    BY <1>3, SMT
  <2>7. dec.next \in Ready
    BY <2>1, <2>5, <2>6, PlainReady
  <2>8. n <= dec.next
    BY <1>1, <2>7
  <2>9. QED BY <1>3, <1>4, <2>8, SMT
<1>5. QED BY <1>2, <1>3, <1>4, SMT

LEMMA LearningSame ==
    ASSUME Next
    PROVE  \/ \E length \in ChunkLengths : LoadChunk(length)
           \/ \E n \in 1..MaxAus : LoadPacket(n)
           \/ StartPassA \/ PushA \/ PulledDryA \/ FinishPassA
           \/ \E n \in AuIndices : PullA(n)
           \/ /\ phase \in {"pull A", "updates"} /\ phase' \in {"pull A", "updates"}
              /\ UNCHANGED <<input, dec, map>>
           \/ phase \in Past /\ phase' \in Past /\ UNCHANGED <<input, map>>
           \/ phase # "load" /\ phase' = "stopped" /\ UNCHANGED <<input, map>>
<1> DEFINE Q == /\ phase \in {"pull A", "updates"} /\ phase' \in {"pull A", "updates"}
                /\ UNCHANGED <<input, dec, map>>
           S == phase # "load" /\ phase' = "stopped" /\ UNCHANGED <<input, map>>
           R == phase \in Past /\ phase' \in Past /\ UNCHANGED <<input, map>>
<1>1. TakeUpdate => Q
  BY Zenon DEF TakeUpdate, fixedVars, passAVars
<1>2. UpdatesTaken => Q
  BY Zenon DEF UpdatesTaken, fixedVars, passAVars
<1>3. MatchBed => R
  BY Zenon DEF MatchBed, fixedVars, passAVars, Past
<1>4. MatchEvent => R
  BY Zenon DEF MatchEvent, fixedVars, passAVars, Past
<1>5. FinishMatch => R
  BY Zenon DEF FinishMatch, fixedVars, passAVars, Past
<1>6. NoPassB => R
  BY Zenon DEF NoPassB, fixedVars, passAVars, Past
<1>7. StartPassB => R
  BY Zenon DEF StartPassB, fixedVars, passAVars, Past
<1>8. PushB => R
  BY Zenon DEF PushB, fixedVars, passAVars, Past
<1>9. PulledDryB => R
  BY Zenon DEF PulledDryB, fixedVars, passAVars, Past
<1>10. FinishPassB => R
  BY Zenon DEF FinishPassB, fixedVars, passAVars, Past
<1>11. ASSUME NEW n \in AuIndices, PullB(n) PROVE R
  <2>1. phase = "pull B" /\ UNCHANGED <<input, map>> /\ (phase' = "push B" \/ phase' = phase)
    BY <1>11, Zenon DEF PullB, Seek, fixedVars, passAVars
  <2>2. QED BY <2>1, Zenon DEF Past
<1>12. ASSUME NEW b \in AnyBlock, PullFaultyB(b) PROVE R
  BY <1>12, Zenon DEF PullFaultyB, fixedVars, passAVars, Past
<1>13. PushRefused \/ PullFails => S
  BY Refused, Zenon
<1> HIDE DEF Q, R, S
<1>14. \/ \E length \in ChunkLengths : LoadChunk(length)
       \/ \E n \in 1..MaxAus : LoadPacket(n)
       \/ StartPassA \/ PushA \/ PulledDryA \/ FinishPassA
       \/ \E n \in AuIndices : PullA(n)
       \/ Q \/ R \/ S
  BY <1>1, <1>2, <1>3, <1>4, <1>5, <1>6, <1>7, <1>8, <1>9, <1>10, <1>11, <1>12, <1>13,
     Zenon DEF Next
<1>15. QED BY <1>14, Zenon DEF Q, R, S

LEMMA FirstsSame ==
    ASSUME stream' = stream, input' = input
    PROVE  /\ AuIndices' = AuIndices /\ Packets' = Packets /\ (Plain' <=> Plain)
           /\ \A p \in Packets : FirstOf(p)' = FirstOf(p) /\ (Begins(p)' <=> Begins(p))
<1>1. AuIndices' = AuIndices /\ Packets' = Packets
  BY Zenon DEF AuIndices, Packets
<1>2. Plain' <=> Plain
  BY <1>1, Zenon DEF Plain, OneLayout, InReference
<1>3. \A p \in Packets : FirstOf(p)' = FirstOf(p)
  BY <1>1, Zenon DEF FirstOf, FirstFrom, PacketStart
<1>4. \A p \in Packets : Begins(p)' <=> Begins(p)
  BY <1>1, <1>3, Zenon DEF Begins
<1>5. QED BY <1>1, <1>2, <1>3, <1>4

LEMMA LearntSame ==
    ASSUME stream' = stream, input' = input, map' = map, phase # "load"
    PROVE  (Numbers => Numbers') /\ (Frames0 => Frames0')
<1>1. ASSUME Numbers PROVE Numbers'
  BY <1>1, FirstsSame, Zenon DEF Numbers
<1>2. ASSUME Frames0 PROVE Frames0'
  BY <1>2, FirstsSame, Zenon DEF Frames0
<1>3. QED BY <1>1, <1>2

\* When nothing has been decoded, everything is in order.
LEMMA InOrderAtStart ==
    ASSUME Given, dec = FedFrom(0)
    PROVE  /\ dec.first = 1 /\ dec.next = 1 /\ dec.frames = 0 /\ dec.upTo = 0
           /\ Ready = {}
           /\ dec.frames = AuFrames * (dec.next - 1)
<1>1. dec.first = 1 /\ dec.next = 1 /\ dec.frames = 0 /\ dec.upTo = 0
  BY FirstFromStart, Zenon DEF FedFrom
<1>2. ASSUME NEW n \in Ready PROVE FALSE
  <2>1. n \in dec.next..Len(stream.aus) /\ stream.aus[n].end <= dec.upTo
    BY Zenon DEF Ready
  <2>2. n \in AuIndices
    BY <1>1, <2>1, AuCount, SMT DEF AuIndices
  <2>3. QED BY <1>1, <2>1, <2>2, AuFields, SMT
<1>3. QED BY <1>1, <1>2, SMT DEF AuFrames

\* The order, where neither the packets nor what is known of them changes.
LEMMA InOrderSame ==
    ASSUME stream' = stream, input' = input, map' = map, phase # "load",
           dec'.next = dec.next, dec'.live = dec.live, dec'.frames = dec.frames, InOrder
    PROVE  InOrder'
  BY FirstsSame, Zenon DEF InOrder

LEMMA ReadySame ==
    ASSUME stream' = stream, dec' = dec
    PROVE  Ready' = Ready
  BY Zenon DEF Ready

TLInv == TInv /\ Learning

\* A block of pass A gives the packet it is of the place of its first access unit.
LEMMA PullALearns ==
    ASSUME TInv, Learning, NEW n \in AuIndices, PullA(n), stream' = stream
    PROVE  Learning'
<1>1. /\ Given /\ Cutting /\ Place /\ Kept /\ Numbers /\ PassA
      /\ phase = "pull A" /\ phase' = "updates" /\ phase # "load"
  <2>1. phase = "pull A" /\ phase' = "updates"
    BY Zenon DEF PullA
  <2>2. phase \in Early /\ phase # "load"
    BY <2>1, Zenon DEF Early
  <2>3. QED BY <2>1, <2>2, Zenon DEF TInv, Learning
<1>2. Pulled(n) /\ n \in Ready /\ dec' = After(n) /\ map' = Learn(Block(n)) /\ input' = input
  BY Zenon DEF PullA, Pulled, fixedVars
<1> DEFINE p == PacketOf(n)
           first == FirstOf(p)
           e == MapEntry(Block(n))
<1>3. /\ p \in Packets /\ Begins(p) /\ first \in Nat /\ 1 <= first /\ first <= n /\ n \in Nat
      /\ Cardinality({m \in 1..(n - 1) : PacketOf(m) = p}) = n - first
  BY <1>1, PacketRun, PacketOfIs, AuFields, Zenon
<1>4. Block(n).pts = p /\ Block(n).position = dec.frames /\ dec.frames \in Nat
  BY <1>1, <1>2, BlockType, Zenon
<1>5. Block(n).index = n - first /\ Block(n).ordinal = n - 1
  <2>1. dec.first = 1
    BY <1>1, Zenon DEF PassA
  <2>2. Block(n).index = Cardinality({m \in 1..(n - 1) : PacketOf(m) = p})
    BY <2>1, Zenon DEF Block
  <2>3. Block(n).ordinal = n - dec.first
    BY <1>1, <1>2, BlockType, Zenon
  <2>4. QED BY <1>3, <2>1, <2>2, <2>3, Zenon
<1>6. e.ref = dec.frames - AuFrames * (n - first) /\ e.ordinal = first - 1
  <2> DEFINE x == Block(n)
  <2>1. e.ref = x.position - x.index * AuFrames /\ e.ordinal = x.ordinal - x.index
    BY <1>1, <1>2, BlockType, Zenon DEF MapEntry
  <2> HIDE DEF e, x, first, p
  <2>2. x.index = n - first /\ x.ordinal = n - 1 /\ x.position = dec.frames
    BY <1>4, <1>5 DEF x
  <2>3. QED BY <1>3, <1>4, <2>1, <2>2, SMT DEF AuFrames
<1>7. map \in [Packets -> Entry] /\ map' \in [Packets -> Entry]
  <2>1. map \in [Packets -> Entry]
    BY <1>1, Zenon DEF Kept
  <2>2. e \in Entry
    BY <1>1, <1>2, BlockType, MapEntryType
  <2>3. QED BY <1>2, <2>1, <2>2, Zenon DEF Learn
<1>8. /\ \A q \in Packets : q # p => map'[q] = map[q]
      /\ map[p].ref < 0 => map'[p] = e
      /\ ~(map[p].ref < 0) => map' = map
  BY <1>2, <1>3, <1>4, <1>7, Zenon DEF Learn
<1>9. Numbers'
  <2>1. ASSUME NEW q \in Packets, map'[q] # Unmapped
        PROVE  Begins(q) /\ map'[q].ordinal = FirstOf(q) - 1
    <3>1. CASE map'[q] = map[q]
      BY <1>1, <2>1, <3>1, Zenon DEF Numbers
    <3>2. CASE q = p /\ map'[p] = e
      BY <1>3, <1>6, <3>2, Zenon
    <3>3. QED BY <1>8, <3>1, <3>2, Zenon
  <2>2. Unmapped' = Unmapped
    BY DEF Unmapped
  <2>3. QED BY <1>2, <2>1, FirstsSame, Zenon DEF Numbers, Unmapped
<1>10. dec'.first = 1
  BY <1>1, <1>2, AfterType, Zenon DEF PassA
<1>11. ASSUME Plain PROVE InOrder'
  <2>1. InOrder
    BY <1>1, <1>11, Zenon DEF PassA
  <2>2. n = dec.next /\ dec.frames = AuFrames * (n - 1)
    <3>1. n = dec.next
      BY <1>1, <1>2, <1>11, <2>1, PlainPulled, Zenon DEF InOrder
    <3>2. QED BY <2>1, <3>1, Zenon DEF InOrder
  <2>3. dec'.next = n + 1 /\ dec'.live = TRUE /\ dec'.frames = dec.frames + Frames(n)
    BY <1>1, <1>2, AfterType, Zenon
  <2>4. n + 1 \in AuIndices => dec'.frames = AuFrames * n
    <3> SUFFICES ASSUME n + 1 \in AuIndices PROVE dec'.frames = AuFrames * n
      OBVIOUS
    <3>1. n # Len(stream.aus)
      <4>1. n + 1 <= Len(stream.aus) /\ Len(stream.aus) \in Nat
        BY <1>1, AuFields, AuCount, Zenon
      <4>2. QED BY <1>3, <4>1, SMT
    <3>2. Frames(n) = AuFrames
      BY <3>1, Zenon DEF Frames
    <3>3. QED BY <1>3, <1>4, <2>2, <2>3, <3>2, SMT DEF AuFrames
  <2>5. e.ref = AuFrames * (first - 1)
    <3> HIDE DEF e, first, p
    <3>1. QED BY <1>3, <1>4, <1>6, <2>2, SMT DEF AuFrames
  <2>6. AuFrames * (first - 1) >= 0
    <3> HIDE DEF first, p
    <3>1. QED BY <1>3, SMT DEF AuFrames
  <2>7. ASSUME NEW q \in Packets
        PROVE  map'[q].ref = IF Begins(q) /\ FirstOf(q) < n + 1
                             THEN AuFrames * (FirstOf(q) - 1) ELSE Unmapped.ref
    <3>1. map[q].ref = IF Begins(q) /\ FirstOf(q) < n
                       THEN AuFrames * (FirstOf(q) - 1) ELSE Unmapped.ref
      BY <1>1, <2>1, <2>2, Zenon DEF InOrder
    <3>2. CASE q = p
      <4>1. FirstOf(q) < n + 1 /\ Begins(q)
        <5> HIDE DEF e, first, p
        <5>1. first < n + 1
          BY <1>3, SMT
        <5>2. QED BY <1>3, <3>2, <5>1 DEF first
      <4>2. CASE map[p].ref < 0
        BY <1>8, <2>5, <3>2, <4>1, <4>2, Zenon
      <4>3. CASE ~(map[p].ref < 0)
        <5>1. Unmapped.ref < 0
          BY SMT DEF Unmapped
        <5>2. map[q].ref # Unmapped.ref
          BY <3>2, <4>3, <5>1, Zenon
        <5>3. map[q].ref = AuFrames * (FirstOf(q) - 1)
          BY <3>1, <5>2, Zenon
        <5>4. QED BY <1>8, <3>2, <4>1, <4>3, <5>3, Zenon
      <4>4. QED BY <4>2, <4>3
    <3>3. CASE q # p
      <4>1. Begins(q) => FirstOf(q) # n
        <5>1. SUFFICES ASSUME Begins(q), FirstOf(q) = n PROVE q = p
          BY <3>3
        <5>2. stream.aus[n].start < input[q]
          BY <5>1, Zenon DEF Begins
        <5>3. PacketStart(q) <= stream.aus[n].start
          <6>1. PacketStart(q) \in Nat /\ stream.aus[n].start \in Nat
            BY <1>1, PacketEnds, AuFields, Zenon
          <6>2. n < FirstFrom(PacketStart(q)) <=> stream.aus[n].start < PacketStart(q)
            BY <1>1, <6>1, FirstFromSplits, Zenon
          <6>3. ~(n < n)
            BY <1>3, SMT
          <6>4. ~(stream.aus[n].start < PacketStart(q))
            BY <5>1, <6>2, <6>3, Zenon DEF FirstOf
          <6>5. QED BY <6>1, <6>4, SMT
        <5>4. QED BY <1>1, <5>2, <5>3, PacketOfIs, Zenon
      <4>2. Begins(q) => FirstOf(q) \in Nat
        BY <1>1, AuFields, Zenon DEF Begins
      <4>3. Begins(q) => (FirstOf(q) < n + 1 <=> FirstOf(q) < n)
        <5> DEFINE f == FirstOf(q)
        <5> HIDE DEF f
        <5>1. f \in Nat /\ f # n => (f < n + 1 <=> f < n)
          BY <1>3, SMT
        <5>2. QED BY <4>1, <4>2, <5>1 DEF f
      <4>4. QED BY <1>8, <3>1, <3>3, <4>3, Zenon
    <3>4. QED BY <3>2, <3>3
  <2>8. n + 1 - 1 = n
    BY <1>3, SMT
  <2>9. dec'.next \in AuIndices' => dec'.frames = AuFrames * (dec'.next - 1)
    <3>1. AuIndices' = AuIndices
      BY <1>2, FirstsSame, Zenon
    <3>2. dec'.next - 1 = n
      BY <1>3, <2>3, SMT
    <3>3. n + 1 \in AuIndices' => dec'.frames = AuFrames * (dec'.next - 1)
      BY <2>4, <3>1, <3>2
    <3>4. QED BY <2>3, <3>3, Zenon
  <2>10. ASSUME NEW q \in Packets'
         PROVE  map'[q].ref = IF Begins(q)' /\ FirstOf(q)' < dec'.next
                              THEN AuFrames * (FirstOf(q)' - 1) ELSE Unmapped.ref
    <3>1. q \in Packets /\ (Begins(q)' <=> Begins(q)) /\ FirstOf(q)' = FirstOf(q)
      BY <1>2, <2>10, FirstsSame, Zenon
    <3>2. QED BY <2>3, <2>7, <3>1, Zenon
  <2>11. QED BY <2>3, <2>9, <2>10, Zenon DEF InOrder, Unmapped, AuFrames
<1>12. phase' # "push A"
  BY <1>1
<1>13. PassA'
  BY <1>2, <1>10, <1>11, <1>12, FirstsSame, Zenon DEF PassA
<1>14. QED BY <1>1, <1>9, <1>13, Zenon DEF Learning, Early, Past

\* At the end of pass A every access unit has been decoded.
LEMMA FinishALearnt ==
    ASSUME TInv, Learning, FinishPassA, stream' = stream
    PROVE  Learning'
<1>1. /\ phase = "push A" /\ k = Len(input) /\ UNCHANGED <<input, map>>
      /\ phase' \in {"match", "seek"}
  BY Zenon DEF FinishPassA, fixedVars, passAVars
<1>2. phase # "load" /\ phase \in Early /\ phase' \notin Early
  BY <1>1, Zenon DEF Early
<1>3. Given /\ Cutting /\ Place /\ Kept /\ Numbers /\ PassA
  BY <1>2, Zenon DEF TInv, Learning
<1>4. Numbers'
  BY <1>1, <1>2, <1>3, LearntSame, Zenon
<1>5. ASSUME Plain PROVE Frames0
  <2>1. InOrder /\ Ready = {}
    BY <1>1, <1>3, <1>5, Zenon DEF PassA
  <2>2. dec.upTo = Size
    <3>1. Len(input) \in Packets /\ input[Len(input)] = Size
      BY <1>2, <1>3, LoadedType, Zenon
    <3>2. k # 0
      <4>1. 1 <= Len(input) /\ Len(input) \in Nat
        BY <1>3, <3>1, PacketEnds, Zenon
      <4>2. k = Len(input)
        BY <1>1
      <4> DEFINE l == Len(input)
      <4>3. l # 0
        <5> HIDE DEF l
        <5>1. 1 <= l /\ l \in Nat
          BY <4>1 DEF l
        <5>2. QED BY <5>1, SMT
      <4>4. QED BY <4>2, <4>3
    <3>3. QED BY <1>1, <1>3, <3>1, <3>2, Zenon DEF Place
  <2>3. dec.next \notin AuIndices
    <3>1. SUFFICES ASSUME dec.next \in AuIndices PROVE FALSE
      OBVIOUS
    <3>2. dec.next \in Nat /\ stream.aus[dec.next].end <= dec.upTo
      BY <1>3, <2>2, <3>1, EndsInside, AuFields, Zenon
    <3>3. dec.next <= dec.next
      BY <3>2, SMT
    <3>4. dec.next \in Ready
      BY <1>3, <1>5, <2>1, <3>1, <3>2, <3>3, PlainReady, Zenon DEF InOrder
    <3>5. QED BY <2>1, <3>4
  <2>4. \A f \in AuIndices : f < dec.next
    <3>1. dec.next \in 1..(Len(stream.aus) + 1) /\ Len(stream.aus) \in Nat
      BY <1>3, AuCount, Zenon DEF Place
    <3>2. QED BY <2>3, <3>1, SMT DEF AuIndices
  <2>5. \A p \in Packets : Begins(p) => FirstOf(p) < dec.next
    BY <2>4, Zenon DEF Begins
  <2>6. QED BY <1>2, <2>1, <2>5, Zenon DEF InOrder, Frames0
<1>6. Frames0'
  <2>1. Frames0
    <3>1. ~Plain => Frames0
      BY Zenon DEF Frames0
    <3>2. QED BY <1>5, <3>1
  <2>2. QED BY <1>1, <1>2, <2>1, LearntSame, Zenon
<1>7. QED BY <1>2, <1>4, <1>6, Zenon DEF Learning

LEMMA LearningKept ==
    ASSUME TInv, Learning, Next
    PROVE  Learning'
<1>1. stream' = stream /\ Given /\ Cutting /\ Place /\ Kept
  BY SourceKept, Zenon DEF TInv
<1>2. ASSUME phase = "load", dec' = dec, phase' \in {"load", "push A"},
             phase' = "push A" =>
                 input' = input /\ map' = [p \in Packets |-> Unmapped]
      PROVE  Learning'
  <2>1. /\ dec.first = 1 /\ dec.next = 1 /\ Ready = {}
        /\ dec.frames = AuFrames * (dec.next - 1)
    BY <1>1, <1>2, InOrderAtStart, Zenon DEF Place
  <2>2. Ready' = {}
    BY <1>1, <1>2, <2>1, ReadySame
  <2>3. phase' = "push A" =>
            \A p \in Packets' : /\ map'[p] = Unmapped
                                /\ ~(Begins(p)' /\ FirstOf(p)' < 1)
    <3>1. SUFFICES ASSUME phase' = "push A", NEW p \in Packets'
                   PROVE  map'[p] = Unmapped /\ ~(Begins(p)' /\ FirstOf(p)' < 1)
      OBVIOUS
    <3>2. p \in Packets /\ (Begins(p)' <=> Begins(p)) /\ FirstOf(p)' = FirstOf(p)
      BY <1>1, <1>2, <3>1, FirstsSame, Zenon
    <3>3. map'[p] = Unmapped
      BY <1>2, <3>1, <3>2, Zenon
    <3>4. Begins(p) => FirstOf(p) \in Nat /\ 1 <= FirstOf(p)
      BY <1>1, AuFields, Zenon DEF Begins
    <3>5. Begins(p) => ~(FirstOf(p) < 1)
      <4> DEFINE f == FirstOf(p)
      <4> HIDE DEF f
      <4>1. f \in Nat /\ 1 <= f => ~(f < 1)
        BY SMT
      <4>2. QED BY <3>4, <4>1 DEF f
    <3>6. QED BY <3>2, <3>3, <3>5, Zenon
  <2>4. Numbers'
    <3>1. phase' # "load" => \A p \in Packets' : map'[p] = Unmapped
      BY <1>2, <2>3, Zenon
    <3>2. QED BY <3>1, Zenon DEF Numbers, Unmapped
  <2>5. InOrder'
    <3>1. dec'.next = 1 /\ dec'.frames = AuFrames * (dec'.next - 1)
      BY <1>2, <2>1, Zenon
    <3>2. phase' # "load" => \A p \in Packets' :
              map'[p].ref = Unmapped.ref /\ ~(Begins(p)' /\ FirstOf(p)' < dec'.next)
      BY <1>2, <2>3, <3>1, Zenon
    <3>3. QED BY <3>1, <3>2, Zenon DEF InOrder, Unmapped, AuFrames
  <2>6. PassA'
    BY <1>2, <2>1, <2>2, <2>5, Zenon DEF PassA
  <2>7. QED BY <1>2, <2>4, <2>6, Zenon DEF Learning, Early, Past
<1>3. CASE \E length \in ChunkLengths : LoadChunk(length)
  BY <1>2, <1>3, Zenon DEF LoadChunk
<1>4. CASE \E n \in 1..MaxAus : LoadPacket(n)
  BY <1>2, <1>4, Zenon DEF LoadPacket
<1>5. CASE StartPassA
  BY <1>2, <1>5, Zenon DEF StartPassA, fixedVars
<1>6. CASE PushA
  <2>1. /\ phase = "push A" /\ phase' = "pull A" /\ input' = input /\ map' = map
        /\ dec' = [dec EXCEPT !.upTo = input[k + 1]]
    BY <1>6, Zenon DEF PushA, fixedVars, passAVars
  <2>2. dec'.first = dec.first /\ dec'.next = dec.next /\ dec'.live = dec.live
        /\ dec'.frames = dec.frames
    BY <1>1, <2>1, Zenon DEF Place, Decoder
  <2>3. Numbers /\ PassA /\ phase # "load"
    BY <2>1, Zenon DEF Learning, Early
  <2>4. Numbers'
    BY <1>1, <2>1, <2>3, LearntSame
  <2>5. InOrder => InOrder'
    BY <1>1, <2>1, <2>2, <2>3, InOrderSame
  <2>6. PassA'
    BY <1>1, <2>1, <2>2, <2>3, <2>5, FirstsSame, Zenon DEF PassA
  <2>7. QED BY <2>1, <2>4, <2>6, Zenon DEF Learning, Early, Past
<1>7. ASSUME phase \in Early, phase # "load", phase' \in Early,
             UNCHANGED <<input, dec, map>>, phase' = "push A" => Ready = {}
      PROVE  Learning'
  <2>1. Numbers /\ PassA
    BY <1>7, Zenon DEF Learning
  <2>2. Numbers' /\ (InOrder => InOrder') /\ Ready' = Ready
    BY <1>1, <1>7, <2>1, LearntSame, InOrderSame, ReadySame
  <2>3. PassA'
    BY <1>1, <1>7, <2>1, <2>2, FirstsSame, Zenon DEF PassA
  <2>4. QED BY <1>7, <2>2, <2>3, Zenon DEF Learning, Early, Past
<1>8. CASE PulledDryA
  BY <1>7, <1>8, Zenon DEF PulledDryA, NeedMoreData, fixedVars, passAVars, Early
<1>9. CASE /\ phase \in {"pull A", "updates"} /\ phase' \in {"pull A", "updates"}
           /\ UNCHANGED <<input, dec, map>>
  BY <1>7, <1>9, Zenon DEF Early
<1>10. CASE \E n \in AuIndices : PullA(n)
  BY <1>1, <1>10, PullALearns
<1>11. CASE FinishPassA
  BY <1>1, <1>11, FinishALearnt
<1>12. CASE phase \in Past /\ phase' \in Past /\ UNCHANGED <<input, map>>
  <2>1. phase # "load" /\ Numbers /\ Frames0
    BY <1>12, Zenon DEF Learning, Past
  <2>2. Numbers' /\ Frames0'
    BY <1>1, <1>12, <2>1, LearntSame
  <2>3. QED BY <1>12, <2>2, Zenon DEF Learning, Early, Past
<1>13. CASE phase # "load" /\ phase' = "stopped" /\ UNCHANGED <<input, map>>
  <2>1. Numbers'
    BY <1>1, <1>13, LearntSame, Zenon DEF Learning
  <2>2. QED BY <1>13, <2>1, Zenon DEF Learning, Early, Past
<1>14. QED
  BY <1>3, <1>4, <1>5, <1>6, <1>8, <1>9, <1>10, <1>11, <1>12, <1>13, LearningSame

LEMMA LearningStart == Init => TLInv
<1> SUFFICES ASSUME Init PROVE TLInv
  OBVIOUS
<1>1. TInv /\ Given /\ phase = "load" /\ dec = FedFrom(0)
  BY TInvStart, Zenon DEF Init, TInv
<1>2. /\ dec.first = 1 /\ dec.next = 1
      /\ dec.frames = AuFrames * (dec.next - 1)
  BY <1>1, InOrderAtStart
<1>3. Numbers /\ InOrder
  BY <1>1, <1>2, Zenon DEF Numbers, InOrder
<1>4. PassA
  BY <1>1, <1>2, <1>3, Zenon DEF PassA
<1>5. QED BY <1>1, <1>3, <1>4, Zenon DEF TLInv, Learning, Early, Past

LEMMA LearningStep == TLInv /\ [Next]_vars => TLInv'
<1> SUFFICES ASSUME TLInv, [Next]_vars PROVE TLInv'
  OBVIOUS
<1>1. TInv'
  BY TInvKept, Zenon DEF TLInv
<1>2. CASE Next
  BY <1>1, <1>2, LearningKept, Zenon DEF TLInv
<1>3. CASE UNCHANGED vars
  <2>1. UNCHANGED <<stream, input, phase, dec, map>>
    BY <1>3, Zenon DEF vars, fixedVars, passAVars
  <2>2. AuIndices' = AuIndices /\ Packets' = Packets /\ (Plain' <=> Plain) /\ Ready' = Ready
    BY <2>1, FirstsSame, ReadySame
  <2>3. \A p \in Packets : FirstOf(p)' = FirstOf(p) /\ (Begins(p)' <=> Begins(p))
    BY <2>1, FirstsSame
  <2>4. (Numbers => Numbers') /\ (Frames0 => Frames0')
    BY <2>1, <2>2, <2>3, Zenon DEF Numbers, Frames0
  <2>5. InOrder => InOrder'
    BY <2>1, <2>2, <2>3, Zenon DEF InOrder
  <2>6. PassA => PassA'
    BY <2>1, <2>2, <2>5, Zenon DEF PassA
  <2>7. Learning'
    BY <2>1, <2>4, <2>6, Zenon DEF TLInv, Learning
  <2>8. QED BY <1>1, <2>7, Zenon DEF TLInv
<1>4. QED BY <1>2, <1>3

LEMMA LearningAlways == Spec => []TLInv
  BY LearningStart, LearningStep, PTL DEF Spec

\* However the file was cut into packets, what pass A learns of each is true:
\* the number of the first access unit that begins in it and, where every one
\* gives a block, its reference frame (harness.c:446-449).
THEOREM MapLearnt == Spec => []MapTrue
<1>1. TLInv => MapTrue
  <2> SUFFICES ASSUME TLInv, phase \in {"seek", "push B", "pull B", "done"}, NEW p \in Packets
               PROVE  /\ map[p] # Unmapped => Begins(p) /\ map[p].ordinal = FirstOf(p) - 1
                      /\ Plain => map[p].ref =
                             IF Begins(p) THEN RefPosition(FirstOf(p)) ELSE Unmapped.ref
    BY Zenon DEF MapTrue, Begins, FirstOf
  <2>1. phase \in Past /\ phase # "load" /\ Given
    BY Zenon DEF Past, TLInv, TInv
  <2>2. Numbers /\ Frames0
    BY <2>1, Zenon DEF TLInv, Learning
  <2>3. Plain /\ Begins(p) => RefPosition(FirstOf(p)) = AuFrames * (FirstOf(p) - 1)
    BY <2>1, PlainReference, Zenon DEF Begins
  <2>4. QED BY <2>1, <2>2, <2>3, Zenon DEF Numbers, Frames0
<1>2. QED BY <1>1, LearningAlways, PTL

-----------------------------------------------------------------------------
(* What pass B judges.                                                     *)

InPassB == {"push B", "pull B", "done"}

\* Pass A knows the packet resumed at.
Known == map[resume].ref >= 0

\* A broken promise has failed the run, or will when pass B ends.
Judged ==
    /\ phase \notin InPassB => ~deviated
    /\ deviated /\ options.refAudio /\ Plain /\ Known =>
           failed \/ (phase # "done" /\ (after \/ ordinalMismatch))

JudgedBlock == [au : AuIndices, frames : Nat, auFrames : Nat, pts : Packets \cup {NoPts},
                index : Nat, ordinal : Int, offset : Int, position : Nat,
                discontinuity : BOOLEAN, estimated : BOOLEAN]

\* A packet that pass A knows is where its first access unit is.
LEMMA KnownPlace ==
    ASSUME TInv, Frames0, Plain, NEW p \in Packets, map[p].ref >= 0
    PROVE  /\ FirstOf(p) \in Nat /\ map[p] # Unmapped
           /\ map[p].ref = RefPosition(FirstOf(p))
<1>1. map[p].ref = IF Begins(p) THEN AuFrames * (FirstOf(p) - 1) ELSE Unmapped.ref
  BY Zenon DEF Frames0
<1>2. ~(Unmapped.ref >= 0)
  BY SMT DEF Unmapped
<1>3. Begins(p) /\ map[p].ref = AuFrames * (FirstOf(p) - 1) /\ map[p] # Unmapped
  BY <1>1, <1>2, Zenon
<1>4. Given /\ FirstOf(p) \in AuIndices
  BY <1>3, Zenon DEF Begins, TInv
<1>5. FirstOf(p) \in Nat
  BY <1>4, AuFields
<1>6. RefPosition(FirstOf(p)) = AuFrames * (FirstOf(p) - 1)
  BY <1>4, PlainReference
<1>7. QED BY <1>3, <1>5, <1>6

\* Samples that compare equal are those of the place stated.
LEMMA SamplesPlaced ==
    ASSUME TInv, Frames0, Plain, options.refAudio,
           NEW b \in JudgedBlock, IsMapped(b),
           ~CompareBlock(NothingCompared, b, At(b)).mismatch
    PROVE  /\ At(b) = RefPosition(FirstFrom(PacketStart(b.pts))) + b.index * b.auFrames
           /\ b.frames > 0 => At(b) = RefPosition(b.au) /\ b.frames <= Frames(b.au)
<1>1. b.pts \in Packets /\ map[b.pts].ref >= 0
  BY Zenon DEF IsMapped, JudgedBlock
<1>2. At(b) = RefPosition(FirstFrom(PacketStart(b.pts))) + b.index * b.auFrames
  BY <1>1, KnownPlace, Zenon DEF At, FirstOf
<1>3. ASSUME b.frames > 0 PROVE Holds(b, At(b))
  <2> DEFINE c == CompareBlock(NothingCompared, b, At(b))
             beyond == At(b) + b.frames > RefFrames
             far  == NothingCompared.mismatch \/ b.frames > 0
             near == NothingCompared.mismatch \/ (b.frames > 0 /\ ~Holds(b, At(b)))
             frames == NothingCompared.frames + b.frames
  <2>1. c = IF beyond THEN [NothingCompared EXCEPT !.mismatch = far]
            ELSE [frames |-> frames, mismatch |-> near]
    BY Zenon DEF CompareBlock
  <2>2. far
    BY <1>3
  <2> HIDE DEF far
  <2>3. [NothingCompared EXCEPT !.mismatch = far].mismatch = far
    BY Zenon DEF NothingCompared
  <2>4. [frames |-> frames, mismatch |-> near].mismatch = near
    <3> HIDE DEF frames, near
    <3>1. QED BY Zenon
  <2>5. ~c.mismatch
    OBVIOUS
  <2> HIDE DEF c, beyond, frames
  <2>6. ~near
    <3> HIDE DEF near
    <3>1. CASE beyond
      <4>1. c.mismatch = far
        BY <2>1, <2>3, <3>1, Zenon
      <4>2. QED BY <2>2, <2>5, <4>1
    <3>2. CASE ~beyond
      <4>1. c.mismatch = near
        BY <2>1, <2>4, <3>2, Zenon
      <4>2. QED BY <2>5, <4>1
    <3>3. QED BY <3>1, <3>2
  <2>7. QED BY <1>3, <2>6, Zenon
<1>4. QED BY <1>2, <1>3, Zenon DEF Holds

\* A number and an offset on the timeline are counted from the resume packet.
LEMMA OrdinalPlaced ==
    ASSUME TInv, phase # "load", Frames0, Numbers, Plain, Known,
           NEW b \in JudgedBlock, IsMapped(b), OnTimeline(b), ~b.estimated
    PROVE  /\ b.ordinal = FirstFrom(PacketStart(b.pts)) + b.index
                              - FirstFrom(PacketStart(resume))
           /\ RefPosition(FirstFrom(PacketStart(resume))) + b.offset = At(b)
<1> DEFINE p == b.pts
           r == resume
<1>1. p \in Packets /\ map[p].ref >= 0 /\ r \in Packets /\ map[r].ref >= 0 /\ b.index \in Nat
  BY Zenon DEF IsMapped, JudgedBlock, TInv, Place, Known
<1>2. /\ FirstOf(p) \in Nat /\ map[p].ordinal = FirstOf(p) - 1
      /\ FirstOf(r) \in Nat /\ map[r].ordinal = FirstOf(r) - 1
      /\ map[r].ref = RefPosition(FirstOf(r))
  BY <1>1, KnownPlace, Zenon DEF Numbers
<1>3. /\ b.ordinal = map[p].ordinal + b.index - map[r].ordinal
      /\ map[r].ref + b.offset = At(b)
  BY Zenon DEF OnTimeline, ExpectedOrdinal
<1>4. b.ordinal = FirstOf(p) + b.index - FirstOf(r)
  <2> DEFINE f == FirstOf(p)
             g == FirstOf(r)
             x == b.index
             o == b.ordinal
  <2>1. o = (f - 1) + x - (g - 1) /\ f \in Nat /\ g \in Nat /\ x \in Nat
    BY <1>1, <1>2, <1>3
  <2> HIDE DEF f, g, x, o
  <2>2. o = f + x - g
    BY <2>1, SMT
  <2>3. QED BY <2>2 DEF f, g, x, o
<1>5. QED BY <1>2, <1>3, <1>4, Zenon DEF FirstOf

LEMMA PromiseJudged ==
    ASSUME TInv, phase # "load", Frames0, Numbers, Plain, Known, options.refAudio,
           NEW b \in JudgedBlock, JudgeAfter(b), ~KeepsPromise(b)
    PROVE  failed' \/ after' \/ ordinalMismatch'
<1> DEFINE missed == CompareBlock(NothingCompared, b, At(b)).mismatch
<1>1. /\ IsMapped(b) /\ (firstAfter /\ ~FirstIsMarked(b) => failed')
      /\ (~OnTimeline(b) => ordinalMismatch') /\ (missed => after')
  BY Zenon DEF JudgeAfter
<1>2. SUFFICES ASSUME ~missed, OnTimeline(b), firstAfter => FirstIsMarked(b)
               PROVE  KeepsPromise(b)
  BY <1>1
<1>3. b.pts # NoPts
  BY <1>1, Zenon DEF IsMapped
<1>4. /\ At(b) = RefPosition(FirstFrom(PacketStart(b.pts))) + b.index * b.auFrames
      /\ b.frames > 0 => At(b) = RefPosition(b.au) /\ b.frames <= Frames(b.au)
  BY <1>1, <1>2, SamplesPlaced
<1>5. b.estimated \/
          /\ b.ordinal = FirstFrom(PacketStart(b.pts)) + b.index - FirstFrom(PacketStart(resume))
          /\ RefPosition(FirstFrom(PacketStart(resume))) + b.offset = At(b)
  BY <1>1, <1>2, OrdinalPlaced
<1>6. firstAfter => b.discontinuity /\ b.position = 0
  BY <1>2, Zenon DEF FirstIsMarked
<1>7. QED BY <1>3, <1>4, <1>5, <1>6, Zenon DEF KeepsPromise

LEMMA JudgedSame ==
    ASSUME Next
    PROVE  \/ \E n \in AuIndices : PullB(n)
           \/ \E b \in AnyBlock : PullFaultyB(b)
           \/ FinishPassB
           \/ /\ UNCHANGED <<after, ordinalMismatch, deviated>>
              /\ failed => failed'
              /\ phase' \in InPassB \/ phase \notin InPassB
              /\ phase' = "done" => phase = "seek"
              /\ phase \in InPassB => UNCHANGED <<map, resume>>
<1> DEFINE Q == /\ UNCHANGED <<after, ordinalMismatch, deviated>>
                /\ phase' \in InPassB \/ phase \notin InPassB
                /\ phase' = "done" => phase = "seek"
                /\ phase \in InPassB => UNCHANGED <<map, resume>>
           R == failed => failed'
<1>1. ASSUME NEW length \in ChunkLengths, LoadChunk(length) PROVE Q /\ R
  <2>1. /\ phase = "load" /\ phase' = phase /\ failed' = failed
        /\ UNCHANGED <<after, ordinalMismatch, deviated>>
    BY <1>1, Zenon DEF LoadChunk, passBVars
  <2>2. QED BY <2>1, Zenon DEF InPassB
<1>2. ASSUME NEW n \in 1..MaxAus, LoadPacket(n) PROVE Q /\ R
  <2>1. /\ phase = "load" /\ phase' = phase /\ failed' = failed
        /\ UNCHANGED <<after, ordinalMismatch, deviated>>
    BY <1>2, Zenon DEF LoadPacket, passBVars
  <2>2. QED BY <2>1, Zenon DEF InPassB
<1>3. ASSUME StartPassA PROVE Q /\ R
  <2>1. /\ phase = "load" /\ phase' = "push A" /\ failed' = failed
        /\ UNCHANGED <<after, ordinalMismatch, deviated>>
    BY <1>3, Zenon DEF StartPassA, passBVars
  <2>2. QED BY <2>1, Zenon DEF InPassB
<1>4. ASSUME PushA PROVE Q /\ R
  <2>1. /\ phase = "push A" /\ phase' = "pull A" /\ failed' = failed
        /\ UNCHANGED <<after, ordinalMismatch, deviated>>
    BY <1>4, Zenon DEF PushA, passBVars
  <2>2. QED BY <2>1, Zenon DEF InPassB
<1>5. ASSUME PulledDryA PROVE Q /\ R
  <2>1. /\ phase = "pull A" /\ phase' = "push A" /\ failed' = failed
        /\ UNCHANGED <<after, ordinalMismatch, deviated>>
    BY <1>5, Zenon DEF PulledDryA, passBVars
  <2>2. QED BY <2>1, Zenon DEF InPassB
<1>6. ASSUME NEW n \in AuIndices, PullA(n) PROVE Q /\ R
  <2>1. phase = "pull A" /\ phase' = "updates" /\ failed' = failed
        /\ UNCHANGED <<after, ordinalMismatch, deviated>>
    BY <1>6, Zenon DEF PullA, passBVars
  <2>2. QED BY <2>1, Zenon DEF InPassB
<1>7. TakeUpdate => Q /\ R
  <2>1. TakeUpdate => R
    BY Zenon DEF TakeUpdate
  <2>2. TakeUpdate => Q
    BY Zenon DEF TakeUpdate, passBVars, InPassB
  <2>3. QED BY <2>1, <2>2
<1>8. ASSUME UpdatesTaken PROVE Q /\ R
  <2>1. /\ phase = "updates" /\ phase' = "pull A" /\ failed' = failed
        /\ UNCHANGED <<after, ordinalMismatch, deviated>>
    BY <1>8, Zenon DEF UpdatesTaken, passBVars
  <2>2. QED BY <2>1, Zenon DEF InPassB
<1>9. FinishPassA => Q /\ R
  <2>1. FinishPassA => R
    BY Zenon DEF FinishPassA
  <2>2. FinishPassA => Q
    BY Zenon DEF FinishPassA, passBVars, InPassB
  <2>3. QED BY <2>1, <2>2
<1>10. ASSUME MatchBed PROVE Q /\ R
  <2>1. /\ phase = "match" /\ phase' = phase /\ failed' = failed
        /\ UNCHANGED <<after, ordinalMismatch, deviated>>
    BY <1>10, Zenon DEF MatchBed, passBVars
  <2>2. QED BY <2>1, Zenon DEF InPassB
<1>11. ASSUME MatchEvent PROVE Q /\ R
  <2>1. /\ phase = "match" /\ phase' = phase /\ failed' = failed
        /\ UNCHANGED <<after, ordinalMismatch, deviated>>
    BY <1>11, Zenon DEF MatchEvent, passBVars
  <2>2. QED BY <2>1, Zenon DEF InPassB
<1>12. FinishMatch => Q /\ R
  <2>1. FinishMatch => R
    BY Zenon DEF FinishMatch
  <2>2. FinishMatch => Q
    BY Zenon DEF FinishMatch, passBVars, InPassB
  <2>3. QED BY <2>1, <2>2
<1>13. ASSUME NoPassB PROVE Q /\ R
  <2>1. /\ phase = "seek" /\ phase' = "done" /\ failed' = failed
        /\ UNCHANGED <<after, ordinalMismatch, deviated>>
    BY <1>13, Zenon DEF NoPassB, passBVars
  <2>2. QED BY <2>1, Zenon DEF InPassB
<1>14. ASSUME StartPassB PROVE Q /\ R
  <2>1. /\ phase = "seek" /\ phase' = "push B" /\ failed' = failed
        /\ UNCHANGED <<after, ordinalMismatch, deviated>>
    BY <1>14, Zenon DEF StartPassB
  <2>2. QED BY <2>1, Zenon DEF InPassB
<1>15. ASSUME PushB PROVE Q /\ R
  <2>1. /\ phase = "push B" /\ phase' = "pull B" /\ failed' = failed
        /\ UNCHANGED <<after, ordinalMismatch, deviated, map, resume>>
    BY <1>15, Zenon DEF PushB, passAVars, passBVars
  <2>2. QED BY <2>1, Zenon DEF InPassB
<1>16. ASSUME PulledDryB PROVE Q /\ R
  <2>1. /\ phase = "pull B" /\ phase' = "push B" /\ failed' = failed
        /\ UNCHANGED <<after, ordinalMismatch, deviated, map, resume>>
    BY <1>16, Zenon DEF PulledDryB, passAVars, passBVars
  <2>2. QED BY <2>1, Zenon DEF InPassB
<1>17. ASSUME PushRefused \/ PullFails PROVE Q /\ R
  <2>1. /\ phase \in {"push A", "pull A"} /\ phase' = "stopped" /\ failed'
        /\ UNCHANGED <<after, ordinalMismatch, deviated>>
    BY <1>17, Refused, Zenon
  <2>2. QED BY <2>1, Zenon DEF InPassB
<1> HIDE DEF Q, R
<1>18. \/ \E n \in AuIndices : PullB(n)
       \/ \E b \in AnyBlock : PullFaultyB(b)
       \/ FinishPassB
       \/ Q /\ R
  BY <1>1, <1>2, <1>3, <1>4, <1>5, <1>6, <1>7, <1>8, <1>9, <1>10, <1>11, <1>12, <1>13,
     <1>14, <1>15, <1>16, <1>17, Zenon DEF Next
<1>19. QED BY <1>18, Zenon DEF Q, R

LEMMA BlockJudged ==
    ASSUME Given, Cutting, Place, phase # "load", NEW n \in Ready
    PROVE  Block(n) \in JudgedBlock
<1> DEFINE b == Block(n)
           type(x) == [au |-> x.au, frames |-> x.frames, auFrames |-> x.auFrames,
                       pts |-> x.pts, index |-> x.index, ordinal |-> x.ordinal,
                       offset |-> x.offset, position |-> x.position,
                       discontinuity |-> x.discontinuity, estimated |-> x.estimated]
<1>1. /\ b.au \in AuIndices /\ b.frames \in Nat /\ b.auFrames \in Nat /\ b.pts \in Packets
      /\ b.index \in Nat /\ b.ordinal \in Int /\ b.position \in Nat
      /\ b.offset = b.ordinal * AuFrames
  BY BlockType, ReadyIs, Zenon
<1>2. b.offset \in Int
  <2> DEFINE o == b.ordinal
  <2>1. o \in Int /\ b.offset = o * AuFrames
    BY <1>1
  <2> HIDE DEF b, o
  <2>2. QED BY <2>1, SMT DEF AuFrames
<1>3. b.discontinuity \in BOOLEAN /\ b.estimated \in BOOLEAN
  <2>1. dec.fresh \in BOOLEAN
    BY Zenon DEF Place, Decoder
  <2>2. b.discontinuity = dec.fresh /\ b.estimated = FALSE
    BY Zenon DEF Block
  <2>3. QED BY <2>1, <2>2
<1>4. b = type(b)
  BY Zenon DEF Block
<1> HIDE DEF b
<1>5. type(b) \in JudgedBlock
  BY <1>1, <1>2, <1>3, Zenon DEF JudgedBlock
<1>6. b \in JudgedBlock
  <2> HIDE DEF type
  <2>1. QED BY <1>4, <1>5
<1>7. QED BY <1>6 DEF b

LEMMA AnyBlockJudged ==
    ASSUME Given
    PROVE  AnyBlock \subseteq JudgedBlock
<1>1. /\ 0..(MaxAus - 1) \subseteq Nat /\ {0, AuFrames} \subseteq Nat
      /\ 0..(Len(stream.aus) - 1) \subseteq Int
  BY SMT DEF AuFrames
<1>2. {0, stream.tail, AuFrames} \subseteq Nat
  <2>1. stream.tail \in 1..AuFrames
    BY StreamShape, SMT DEF Stream
  <2>2. stream.tail \in Nat /\ 0 \in Nat /\ AuFrames \in Nat
    BY <2>1, SMT DEF AuFrames
  <2>3. QED BY <2>2, Zenon
<1>3. {AuFrames * n : n \in 0..(Len(stream.aus) - 1)} \cup {1} \subseteq Int
  <2>1. ASSUME NEW n \in 0..(Len(stream.aus) - 1) PROVE AuFrames * n \in Int
    BY <1>1, SMT DEF AuFrames
  <2>2. 1 \in Int
    BY SMT
  <2>3. QED BY <2>1, <2>2, Zenon
<1> DEFINE offsets == {AuFrames * n : n \in 0..(Len(stream.aus) - 1)} \cup {1}
<1>4. AnyBlock = [au : AuIndices, frames : {0, stream.tail, AuFrames}, auFrames : {0, AuFrames},
                  pts : Packets \cup {NoPts}, index : 0..(MaxAus - 1),
                  ordinal : 0..(Len(stream.aus) - 1), offset : offsets,
                  position : {0, AuFrames}, discontinuity : BOOLEAN, estimated : BOOLEAN]
  BY DEF AnyBlock
<1>5. offsets \subseteq Int
  BY <1>3
<1> HIDE DEF offsets
<1>6. QED BY <1>1, <1>2, <1>4, <1>5, Zenon DEF JudgedBlock

\* One block judged.
LEMMA JudgeKept ==
    ASSUME TLInv, Judged, phase = "pull B", phase' \in {"push B", "pull B"},
           stream' = stream, options' = options, UNCHANGED <<map, resume>>, NEW b \in JudgedBlock, Judge(b)
    PROVE  Judged'
<1>1. TInv /\ Frames0 /\ Numbers /\ phase # "load"
  BY Zenon DEF TLInv, Learning, Past
<1>2. phase' \in InPassB /\ phase # "done" /\ phase' # "done"
  BY Zenon DEF InPassB
<1>3. Plain' => Plain
  <2>1. AuIndices' = AuIndices
    BY Zenon DEF AuIndices
  <2>2. QED BY <2>1, Zenon DEF Plain, OneLayout, InReference
<1>4. SUFFICES ASSUME deviated', options.refAudio, Plain, Known
               PROVE  failed' \/ after' \/ ordinalMismatch'
  BY <1>2, <1>3, Zenon DEF Judged, Known
<1>5. deviated => failed \/ after \/ ordinalMismatch
  BY <1>2, <1>4, Zenon DEF Judged
<1>6. CASE Lost(b)
  BY <1>6, Zenon DEF Lost
<1>7. CASE JudgeBefore(b)
  <2>1. UNCHANGED <<after, ordinalMismatch, deviated, failed>>
    BY <1>7, Zenon DEF JudgeBefore
  <2>2. QED BY <1>4, <1>5, <2>1
<1>8. CASE JudgeAfter(b)
  <2>1. (failed => failed') /\ (after => after') /\ (ordinalMismatch => ordinalMismatch')
    BY <1>8, Zenon DEF JudgeAfter
  <2>2. deviated \/ ~KeepsPromise(b)
    BY <1>4, <1>8, Zenon DEF JudgeAfter
  <2>3. ~KeepsPromise(b) => failed' \/ after' \/ ordinalMismatch'
    BY <1>1, <1>4, <1>8, PromiseJudged
  <2>4. QED BY <1>5, <2>1, <2>2, <2>3
<1>9. QED BY <1>6, <1>7, <1>8, Zenon DEF Judge

LEMMA JudgedKept ==
    ASSUME TLInv, Judged, Next
    PROVE  Judged'
<1>1. stream' = stream /\ options' = options /\ Given /\ Cutting /\ Place
  BY SourceKept, Zenon DEF TLInv, TInv
<1>2. Plain' => Plain
  <2>1. AuIndices' = AuIndices
    BY <1>1, Zenon DEF AuIndices
  <2>2. QED BY <1>1, <2>1, Zenon DEF Plain, OneLayout, InReference
<1>3. ASSUME NEW n \in AuIndices, PullB(n) PROVE Judged'
  <2>1. /\ phase = "pull B" /\ phase' \in {"push B", "pull B"} /\ Judge(Block(n))
        /\ n \in Ready /\ UNCHANGED <<map, resume>>
    BY <1>3, Zenon DEF PullB, Pulled, Seek, passAVars
  <2>2. Block(n) \in JudgedBlock
    BY <1>1, <2>1, BlockJudged
  <2>3. QED BY <1>1, <2>1, <2>2, JudgeKept
<1>4. ASSUME NEW b \in AnyBlock, PullFaultyB(b) PROVE Judged'
  <2>1. /\ phase = "pull B" /\ phase' \in {"push B", "pull B"} /\ Judge(b)
        /\ UNCHANGED <<map, resume>>
    BY <1>4, Zenon DEF PullFaultyB, passAVars
  <2>2. b \in JudgedBlock
    BY <1>1, AnyBlockJudged
  <2>3. QED BY <1>1, <2>1, <2>2, JudgeKept
<1>5. CASE FinishPassB
  <2>1. /\ phase' = "done" /\ UNCHANGED <<after, ordinalMismatch, deviated, map, resume>>
        /\ phase = "push B" /\ (failed \/ ~PassBOk => failed')
    BY <1>5, Zenon DEF FinishPassB, passAVars, passBVars
  <2>2. after \/ ordinalMismatch => ~PassBOk
    BY Zenon DEF PassBOk
  <2>3. QED BY <1>1, <1>2, <2>1, <2>2, Zenon DEF Judged, InPassB, Known
<1>6. CASE /\ UNCHANGED <<after, ordinalMismatch, deviated>>
           /\ failed => failed'
           /\ phase' \in InPassB \/ phase \notin InPassB
           /\ phase' = "done" => phase = "seek"
           /\ phase \in InPassB => UNCHANGED <<map, resume>>
  <2>1. phase' \notin InPassB => ~deviated'
    BY <1>6, Zenon DEF Judged
  <2>2. phase' = "done" => ~deviated'
    BY <1>6, Zenon DEF Judged, InPassB
  <2>3. deviated' /\ options'.refAudio /\ Plain' /\ Known' =>
            failed' \/ (phase' # "done" /\ (after' \/ ordinalMismatch'))
    <3>1. SUFFICES ASSUME deviated', options.refAudio, Plain, Known'
                   PROVE  failed' \/ (phase' # "done" /\ (after' \/ ordinalMismatch'))
      BY <1>1, <1>2
    <3>2. phase \in InPassB /\ deviated /\ phase' # "done"
      BY <1>6, <2>2, <3>1, Zenon DEF Judged
    <3>3. Known
      BY <1>6, <3>1, <3>2, Zenon DEF Known
    <3>4. QED BY <1>6, <3>1, <3>2, <3>3, Zenon DEF Judged
  <2>4. QED BY <2>1, <2>3, Zenon DEF Judged, InPassB
<1>7. QED BY <1>3, <1>4, <1>5, <1>6, JudgedSame

\* With a reference and a resume packet that pass A knows, a run only passes if
\* every block after the reset was what it should be, whatever the decoder put
\* into its fields (compare_block, harness.c:179-201, and pass B, 643-668): as many
\* samples as it stated were those of its place, its number and its offset led
\* there unless flagged, and the first was marked. It may have stated none.
THEOREM PassedResetKept == Spec => []PassMeansResetKept
<1> DEFINE Inv == TLInv /\ Judged
<1>1. Init => Inv
  <2>1. Init => ~deviated
    BY Zenon DEF Init
  <2>2. ~deviated => Judged
    BY Zenon DEF Judged
  <2>3. Init => TLInv
    <3>1. Init => TLInv
      BY LearningStart
    <3>2. QED BY <3>1
  <2>4. QED BY <2>1, <2>2, <2>3
<1>2. Inv /\ [Next]_vars => Inv'
  <2> SUFFICES ASSUME Inv, [Next]_vars PROVE Inv'
    OBVIOUS
  <2>1. TLInv'
    BY LearningStep
  <2>2. CASE Next
    BY <2>1, <2>2, JudgedKept
  <2>3. CASE UNCHANGED vars
    <3>1. UNCHANGED <<options, stream, phase, failed>>
      BY <2>3, Zenon DEF vars, fixedVars
    <3>2. UNCHANGED <<after, ordinalMismatch, deviated, map, resume>>
      BY <2>3, Zenon DEF vars, passAVars, passBVars
    <3>3. Plain' => Plain
      <4>1. AuIndices' = AuIndices
        BY <3>1, Zenon DEF AuIndices
      <4>2. QED BY <3>1, <4>1, Zenon DEF Plain, OneLayout, InReference
    <3>4. Judged'
      BY <3>1, <3>2, <3>3, Zenon DEF Judged, InPassB, Known
    <3>5. QED BY <2>1, <3>4
  <2>4. QED BY <2>2, <2>3
<1>3. Inv => PassMeansResetKept
  <2>1. [pts |-> resume].pts = resume
    OBVIOUS
  <2>2. IsMapped([pts |-> resume]) => Known
    BY <2>1, Zenon DEF IsMapped, Known
  <2>3. QED BY <2>2, Zenon DEF Judged, PassMeansResetKept, Passes
<1> HIDE DEF Inv
<1>4. QED BY <1>1, <1>2, <1>3, PTL DEF Spec

-----------------------------------------------------------------------------
(* Where a sound decoder is on the reference's timeline.                   *)

\* Of some numbers up to a bound one is the greatest.
LEMMA GreatestNumber ==
    ASSUME NEW N \in Nat, NEW T, T \subseteq 1..N, T # {}
    PROVE  \E x \in T : \A y \in T : y <= x
<1> DEFINE S == {n \in Nat : \E x \in T : n = N - x}
<1>1. ASSUME NEW x \in T PROVE x \in Nat /\ N - x \in Nat
  <2>1. x \in 1..N
    OBVIOUS
  <2>2. QED BY <2>1, SMT
<1>2. S \subseteq Nat /\ S # {}
  BY <1>1
<1>3. PICK n \in S : \A m \in S : n <= m
  BY <1>2, LeastNumber, Zenon
<1>4. PICK x \in T : n = N - x
  BY <1>3
<1>5. ASSUME NEW y \in T PROVE y <= x
  <2>1. n <= N - y
    BY <1>1, <1>3
  <2>2. QED BY <1>1, <1>4, <2>1, SMT
<1>6. QED BY <1>5

\* The access units before n that the reference has.
Behind(n) == {m \in 1..(n - 1) : InReference(m)}

LEMMA BehindFinite ==
    ASSUME NEW n \in Nat
    PROVE  IsFiniteSet(Behind(n)) /\ Cardinality(Behind(n)) \in Nat
<1>1. IsFiniteSet(1..(n - 1))
  <2>1. 1 \in Int /\ n - 1 \in Int
    BY SMT
  <2>2. QED BY <2>1, FS_Interval, Zenon
<1>2. Behind(n) \in SUBSET (1..(n - 1))
  BY Zenon DEF Behind
<1>3. IsFiniteSet(Behind(n))
  BY <1>1, <1>2, FS_Subset
<1>4. QED BY <1>3, FS_CardinalityType

LEMMA RefPositionType ==
    ASSUME NEW n \in Nat
    PROVE  RefPosition(n) \in Nat /\ RefPosition(n) = AuFrames * Cardinality(Behind(n))
<1>1. RefPosition(n) = AuFrames * Cardinality(Behind(n))
  BY Zenon DEF RefPosition, Behind
<1>2. Cardinality(Behind(n)) \in Nat
  BY BehindFinite
<1>3. QED BY <1>1, <1>2, SMT DEF AuFrames

\* The first that the reference has is at its beginning.
LEMMA RefPositionFirst ==
    ASSUME NEW n \in Nat, \A m \in 1..(n - 1) : ~InReference(m)
    PROVE  RefPosition(n) = 0
<1>1. Behind(n) = {}
  BY Zenon DEF Behind
<1>2. Cardinality(Behind(n)) = 0
  BY <1>1, FS_EmptySet, Zenon
<1>3. QED BY <1>2, RefPositionType, SMT DEF AuFrames

\* The next is an access unit on.
LEMMA RefPositionNext ==
    ASSUME NEW a \in Nat, NEW n \in Nat, 1 <= a, a < n, InReference(a),
           \A m \in (a + 1)..(n - 1) : ~InReference(m)
    PROVE  RefPosition(n) = RefPosition(a) + AuFrames
<1>1. ASSUME NEW m
      PROVE  m \in 1..(n - 1) <=> m \in 1..(a - 1) \/ m = a \/ m \in (a + 1)..(n - 1)
  BY SMT
<1>2. Behind(n) = Behind(a) \cup {a}
  BY <1>1, Zenon DEF Behind
<1>3. a \notin Behind(a)
  <2>1. a \notin 1..(a - 1)
    BY SMT
  <2>2. QED BY <2>1, Zenon DEF Behind
<1>4. Cardinality(Behind(n)) = Cardinality(Behind(a)) + 1
  BY <1>2, <1>3, BehindFinite, FS_AddElement
<1> DEFINE b == Cardinality(Behind(a))
           c == Cardinality(Behind(n))
           x == RefPosition(a)
           y == RefPosition(n)
<1>5. c = b + 1 /\ b \in Nat /\ x = AuFrames * b /\ y = AuFrames * c
  BY <1>4, BehindFinite, RefPositionType, Zenon
<1>6. y = x + AuFrames
  <2> HIDE DEF b, c, x, y
  <2>1. QED BY <1>5, SMT DEF AuFrames
<1>7. QED BY <1>6

\* What comes after one is at least an access unit on.
LEMMA RefPositionLater ==
    ASSUME NEW a \in Nat, NEW n \in Nat, 1 <= a, a < n, InReference(a)
    PROVE  RefPosition(a) + AuFrames <= RefPosition(n)
<1>1. ASSUME NEW m \in 1..(a - 1) PROVE m \in 1..(n - 1)
  BY SMT
<1>2. a \in 1..(n - 1)
  BY SMT
<1>3. Behind(a) \cup {a} \in SUBSET Behind(n)
  BY <1>1, <1>2, Zenon DEF Behind
<1>4. a \notin Behind(a)
  <2>1. a \notin 1..(a - 1)
    BY SMT
  <2>2. QED BY <2>1, Zenon DEF Behind
<1>5. Cardinality(Behind(a) \cup {a}) = Cardinality(Behind(a)) + 1
  BY <1>4, BehindFinite, FS_AddElement
<1>6. Cardinality(Behind(a) \cup {a}) <= Cardinality(Behind(n))
  BY <1>3, BehindFinite, FS_Subset
<1> DEFINE b == Cardinality(Behind(a))
           c == Cardinality(Behind(n))
           x == RefPosition(a)
           y == RefPosition(n)
<1>7. b + 1 <= c /\ b \in Nat /\ c \in Nat /\ x = AuFrames * b /\ y = AuFrames * c
  BY <1>5, <1>6, BehindFinite, RefPositionType, Zenon
<1>8. x + AuFrames <= y
  <2> HIDE DEF b, c, x, y
  <2>1. QED BY <1>7, SMT DEF AuFrames
<1>9. QED BY <1>8

LEMMA FramesBound ==
    ASSUME Given, NEW n \in AuIndices
    PROVE  Frames(n) \in Nat /\ Frames(n) <= AuFrames /\ (n # Len(stream.aus) => Frames(n) = AuFrames)
<1>1. stream.tail \in 1..AuFrames
  BY StreamShape, SMT DEF Stream
<1>2. stream.tail <= AuFrames /\ AuFrames <= AuFrames
  BY <1>1, SMT DEF AuFrames
<1>3. QED BY <1>2, FramesType, Zenon DEF Frames

\* The reference ends with the last access unit it has.
LEMMA RefFramesLast ==
    ASSUME Given, NEW n \in AuIndices, InReference(n),
           \A m \in (n + 1)..Len(stream.aus) : ~InReference(m)
    PROVE  RefFrames = RefPosition(n) + Frames(n)
<1> DEFINE Last(x) == InReference(x) /\ \A m \in (x + 1)..Len(stream.aus) : ~InReference(m)
           last == CHOOSE x \in AuIndices : Last(x)
<1>1. last \in AuIndices /\ Last(last)
  <2>1. Last(n)
    OBVIOUS
  <2> HIDE DEF Last
  <2>2. QED BY <2>1, Zenon
<1>2. last = n
  <2> HIDE DEF last
  <2>1. /\ last \in Nat /\ n \in Nat /\ last <= Len(stream.aus) /\ n <= Len(stream.aus)
        /\ Len(stream.aus) \in Nat
    BY <1>1, AuFields, AuCount, Zenon
  <2>2. last < n => n \in (last + 1)..Len(stream.aus)
    BY <2>1, SMT
  <2>3. n < last => last \in (n + 1)..Len(stream.aus)
    BY <2>1, SMT
  <2>4. ~(last < n) /\ ~(n < last)
    BY <1>1, <2>2, <2>3, Zenon
  <2>5. QED BY <2>1, <2>4, SMT
<1>3. RefFrames = RefPosition(last) + Frames(last)
  BY Zenon DEF RefFrames
<1>4. QED BY <1>2, <1>3, Zenon

LEMMA RefFramesNone ==
    ASSUME \A n \in AuIndices : ~InReference(n)
    PROVE  RefFrames = 0
  BY Zenon DEF RefFrames

\* No access unit of the reference lies beyond its end.
LEMMA RefFramesBound ==
    ASSUME Given, NEW n \in AuIndices, InReference(n)
    PROVE  RefFrames \in Nat /\ RefPosition(n) + Frames(n) <= RefFrames
<1> DEFINE T == {m \in AuIndices : InReference(m)}
           N == Len(stream.aus)
<1>1. N \in Nat /\ T \subseteq 1..N /\ T # {}
  BY AuCount, Zenon DEF AuIndices
<1>2. PICK l \in T : \A m \in T : m <= l
  <2> HIDE DEF N, T
  <2>1. QED BY <1>1, GreatestNumber
<1>3. l \in AuIndices /\ InReference(l) /\ l \in Nat /\ n \in Nat /\ n <= l /\ 1 <= n
  BY <1>2, AuFields, Zenon
<1>4. ASSUME NEW m \in (l + 1)..N PROVE ~InReference(m)
  <2>1. ~(m <= l) /\ m \in AuIndices
    BY <1>1, <1>3, SMT DEF AuIndices
  <2>2. QED BY <1>2, <2>1, Zenon
<1>5. RefFrames = RefPosition(l) + Frames(l)
  BY <1>3, <1>4, RefFramesLast
<1>6. /\ RefPosition(l) \in Nat /\ RefPosition(n) \in Nat /\ Frames(l) \in Nat
      /\ Frames(n) \in Nat /\ Frames(n) <= AuFrames /\ AuFrames \in Nat
  <2>1. AuFrames \in Nat
    BY SMT DEF AuFrames
  <2>2. QED BY <1>3, <2>1, RefPositionType, FramesBound
<1>7. CASE n = l
  BY <1>5, <1>6, <1>7, SMT
<1>8. CASE n < l
  <2>1. RefPosition(n) + AuFrames <= RefPosition(l)
    BY <1>3, <1>8, RefPositionLater
  <2> DEFINE a == RefPosition(n)
             b == RefPosition(l)
             f == Frames(n)
             g == Frames(l)
             r == RefFrames
  <2>2. r \in Nat /\ a + f <= r
    <3>1. /\ r = b + g /\ a \in Nat /\ b \in Nat /\ f \in Nat /\ g \in Nat /\ f <= AuFrames
          /\ a + AuFrames <= b /\ AuFrames \in Nat
      BY <1>5, <1>6, <2>1
    <3> HIDE DEF a, b, f, g, r
    <3>2. QED BY <3>1, SMT
  <2>3. QED BY <2>2
<1>9. QED BY <1>3, <1>7, <1>8, SMT

-----------------------------------------------------------------------------
(* How far a sound decoder gets.                                           *)

\* One that began with the first packet is behind an access unit of the
\* reference, where that one ends.
Reached ==
    /\ dec.first = 1
    /\ dec.live => /\ 1 < dec.next /\ InReference(dec.next - 1)
                   /\ dec.frames = RefPosition(dec.next - 1) + Frames(dec.next - 1)
    /\ ~dec.live => dec.next = 1 /\ dec.frames = 0

Drained == phase \in {"push A", "push B"} /\ ~AfterFaultyReset => Ready = {}

Following == (~resetDone => Reached) /\ Drained

LEMMA ReachedReady ==
    ASSUME Given, Place, Reached, NEW n \in AuIndices
    PROVE  n \in Ready <=> dec.next <= n /\ stream.aus[n].end <= dec.upTo /\ InReference(n)
<1>1. /\ n \in Nat /\ 1 <= n /\ n <= Len(stream.aus) /\ Len(stream.aus) \in Nat
      /\ dec.next \in Nat /\ 1 <= dec.next
  BY AuFields, AuCount, SMT DEF Place
<1>2. n \in dec.next..Len(stream.aus) <=> dec.next <= n
  BY <1>1, SMT
<1>3. ASSUME dec.next <= n, stream.aus[n].kind # "duplicate"
      PROVE  (dec.live \/ \E s \in dec.next..n : stream.aus[s].kind = "sync") <=> InReference(n)
  <2>1. CASE dec.live
    <3>1. InReference(dec.next - 1) /\ 1 < dec.next
      BY <2>1, Zenon DEF Reached
    <3>2. PICK s \in 1..(dec.next - 1) : stream.aus[s].kind = "sync"
      BY <3>1, Zenon DEF InReference
    <3>3. s \in 1..n
      BY <1>1, <1>3, SMT
    <3>4. QED BY <1>3, <2>1, <3>2, <3>3, Zenon DEF InReference
  <2>2. CASE ~dec.live
    <3>1. dec.next = 1
      BY <2>2, Zenon DEF Reached
    <3>2. QED BY <1>3, <2>2, <3>1, Zenon DEF InReference
  <2>3. QED BY <2>1, <2>2
<1>4. QED BY <1>2, <1>3, Zenon DEF Ready, InReference

\* The next pulled is the next that the reference has, at its place.
LEMMA PulledNext ==
    ASSUME Given, Place, Reached, NEW n \in AuIndices, Pulled(n)
    PROVE  /\ InReference(n) /\ dec.next <= n
           /\ \A m \in dec.next..(n - 1) : ~InReference(m)
           /\ dec.frames = RefPosition(n)
<1>1. n \in Ready /\ \A m \in Ready : n <= m
  BY Zenon DEF Pulled
<1>2. /\ dec.next <= n /\ stream.aus[n].end <= dec.upTo /\ InReference(n)
      /\ n \in Nat /\ 1 <= n /\ n <= Len(stream.aus) /\ Len(stream.aus) \in Nat
      /\ dec.next \in Nat /\ 1 <= dec.next /\ dec.upTo \in Nat
  <2>1. dec.next \in Nat /\ 1 <= dec.next /\ dec.upTo \in Nat
    BY AuCount, SMT DEF Place, Decoder
  <2>2. QED BY <1>1, <2>1, ReachedReady, AuFields, AuCount, Zenon
<1>3. ASSUME NEW m \in dec.next..(n - 1) PROVE ~InReference(m)
  <2>1. m \in AuIndices /\ dec.next <= m /\ m < n /\ m \in Nat
    BY <1>2, SMT DEF AuIndices
  <2>2. stream.aus[m].end <= stream.aus[n].start
    BY <2>1, AusOrdered
  <2>3. /\ stream.aus[n].start < stream.aus[n].end /\ stream.aus[m].end \in Nat
        /\ stream.aus[n].start \in Nat /\ stream.aus[n].end \in Nat
    BY <2>1, AuFields, Zenon
  <2>4. stream.aus[m].end <= dec.upTo
    BY <1>2, <2>2, <2>3, SMT
  <2>5. ~(n <= m)
    BY <1>2, <2>1, SMT
  <2>6. m \notin Ready
    BY <1>1, <2>5
  <2>7. QED BY <2>1, <2>4, <2>6, ReachedReady
<1>4. CASE dec.live
  <2> DEFINE a == dec.next - 1
  <2>1. /\ InReference(a) /\ a \in Nat /\ 1 <= a /\ a < n
        /\ dec.frames = RefPosition(a) + Frames(a) /\ a + 1 = dec.next
    <3>1. InReference(a) /\ 1 < dec.next /\ dec.frames = RefPosition(a) + Frames(a)
      BY <1>4, Zenon DEF Reached
    <3>2. QED BY <1>2, <3>1, SMT
  <2>2. Frames(a) = AuFrames
    <3>1. a \in AuIndices
      BY <2>1, Zenon DEF InReference
    <3>2. a # Len(stream.aus)
      BY <1>2, <2>1, SMT
    <3>3. QED BY <3>1, <3>2, FramesBound
  <2>3. \A m \in (a + 1)..(n - 1) : ~InReference(m)
    BY <1>3, <2>1
  <2> HIDE DEF a
  <2>4. RefPosition(n) = RefPosition(a) + AuFrames
    BY <1>2, <2>1, <2>3, RefPositionNext
  <2>5. QED BY <1>2, <1>3, <2>1, <2>2, <2>4, Zenon
<1>5. CASE ~dec.live
  <2>1. dec.next = 1 /\ dec.frames = 0
    BY <1>5, Zenon DEF Reached
  <2>2. RefPosition(n) = 0
    BY <1>2, <1>3, <2>1, RefPositionFirst
  <2>3. QED BY <1>2, <1>3, <2>1, <2>2, Zenon
<1>6. QED BY <1>4, <1>5

\* And when nothing is left to pull it has decoded all there is.
LEMMA ReachedEnd ==
    ASSUME Given, Place, Reached, Ready = {}, dec.upTo = Size
    PROVE  /\ dec.frames = RefFrames
           /\ \A n \in AuIndices : InReference(n) => n < dec.next
<1>1. dec.next \in Nat /\ 1 <= dec.next /\ dec.next <= Len(stream.aus) + 1 /\ Len(stream.aus) \in Nat
  BY AuCount, SMT DEF Place
<1>2. ASSUME NEW n \in AuIndices, InReference(n) PROVE n < dec.next
  <2>1. stream.aus[n].end <= dec.upTo /\ n \in Nat
    BY EndsInside, AuFields, Zenon
  <2>2. ~(dec.next <= n)
    BY <1>2, <2>1, ReachedReady, Zenon
  <2>3. QED BY <1>1, <2>1, <2>2, SMT
<1>3. CASE dec.live
  <2> DEFINE a == dec.next - 1
  <2>1. InReference(a) /\ 1 < dec.next /\ dec.frames = RefPosition(a) + Frames(a)
    BY <1>3, Zenon DEF Reached
  <2>2. a \in AuIndices
    BY <2>1, Zenon DEF InReference
  <2>3. \A m \in (a + 1)..Len(stream.aus) : ~InReference(m)
    <3>1. SUFFICES ASSUME NEW m \in (a + 1)..Len(stream.aus), InReference(m) PROVE FALSE
      OBVIOUS
    <3>2. ~(m < dec.next)
      BY <1>1, SMT
    <3>3. m \in AuIndices
      BY <3>1, Zenon DEF InReference
    <3>4. QED BY <1>2, <3>1, <3>2, <3>3
  <2> HIDE DEF a
  <2>4. RefFrames = RefPosition(a) + Frames(a)
    BY <2>1, <2>2, <2>3, RefFramesLast
  <2>5. QED BY <1>2, <2>1, <2>4
<1>4. CASE ~dec.live
  <2>1. dec.next = 1 /\ dec.frames = 0
    BY <1>4, Zenon DEF Reached
  <2>2. \A n \in AuIndices : ~InReference(n)
    <3>1. \A n \in AuIndices : n \in Nat /\ 1 <= n
      BY AuFields
    <3>2. \A n \in AuIndices : ~(n < dec.next)
      BY <2>1, <3>1, SMT
    <3>3. QED BY <1>2, <3>2
  <2>3. QED BY <1>2, <2>1, <2>2, RefFramesNone, Zenon
<1>5. QED BY <1>3, <1>4

\* A pull leaves it behind the next.
LEMMA ReachedAfter ==
    ASSUME Given, Place, Reached, NEW n \in AuIndices, Pulled(n), stream' = stream, dec' = After(n)
    PROVE  Reached'
<1>1. n \in Ready /\ n \in Nat /\ 1 <= n
  BY AuFields, Zenon DEF Pulled
<1>2. /\ dec'.next = n + 1 /\ dec'.first = dec.first /\ dec'.live = TRUE
      /\ dec'.frames = dec.frames + Frames(n)
  BY <1>1, AfterType
<1>3. InReference(n) /\ dec.frames = RefPosition(n)
  BY PulledNext
<1>4. dec'.next - 1 = n /\ 1 < dec'.next
  BY <1>1, <1>2, SMT
<1>5. AuIndices' = AuIndices
  BY Zenon DEF AuIndices
<1>6. InReference(n)' /\ RefPosition(n)' = RefPosition(n) /\ Frames(n)' = Frames(n)
  BY <1>3, <1>5, Zenon DEF InReference, RefPosition, Frames
<1>7. dec'.frames = RefPosition(n)' + Frames(n)'
  BY <1>2, <1>3, <1>6, Zenon
<1>8. /\ InReference(dec.next - 1)'
      /\ dec'.frames = RefPosition(dec.next - 1)' + Frames(dec.next - 1)'
  BY <1>4, <1>6, <1>7, Zenon DEF InReference, RefPosition, Frames
<1>9. QED BY <1>2, <1>4, <1>8, Zenon DEF Reached

LEMMA ReachedStart ==
    ASSUME Given, dec = FedFrom(0)
    PROVE  Reached
<1>1. dec.first = 1 /\ dec.next = 1 /\ dec.frames = 0
  BY InOrderAtStart
<1>2. dec.live = FALSE
  BY Zenon DEF FedFrom
<1>3. QED BY <1>1, <1>2, Zenon DEF Reached

LEMMA ReachedSame ==
    ASSUME stream' = stream, dec'.first = dec.first, dec'.next = dec.next, dec'.live = dec.live,
           dec'.frames = dec.frames, Reached
    PROVE  Reached'
<1>1. AuIndices' = AuIndices
  BY Zenon DEF AuIndices
<1>2. InReference(dec.next - 1)' <=> InReference(dec.next - 1)
  BY <1>1, Zenon DEF InReference
<1>3. RefPosition(dec.next - 1)' = RefPosition(dec.next - 1)
  BY <1>1, Zenon DEF InReference, RefPosition
<1>4. Frames(dec.next - 1)' = Frames(dec.next - 1)
  BY Zenon DEF Frames
<1>5. QED BY <1>2, <1>3, <1>4, Zenon DEF Reached

\* Nothing is whole behind the packet resumed at before that one is pushed.
LEMMA ResumedDry ==
    ASSUME Given, NEW byte \in Nat, dec = FedFrom(byte)
    PROVE  Ready = {}
<1>1. dec.next = FirstFrom(byte) /\ dec.upTo = byte
  BY Zenon DEF FedFrom
<1>2. ASSUME NEW n \in Ready PROVE FALSE
  <2>1. n \in dec.next..Len(stream.aus) /\ stream.aus[n].end <= dec.upTo
    BY Zenon DEF Ready
  <2>2. dec.next \in 1..(Len(stream.aus) + 1)
    BY <1>1, FirstFromSplits
  <2>3. n \in AuIndices /\ ~(n < dec.next)
    BY <2>1, <2>2, AuCount, SMT DEF AuIndices
  <2>4. ~(stream.aus[n].start < byte)
    BY <1>1, <2>3, FirstFromSplits, Zenon
  <2>5. /\ stream.aus[n].start < stream.aus[n].end /\ stream.aus[n].start \in Nat
        /\ stream.aus[n].end \in Nat
    BY <2>3, AuFields
  <2>6. QED BY <1>1, <2>1, <2>4, <2>5, SMT
<1>3. QED BY <1>2

\* What pass B judges by is as it was until then.
Untouched ==
    phase \notin InPassB =>
        ~resetDone /\ firstAfter /\ ~before /\ ~after /\ ~ordinalMismatch

LEMMA UntouchedSame ==
    ASSUME Next
    PROVE  /\ phase \in InPassB => phase' \in InPassB
           /\ phase \notin InPassB =>
                  UNCHANGED <<resetDone, firstAfter, before, after, ordinalMismatch>>
<1> DEFINE Same == UNCHANGED <<resetDone, firstAfter, before, after, ordinalMismatch>>
           Q == phase \notin InPassB /\ Same
           R == phase \in InPassB /\ phase' \in InPassB
<1>1. ASSUME \/ \E length \in ChunkLengths : LoadChunk(length)
             \/ \E n \in 1..MaxAus : LoadPacket(n)
      PROVE Q
  BY <1>1, Zenon DEF LoadChunk, LoadPacket, passBVars, InPassB
<1>2. StartPassA \/ PushA \/ PulledDryA => Q
  BY Zenon DEF StartPassA, PushA, PulledDryA, passBVars, InPassB
<1>3. (\E n \in AuIndices : PullA(n)) => Q
  BY Zenon DEF PullA, passBVars, InPassB
<1>4. TakeUpdate \/ UpdatesTaken \/ FinishPassA => Q
  BY Zenon DEF TakeUpdate, UpdatesTaken, FinishPassA, passBVars, InPassB
<1>5. MatchBed \/ MatchEvent \/ FinishMatch => Q
  BY Zenon DEF MatchBed, MatchEvent, FinishMatch, passBVars, InPassB
<1>6. NoPassB \/ StartPassB => Q
  BY Zenon DEF NoPassB, StartPassB, passBVars, InPassB
<1>7. PushB \/ PulledDryB \/ FinishPassB => R
  BY Zenon DEF PushB, PulledDryB, FinishPassB, InPassB
<1>8. ASSUME NEW n \in AuIndices, PullB(n) PROVE R
  <2>1. phase = "pull B" /\ (phase' = "push B" \/ phase' = phase)
    BY <1>8, Zenon DEF PullB, Seek
  <2>2. QED BY <2>1, Zenon DEF InPassB
<1>9. (\E b \in AnyBlock : PullFaultyB(b)) => R
  BY Zenon DEF PullFaultyB, InPassB
<1>10. ASSUME PushRefused \/ PullFails PROVE Q
  <2>1. phase \in {"push A", "pull A"} /\ Same
    BY <1>10, Refused, Zenon
  <2>2. QED BY <2>1, Zenon DEF InPassB
<1>11. Q \/ R
  <2> HIDE DEF Q, R
  <2>1. QED
    BY <1>1, <1>2, <1>3, <1>4, <1>5, <1>6, <1>7, <1>8, <1>9, <1>10, Zenon DEF Next
<1>12. QED BY <1>11

LEMMA UntouchedKept == Untouched /\ Next => Untouched'
<1> SUFFICES ASSUME Untouched, Next, phase' \notin InPassB
             PROVE  (~resetDone /\ firstAfter /\ ~before /\ ~after /\ ~ordinalMismatch)'
  BY Zenon DEF Untouched, InPassB
<1>1. phase \notin InPassB
  BY UntouchedSame
<1>2. UNCHANGED <<resetDone, firstAfter, before, after, ordinalMismatch>>
  BY <1>1, UntouchedSame
<1>3. QED BY <1>1, <1>2, Zenon DEF Untouched

LEMMA FollowingSame ==
    ASSUME Next
    PROVE  \/ StartPassA \/ PushA \/ PulledDryA \/ StartPassB \/ PushB \/ PulledDryB
           \/ \E n \in AuIndices : PullA(n) \/ PullB(n)
           \/ dec' = dec /\ resetDone' = resetDone /\ phase' \notin {"push A", "push B"}
<1> DEFINE Q == dec' = dec /\ resetDone' = resetDone /\ phase' \notin {"push A", "push B"}
<1>1. (\E length \in ChunkLengths : LoadChunk(length)) \/ (\E n \in 1..MaxAus : LoadPacket(n)) => Q
  BY Zenon DEF LoadChunk, LoadPacket, passBVars
<1>2. TakeUpdate \/ UpdatesTaken \/ FinishPassA => Q
  BY Zenon DEF TakeUpdate, UpdatesTaken, FinishPassA, passBVars
<1>3. MatchBed \/ MatchEvent \/ FinishMatch \/ NoPassB => Q
  BY Zenon DEF MatchBed, MatchEvent, FinishMatch, NoPassB, passBVars
<1>4. (\E b \in AnyBlock : PullFaultyB(b)) \/ FinishPassB => Q
  BY Zenon DEF PullFaultyB, FinishPassB, passBVars
<1>5. ASSUME PushRefused \/ PullFails PROVE Q
  <2>1. dec' = dec /\ resetDone' = resetDone /\ phase' = "stopped"
    BY <1>5, Refused, Zenon
  <2>2. QED BY <2>1
<1> HIDE DEF Q
<1>6. \/ StartPassA \/ PushA \/ PulledDryA \/ StartPassB \/ PushB \/ PulledDryB
      \/ \E n \in AuIndices : PullA(n) \/ PullB(n)
      \/ Q
  BY <1>1, <1>2, <1>3, <1>4, <1>5, Zenon DEF Next
<1>7. QED BY <1>6 DEF Q

\* Created, or reset and fed from the resume packet on.
Created == dec = FedFrom(0)
Sought  == PacketStart(resume) \in Nat /\ dec = FedFrom(PacketStart(resume))
Dry     == Ready = {}

LEMMA CreatedDry == Given /\ Created => Reached /\ Dry
  BY ReachedStart, InOrderAtStart DEF Created, Dry

LEMMA SoughtDry == Given /\ Sought => Dry
<1> SUFFICES ASSUME Given, Sought PROVE Dry
  OBVIOUS
<1> DEFINE byte == PacketStart(resume)
<1>1. byte \in Nat /\ dec = FedFrom(byte)
  BY DEF Sought
<1> HIDE DEF byte
<1>2. QED BY <1>1, ResumedDry DEF Dry

LEMMA FollowingKept ==
    ASSUME TInv, Following, Untouched, Next
    PROVE  Following'
<1>1. /\ stream' = stream /\ options' = options /\ Given /\ Given' /\ Cutting /\ Place
      /\ Reached \/ resetDone
  BY SourceKept, GivenKept, Zenon DEF TInv, Following
<1>2. CASE StartPassA
  <2>1. phase = "load" /\ dec' = dec /\ resetDone' = resetDone /\ phase' = "push A"
    BY <1>2, Zenon DEF StartPassA, passBVars
  <2>2. Reached => Reached'
    BY <1>1, <2>1, ReachedSame
  <2>3. dec = FedFrom(0)
    BY <1>1, <2>1, Zenon DEF Place
  <2>4. Ready = {} /\ Ready' = Ready
    BY <1>1, <2>1, <2>3, InOrderAtStart, ReadySame
  <2>5. QED BY <1>1, <2>1, <2>2, <2>4, Zenon DEF Following, Drained
<1>3. CASE PushA \/ PushB
  <2>1. /\ dec' = [dec EXCEPT !.upTo = input[k + 1]] /\ resetDone' = resetDone
        /\ phase' \in {"pull A", "pull B"}
    BY <1>3, Zenon DEF PushA, PushB, passBVars
  <2>2. dec'.first = dec.first /\ dec'.next = dec.next /\ dec'.live = dec.live
        /\ dec'.frames = dec.frames
    BY <1>1, <2>1, Zenon DEF Place, Decoder
  <2>3. Reached => Reached'
    BY <1>1, <2>2, ReachedSame
  <2>4. QED BY <1>1, <2>1, <2>3, Zenon DEF Following, Drained
<1>4. CASE PulledDryA \/ PulledDryB
  <2>1. dec' = dec /\ resetDone' = resetDone /\ (Ready = {} \/ AfterFaultyReset)
    BY <1>4, Zenon DEF PulledDryA, PulledDryB, NeedMoreData, passBVars
  <2>2. Reached => Reached'
    BY <1>1, <2>1, ReachedSame
  <2>3. Ready' = Ready
    BY <1>1, <2>1, ReadySame
  <2>4. AfterFaultyReset' <=> AfterFaultyReset
    BY <1>1, <2>1, Zenon DEF AfterFaultyReset
  <2>5. QED BY <1>1, <2>1, <2>2, <2>3, <2>4, Zenon DEF Following, Drained
<1>5. CASE StartPassB
  <2>1. dec' = FedFrom(0) /\ FedFrom(0)' = FedFrom(0)
    <3>1. FedFrom(0)' = FedFrom(0)
      BY <1>1, Zenon DEF FedFrom, FirstFrom, AuIndices
    <3>2. QED BY <1>5, <3>1, Zenon DEF StartPassB
  <2>2. Created'
    BY <2>1, Zenon DEF Created
  <2>3. Reached' /\ Dry'
    BY <1>1, <2>2, CreatedDry, PTL
  <2>4. QED BY <2>3, Zenon DEF Following, Drained, Dry
<1>6. ASSUME NEW n \in AuIndices, PullA(n) PROVE Following'
  <2>1. /\ phase = "pull A" /\ Pulled(n) /\ dec' = After(n) /\ resetDone' = resetDone
        /\ phase' = "updates"
    BY <1>6, Zenon DEF PullA, passBVars
  <2>2. Reached => Reached'
    BY <1>1, <2>1, ReachedAfter
  <2>3. QED BY <1>1, <2>1, <2>2, Zenon DEF Following, Drained
<1>7. ASSUME NEW n \in AuIndices, PullB(n) PROVE Following'
  <2>1. phase = "pull B" /\ Pulled(n) /\ ~AfterFaultyReset /\ input' = input /\ resume' = resume
    BY <1>7, Zenon DEF PullB, fixedVars
  <2>2. CASE dec' = After(n) /\ UNCHANGED <<k, phase, resetDone>>
    <3>1. Reached => Reached'
      BY <1>1, <2>1, <2>2, ReachedAfter
    <3>2. QED BY <1>1, <2>1, <2>2, <3>1, Zenon DEF Following, Drained
  <2>3. CASE Seek
    <3>1. resetDone' = TRUE /\ dec' = FedFrom(PacketStart(resume)) /\ phase' = "push B"
      BY <2>3, Zenon DEF Seek
    <3>2. resume \in Packets
      BY <1>1, <2>1, Zenon DEF Place
    <3>3. PacketStart(resume) \in Nat
      BY <1>1, <2>1, <3>2, PacketEnds
    <3>4. PacketStart(resume)' = PacketStart(resume)
      BY <2>1, Zenon DEF PacketStart
    <3>5. FedFrom(PacketStart(resume))' = FedFrom(PacketStart(resume))
      BY <1>1, <3>4, Zenon DEF FedFrom, FirstFrom, AuIndices
    <3>6. Sought'
      BY <3>1, <3>3, <3>4, <3>5, Zenon DEF Sought
    <3>7. Dry'
      BY <1>1, <3>6, SoughtDry, PTL
    <3>8. QED BY <3>1, <3>7, Zenon DEF Following, Drained, Dry
  <2>4. QED BY <1>7, <2>2, <2>3, Zenon DEF PullB
<1>8. CASE dec' = dec /\ resetDone' = resetDone /\ phase' \notin {"push A", "push B"}
  <2>1. Reached => Reached'
    BY <1>1, <1>8, ReachedSame
  <2>2. QED BY <1>1, <1>8, <2>1, Zenon DEF Following, Drained
<1>9. QED BY <1>2, <1>3, <1>4, <1>5, <1>6, <1>7, <1>8, FollowingSame

-----------------------------------------------------------------------------
(* What pass A has of a sound decoder.                                     *)

Sound == options.faulty = "no"

\* The steps of pass A, and what those of it do that return nothing.
Waits ==
    /\ phase \in Early \ {"updates"} /\ phase' \in Early \ {"updates"}
    /\ dec' = dec \/ dec' = [dec EXCEPT !.upTo = input[k + 1]]
    /\ UNCHANGED <<cmp, serials, updates, target, ours, stated, unmatched, failed>>

LEMMA EarlySteps ==
    ASSUME Sound, Next
    PROVE  \/ \E n \in AuIndices : PullA(n)
           \/ TakeUpdate \/ UpdatesTaken \/ FinishPassA
           \/ Waits
           \/ phase \notin Early /\ phase' \notin Early
<1> DEFINE R == phase \notin Early /\ phase' \notin Early
<1>1. ASSUME NEW length \in ChunkLengths, LoadChunk(length) PROVE Waits
  BY <1>1, Zenon DEF LoadChunk, passAVars, metaVars, matchVars, Waits, Early
<1>2. ASSUME NEW n \in 1..MaxAus, LoadPacket(n) PROVE Waits
  BY <1>2, Zenon DEF LoadPacket, passAVars, metaVars, matchVars, Waits, Early
<1>3. StartPassA => Waits
  BY Zenon DEF StartPassA, metaVars, matchVars, Waits, Early
<1>4. PushA => Waits
  BY Zenon DEF PushA, passAVars, metaVars, matchVars, Waits, Early
<1>5. PulledDryA => Waits
  BY Zenon DEF PulledDryA, passAVars, metaVars, matchVars, Waits, Early
<1>6. MatchBed \/ MatchEvent \/ FinishMatch \/ NoPassB \/ StartPassB => R
  BY Zenon DEF MatchBed, MatchEvent, FinishMatch, NoPassB, StartPassB, Early
<1>7. PushB \/ PulledDryB \/ FinishPassB => R
  BY Zenon DEF PushB, PulledDryB, FinishPassB, Early
<1>8. ASSUME NEW n \in AuIndices, PullB(n) PROVE R
  <2>1. phase = "pull B" /\ (phase' = "push B" \/ phase' = phase)
    BY <1>8, Zenon DEF PullB, Seek
  <2>2. QED BY <2>1, Zenon DEF Early
<1>9. ASSUME NEW b \in AnyBlock, PullFaultyB(b) PROVE R
  BY <1>9, Zenon DEF PullFaultyB, Early
<1>10. ~(PushRefused \/ PullFails)
  <2>1. options.faulty # "refuses"
    BY DEF Sound
  <2>2. QED BY <2>1, Refused, Zenon
<1> HIDE DEF R
<1>11. \/ \E n \in AuIndices : PullA(n)
       \/ TakeUpdate \/ UpdatesTaken \/ FinishPassA \/ Waits \/ R
  BY <1>1, <1>2, <1>3, <1>4, <1>5, <1>6, <1>7, <1>8, <1>9, <1>10, Zenon DEF Next
<1>12. QED BY <1>11 DEF R

\* Of the updates of the block at hand, the last are still to be taken, each as
\* the stream has it and marked against the one before.
Present == stream.aus[dec.next - 1].updates
Left    == Len(Present) - Len(updates.pending)
Due(x)  == Present[Left + x]
Was(x)  == IF x = 1 THEN stated ELSE Due(x - 1).positions

QueuedAt(x) ==
    /\ updates.pending[x].offset = Due(x).offset
    /\ updates.pending[x].positions = Due(x).positions
    /\ updates.pending[x].changed = {e \in Objects : Was(x)[e] # Due(x).positions[e]}

Queued ==
    /\ phase \in Early \ {"updates"} => updates.pending = <<>>
    /\ phase = "updates" =>
           /\ dec.live /\ updates.position = RefPosition(dec.next - 1)
           /\ updates.frames = Frames(dec.next - 1)
           /\ Len(updates.pending) <= Len(Present)
           /\ \A x \in 1..Len(updates.pending) : QueuedAt(x)

LEMMA PresentType ==
    ASSUME Given, Place, Reached, dec.live
    PROVE  /\ dec.next - 1 \in AuIndices /\ InReference(dec.next - 1)
           /\ Present \in Seq(Update) /\ Len(Present) \in Nat
<1>1. InReference(dec.next - 1)
  BY Zenon DEF Reached
<1>2. dec.next - 1 \in AuIndices
  BY <1>1, Zenon DEF InReference
<1>3. Present \in Seq(Update)
  BY <1>2, AuFields, Zenon DEF Present
<1>4. QED BY <1>1, <1>2, <1>3, LenProperties

\* An update is of a sample of its access unit.
LEMMA UpdateInside ==
    ASSUME Given, NEW n \in AuIndices, NEW x \in 1..Len(stream.aus[n].updates)
    PROVE  stream.aus[n].updates[x].offset < Frames(n)
<1> DEFINE u == stream.aus[n].updates[x]
<1>1. u \in Update
  <2>1. stream.aus[n].updates \in Seq(Update)
    BY AuFields
  <2>2. QED BY <2>1, ElementOfSeq
<1>2. CASE n = Len(stream.aus)
  BY <1>2, StreamShape, Zenon DEF Frames
<1>3. CASE n # Len(stream.aus)
  BY <1>1, <1>3, UpdateFields, Zenon DEF Frames
<1>4. QED BY <1>2, <1>3

\* The next to be taken.
LEMMA NextQueued ==
    ASSUME Given, Place, Reached, Meta, Queued, phase = "updates", updates.pending # <<>>
    PROVE  /\ Len(updates.pending) \in Nat /\ 1 <= Len(updates.pending)
           /\ Left \in Nat /\ Left + 1 \in 1..Len(Present) /\ Due(1) \in Update
           /\ Head(updates.pending) \in MarkedUpdate
           /\ Head(updates.pending).offset = Due(1).offset
           /\ Head(updates.pending).offset < updates.frames
           /\ Head(updates.pending).positions = Due(1).positions
           /\ Head(updates.pending).changed = Moved(Head(updates.pending))
<1> DEFINE l == Len(updates.pending)
           u == Head(updates.pending)
<1>1. updates.pending \in Seq(MarkedUpdate)
  BY SMT DEF Meta
<1>2. l \in Nat /\ 1 <= l /\ u = updates.pending[1] /\ u \in MarkedUpdate
  BY <1>1, SMT
<1>3. dec.live /\ l <= Len(Present) /\ \A x \in 1..l : QueuedAt(x)
  BY Zenon DEF Queued
<1>4. Present \in Seq(Update) /\ Len(Present) \in Nat
  BY <1>3, PresentType
<1>5. Left \in Nat /\ Left + 1 \in 1..Len(Present)
  <2> DEFINE a == Len(Present)
  <2>1. Left = a - l
    BY DEF Left
  <2>2. a \in Nat /\ l <= a
    BY <1>3, <1>4
  <2> HIDE DEF a, l
  <2>3. a - l \in Nat /\ (a - l) + 1 \in 1..a
    BY <1>2, <2>2, SMT
  <2>4. QED BY <2>1, <2>3 DEF a
<1>6. Due(1) \in Update
  BY <1>4, <1>5, ElementOfSeq, Zenon DEF Due
<1>7. QueuedAt(1)
  <2>1. 1 \in 1..l
    <3> HIDE DEF l
    <3>1. QED BY <1>2, SMT
  <2>2. QED BY <1>3, <2>1
<1>8. u.offset = Due(1).offset /\ u.positions = Due(1).positions
      /\ u.changed = {e \in Objects : stated[e] # u.positions[e]}
  BY <1>2, <1>7, Zenon DEF QueuedAt, Was
<1>9. u.offset < updates.frames
  <2>1. dec.next - 1 \in AuIndices /\ updates.frames = Frames(dec.next - 1)
    BY <1>3, PresentType, Zenon DEF Queued
  <2>2. Due(1).offset < Frames(dec.next - 1)
    BY <1>5, <2>1, UpdateInside, Zenon DEF Due, Present
  <2>3. QED BY <1>8, <2>1, <2>2, Zenon
<1>10. u.changed = Moved(u)
  <2>1. target = stated
    BY Zenon DEF Meta
  <2>2. QED BY <1>8, <2>1, Zenon DEF Moved
<1>11. QED BY <1>2, <1>5, <1>6, <1>8, <1>9, <1>10

LEMMA QueuedTake ==
    ASSUME Given, Place, Reached, Meta, Queued, TakeUpdate, stream' = stream
    PROVE  Queued' /\ Left' = Left + 1 /\ Present' = Present
<1> DEFINE l == Len(updates.pending)
           u == Head(updates.pending)
<1>1. /\ phase = "updates" /\ updates.pending # <<>> /\ phase' = phase /\ dec' = dec
      /\ updates' = [updates EXCEPT !.pending = Tail(updates.pending)]
      /\ stated' = u.positions
  BY Zenon DEF TakeUpdate
<1>2. updates \in [pending : Seq(MarkedUpdate), position : Nat, frames : Nat]
  BY Zenon DEF Meta
<1>3. updates.pending \in Seq(MarkedUpdate)
  BY <1>2, SMT
<1>4. /\ l \in Nat /\ 1 <= l /\ Left \in Nat /\ u.positions = Due(1).positions
  BY <1>1, NextQueued
<1>5. /\ updates'.pending = Tail(updates.pending) /\ updates'.position = updates.position
      /\ updates'.frames = updates.frames
  BY <1>1, <1>2
<1>6. /\ Len(updates'.pending) = l - 1
      /\ \A x \in 1..(l - 1) : updates'.pending[x] = updates.pending[x + 1]
  <2>1. Len(Tail(updates.pending)) = l - 1
    BY <1>1, <1>3, SMT
  <2>2. \A x \in 1..(l - 1) : Tail(updates.pending)[x] = updates.pending[x + 1]
    BY <1>1, <1>3, SMT
  <2>3. QED BY <1>5, <2>1, <2>2, Zenon
<1>7. Present' = Present
  BY <1>1, Zenon DEF Present
<1>8. dec.live /\ updates.position = RefPosition(dec.next - 1)
      /\ updates.frames = Frames(dec.next - 1) /\ l <= Len(Present)
      /\ \A x \in 1..l : QueuedAt(x)
  BY <1>1, Zenon DEF Queued
<1>9. Len(Present) \in Nat
  BY <1>8, PresentType
<1>10. Left' = Left + 1 /\ Len(updates'.pending) <= Len(Present')
  <2> DEFINE a == Len(Present)
             b == Len(updates'.pending)
  <2>1. Left = a - l /\ Left' = a - b
    BY <1>7 DEF Left
  <2>2. a \in Nat /\ b = l - 1 /\ l \in Nat /\ l <= a
    BY <1>4, <1>6, <1>8, <1>9
  <2> HIDE DEF a, b, l
  <2>3. a - b = (a - l) + 1 /\ b <= a
    BY <2>2, SMT
  <2>4. QED BY <1>7, <2>1, <2>3 DEF a, b
<1>11. ASSUME NEW x \in 1..(l - 1) PROVE QueuedAt(x)'
  <2>1. /\ x \in Nat /\ 1 <= x /\ x + 1 \in 1..l /\ x + 1 # 1 /\ (x + 1) - 1 = x
        /\ Left' + x = Left + (x + 1)
        /\ (x # 1 => Left' + (x - 1) = Left + x)
        /\ (x = 1 => Left + x = Left + 1)
    BY <1>4, <1>10, SMT
  <2>2. Due(x)' = Due(x + 1)
    <3>1. Present'[Left' + x] = Present[Left + (x + 1)]
      BY <1>7, <2>1
    <3>2. QED BY <3>1 DEF Due
  <2>3. Was(x)' = Was(x + 1)
    <3>1. Was(x + 1) = Due(x).positions
      BY <2>1, Zenon DEF Was
    <3>2. CASE x = 1
      BY <1>1, <1>4, <3>1, <3>2, Zenon DEF Was
    <3>3. CASE x # 1
      <4>1. Present'[Left' + (x - 1)] = Present[Left + x]
        BY <1>7, <2>1, <3>3
      <4>2. QED BY <3>1, <3>3, <4>1, Zenon DEF Was, Due
    <3>4. QED BY <3>2, <3>3
  <2>4. QueuedAt(x + 1) /\ updates'.pending[x] = updates.pending[x + 1]
    BY <1>6, <1>8, <2>1
  <2>5. /\ updates'.pending[x].offset = Due(x)'.offset
        /\ updates'.pending[x].positions = Due(x)'.positions
        /\ updates'.pending[x].changed = {e \in Objects : Was(x)'[e] # Due(x)'.positions[e]}
    BY <2>2, <2>3, <2>4, Zenon DEF QueuedAt
  <2>6. QED BY <2>5, Zenon DEF QueuedAt
<1>12. /\ RefPosition(dec.next - 1)' = RefPosition(dec.next - 1)
       /\ Frames(dec.next - 1)' = Frames(dec.next - 1)
  BY <1>1, Zenon DEF RefPosition, InReference, AuIndices, Frames
<1>13. \A x \in 1..Len(updates'.pending) : QueuedAt(x)'
  BY <1>6, <1>11, Zenon
<1>14. phase' \notin Early \ {"updates"}
  BY <1>1, Zenon
<1>15. Queued'
  BY <1>1, <1>5, <1>8, <1>10, <1>12, <1>13, <1>14, Zenon DEF Queued
<1>16. QED BY <1>7, <1>10, <1>15

LEMMA QueuedPull ==
    ASSUME Given, Place, Reached, Sound, NEW n \in AuIndices, PullA(n), stream' = stream
    PROVE  /\ Queued' /\ Present' = stream.aus[n].updates /\ Left' = 0
           /\ Len(updates'.pending) = Len(stream.aus[n].updates)
<1> DEFINE us == stream.aus[n].updates
<1>1. /\ phase' = "updates" /\ Pulled(n) /\ dec' = After(n) /\ stated' = stated
      /\ \E d \in {Marked(us)} \cup (IF options.faulty = "metadata" THEN Garbled(Marked(us)) ELSE {}) :
             updates' = [pending |-> d, position |-> dec.frames, frames |-> Frames(n)]
  BY Zenon DEF PullA
<1>2. updates' = [pending |-> Marked(us), position |-> dec.frames, frames |-> Frames(n)]
  <2>1. options.faulty # "metadata"
    BY DEF Sound
  <2>2. QED BY <1>1, <2>1, Zenon
<1>3. updates'.pending = Marked(us) /\ updates'.position = dec.frames
      /\ updates'.frames = Frames(n)
  BY <1>2, Zenon
<1>4. n \in Ready /\ n \in Nat /\ us \in Seq(Update) /\ dec.frames = RefPosition(n)
  BY <1>1, AuFields, PulledNext, Zenon DEF Pulled
<1>5. dec'.next = n + 1 /\ dec'.live = TRUE
  BY <1>1, <1>4, AfterType
<1>6. dec'.next - 1 = n
  BY <1>4, <1>5, SMT
<1>7. Present' = us
  BY <1>6, Zenon DEF Present
<1>8. Len(us) \in Nat /\ DOMAIN us = 1..Len(us)
  BY <1>4, LenProperties
<1>9. Marked(us) = [x \in 1..Len(us) |->
          [offset |-> us[x].offset, positions |-> us[x].positions,
           changed |-> {e \in Objects : (IF x = 1 THEN stated ELSE us[x - 1].positions)[e]
                                           # us[x].positions[e]}]]
  BY <1>8, Zenon DEF Marked
<1>10. Len(Marked(us)) = Len(us)
  <2>1. Marked(us) = [x \in 1..Len(us) |-> Marked(us)[x]]
    BY <1>9, Zenon
  <2>2. QED BY <1>8, <2>1, LengthIs
<1>11. Left' = 0
  <2> DEFINE a == Len(us)
  <2>1. Left' = a - a
    BY <1>3, <1>7, <1>10 DEF Left
  <2>2. a \in Nat
    BY <1>8
  <2> HIDE DEF a
  <2>3. QED BY <2>1, <2>2, SMT
<1>12. ASSUME NEW x \in 1..Len(us) PROVE QueuedAt(x)'
  <2>1. 0 + x = x /\ 0 + (x - 1) = x - 1
    BY SMT
  <2>2. Due(x)' = us[x] /\ Due(x - 1)' = us[x - 1]
    <3>1. Present'[Left' + x] = us[x] /\ Present'[Left' + (x - 1)] = us[x - 1]
      BY <1>7, <1>11, <2>1
    <3>2. QED BY <3>1 DEF Due
  <2>3. Was(x)' = IF x = 1 THEN stated ELSE us[x - 1].positions
    BY <1>1, <2>2, Zenon DEF Was
  <2> DEFINE moved == {e \in Objects : (IF x = 1 THEN stated ELSE us[x - 1].positions)[e]
                                           # us[x].positions[e]}
  <2>4. updates'.pending[x] =
            [offset |-> us[x].offset, positions |-> us[x].positions, changed |-> moved]
    BY <1>3, <1>9, Zenon
  <2>5. /\ updates'.pending[x].offset = us[x].offset
        /\ updates'.pending[x].positions = us[x].positions
        /\ updates'.pending[x].changed = moved
    <3> HIDE DEF moved
    <3>1. QED BY <2>4
  <2>6. QED BY <2>2, <2>3, <2>5, Zenon DEF QueuedAt
<1>13. Len(updates'.pending) <= Len(Present')
  <2> DEFINE a == Len(us)
  <2>1. a \in Nat /\ Len(updates'.pending) = a /\ Len(Present') = a
    BY <1>3, <1>7, <1>8, <1>10
  <2> HIDE DEF a
  <2>2. QED BY <2>1, SMT
<1>14. \A x \in 1..Len(updates'.pending) : QueuedAt(x)'
  BY <1>3, <1>10, <1>12, Zenon
<1>15. RefPosition(dec.next - 1)' = RefPosition(n) /\ Frames(dec.next - 1)' = Frames(n)
  BY <1>6, Zenon DEF RefPosition, InReference, AuIndices, Frames
<1>16. phase' \notin Early \ {"updates"}
  BY <1>1, Zenon
<1>17. Queued'
  BY <1>1, <1>3, <1>4, <1>5, <1>13, <1>14, <1>15, <1>16, Zenon DEF Queued
<1>18. QED BY <1>3, <1>7, <1>10, <1>11, <1>17

LEMMA QueuedKept ==
    ASSUME TInv, Following, Untouched, Sound, Queued, Next
    PROVE  Queued'
<1>1. Given /\ Place /\ Meta /\ stream' = stream
  BY SourceKept, Zenon DEF TInv
<1>2. phase \in Early => Reached
  BY Zenon DEF Following, Untouched, Early, InPassB
<1>3. CASE \E n \in AuIndices : PullA(n)
  <2>1. PICK n \in AuIndices : PullA(n)
    BY <1>3
  <2>2. phase \in Early
    BY <2>1, Zenon DEF PullA, Early
  <2>3. QED BY <1>1, <1>2, <2>1, <2>2, QueuedPull
<1>4. CASE TakeUpdate
  <2>1. phase \in Early
    BY <1>4, Zenon DEF TakeUpdate, Early
  <2>2. QED BY <1>1, <1>2, <1>4, <2>1, QueuedTake
<1>5. CASE UpdatesTaken
  <2>1. phase' = "pull A" /\ updates' = Silent
    BY <1>5, Zenon DEF UpdatesTaken
  <2>2. updates'.pending = <<>>
    BY <2>1 DEF Silent
  <2>3. QED BY <2>1, <2>2, Zenon DEF Queued
<1>6. CASE FinishPassA
  <2>1. phase' \notin Early
    BY <1>6, Zenon DEF FinishPassA, Early
  <2>2. QED BY <2>1, Zenon DEF Queued, Early
<1>7. CASE Waits
  BY <1>7, Zenon DEF Waits, Queued
<1>8. CASE phase \notin Early /\ phase' \notin Early
  BY <1>8, Zenon DEF Queued, Early
<1>9. QED BY <1>3, <1>4, <1>5, <1>6, <1>7, <1>8, EarlySteps

Layouts == {stream.aus[n].layout : n \in AuIndices}

\* Nothing has failed, and all that was compared is what the reference has.
Faithful ==
    phase \in Early =>
        /\ ~failed /\ ~unmatched
        /\ options.refAudio => ~cmp.mismatch /\ cmp.frames = dec.frames
        /\ serials \subseteq Layouts

LEMMA FaithfulPull ==
    ASSUME TInv, Reached, Faithful, NEW n \in AuIndices, PullA(n),
           options' = options, stream' = stream
    PROVE  Faithful'
<1>1. /\ phase = "pull A" /\ Pulled(n) /\ dec' = After(n)
      /\ cmp' = CompareBlock(cmp, Block(n), dec.frames)
      /\ serials' = serials \cup {stream.aus[n].layout}
      /\ failed' = failed /\ unmatched' = unmatched
  BY Zenon DEF PullA, matchVars
<1>2. Given /\ Cutting /\ Place /\ Kept
  BY Zenon DEF TInv
<1>3. ~failed /\ ~unmatched /\ (options.refAudio => ~cmp.mismatch /\ cmp.frames = dec.frames)
      /\ serials \subseteq Layouts
  BY <1>1, Zenon DEF Faithful, Early
<1>4. n \in Ready
  BY <1>1, Zenon DEF Pulled
<1>5. dec'.frames = dec.frames + Frames(n)
  BY <1>1, <1>2, <1>4, AfterType
<1>6. InReference(n) /\ dec.frames = RefPosition(n)
  BY <1>1, <1>2, PulledNext
<1>7. RefFrames \in Nat /\ RefPosition(n) + Frames(n) <= RefFrames
  BY <1>2, <1>6, RefFramesBound
<1>8. Block(n).au = n /\ Block(n).frames = Frames(n) /\ Frames(n) \in Nat
  BY <1>1, <1>2, <1>4, BlockType
<1>9. ASSUME options.refAudio PROVE ~cmp'.mismatch /\ cmp'.frames = dec'.frames
  <2>1. ~(dec.frames + Frames(n) > RefFrames)
    <3>1. Frames(n) \in Nat /\ dec.frames \in Nat
      BY <1>2, <1>6, FramesType, RefPositionType, AuFields
    <3>2. QED BY <1>6, <1>7, <3>1, SMT
  <2> DEFINE b == Block(n)
             wrong == cmp.mismatch \/ (b.frames > 0 /\ ~Holds(b, dec.frames))
  <2>2. ~wrong
    <3>1. Frames(n) <= Frames(n)
      BY <1>8, SMT
    <3>2. QED BY <1>3, <1>6, <1>8, <1>9, <3>1, Zenon DEF Holds
  <2>3. cmp' = [frames |-> cmp.frames + Frames(n), mismatch |-> wrong]
    BY <1>1, <1>8, <1>9, <2>1, Zenon DEF CompareBlock
  <2> HIDE DEF wrong
  <2>4. cmp'.frames = cmp.frames + Frames(n) /\ cmp'.mismatch = wrong
    BY <2>3, Zenon
  <2>5. QED BY <1>3, <1>5, <1>9, <2>2, <2>4, Zenon
<1>10. Layouts' = Layouts /\ stream.aus[n].layout \in Layouts
  BY Zenon DEF Layouts, AuIndices
<1>11. serials' \subseteq Layouts'
  <2>1. \A s \in serials' : s \in Layouts
    BY <1>1, <1>3, <1>10, Zenon
  <2>2. QED BY <1>10, <2>1, Zenon
<1>12. QED BY <1>1, <1>3, <1>9, <1>11, Zenon DEF Faithful

LEMMA FaithfulKept ==
    ASSUME TInv, Following, Untouched, Sound, Queued, Faithful, Next
    PROVE  Faithful'
<1>1. Given /\ Cutting /\ Place /\ Meta /\ stream' = stream /\ options' = options
  BY SourceKept, Zenon DEF TInv
<1>2. phase \in Early => Reached
  BY Zenon DEF Following, Untouched, Early, InPassB
<1>3. Layouts' = Layouts
  BY <1>1, Zenon DEF Layouts, AuIndices
<1>4. CASE \E n \in AuIndices : PullA(n)
  <2>1. PICK n \in AuIndices : PullA(n)
    BY <1>4
  <2>2. phase \in Early
    BY <2>1, Zenon DEF PullA, Early
  <2>3. QED BY <1>1, <1>2, <2>1, <2>2, FaithfulPull
<1>5. CASE TakeUpdate
  <2> DEFINE u == Head(updates.pending)
  <2>1. /\ phase = "updates" /\ updates.pending # <<>>
        /\ failed' = (failed \/ u.offset >= updates.frames \/ ~(Moved(u) \subseteq u.changed))
        /\ UNCHANGED <<cmp, serials, dec, unmatched>>
    BY <1>5, Zenon DEF TakeUpdate, passAVars, matchVars
  <2>2. phase \in Early
    BY <2>1, Zenon DEF Early
  <2>3. u \in MarkedUpdate /\ u.offset < updates.frames /\ u.changed = Moved(u)
    BY <1>1, <1>2, <2>1, <2>2, NextQueued
  <2>4. ~(u.offset >= updates.frames)
    <3>1. u.offset \in Nat /\ updates.frames \in Nat
      BY <1>1, <2>3, Zenon DEF Meta, MarkedUpdate
    <3> HIDE DEF u
    <3>2. QED BY <2>3, <3>1, SMT
  <2>5. QED BY <1>1, <1>3, <2>1, <2>2, <2>3, <2>4, Zenon DEF Faithful
<1>6. CASE UpdatesTaken
  <2>1. phase \in Early /\ UNCHANGED <<cmp, serials, dec, unmatched, failed>>
    BY <1>6, Zenon DEF UpdatesTaken, passAVars, matchVars, Early
  <2>2. QED BY <1>1, <1>3, <2>1, Zenon DEF Faithful
<1>7. CASE FinishPassA
  <2>1. phase' \notin Early
    BY <1>7, Zenon DEF FinishPassA, Early
  <2>2. QED BY <2>1, Zenon DEF Faithful
<1>8. CASE Waits
  <2>1. phase \in Early /\ UNCHANGED <<cmp, serials, unmatched, failed>>
    BY <1>8, Zenon DEF Waits
  <2>2. dec'.frames = dec.frames
    <3>1. dec \in Decoder /\ (dec' = dec \/ dec' = [dec EXCEPT !.upTo = input[k + 1]])
      BY <1>1, <1>8, Zenon DEF Waits, Place
    <3>2. QED BY <3>1 DEF Decoder
  <2>3. QED BY <1>1, <1>3, <2>1, <2>2, Zenon DEF Faithful
<1>9. CASE phase \notin Early /\ phase' \notin Early
  BY <1>9, Zenon DEF Faithful
<1>10. QED BY <1>4, <1>5, <1>6, <1>7, <1>8, <1>9, EarlySteps

LEMMA EarlyStart == Init => Queued /\ Faithful
<1> SUFFICES ASSUME Init PROVE Queued /\ Faithful
  OBVIOUS
<1>1. /\ phase = "load" /\ dec = FedFrom(0) /\ cmp = NothingCompared /\ serials = {}
      /\ updates = Silent /\ failed = FALSE /\ unmatched = FALSE
  BY Zenon DEF Init
<1>2. updates.pending = <<>> /\ cmp.frames = 0 /\ cmp.mismatch = FALSE /\ dec.frames = 0
  BY <1>1 DEF Silent, NothingCompared, FedFrom
<1>3. QED BY <1>1, <1>2, Zenon DEF Queued, Faithful, Early

-----------------------------------------------------------------------------
(* The updates a stream states.                                            *)

LEMMA CountsIs ==
    ASSUME NEW n
    PROVE  Counts(stream, n) <=> InReference(n)
BY Zenon DEF Counts, InReference, AuIndices

LEMMA PlaceOfIs ==
    ASSUME NEW n
    PROVE  PlaceOf(stream, n) = RefPosition(n)
BY CountsIs, Zenon DEF PlaceOf, RefPosition

All == Stated(stream)

LEMMA StatedMember ==
    ASSUME NEW n, InReference(n), NEW x \in 1..Len(stream.aus[n].updates)
    PROVE  <<n, x>> \in All
<1>1. n \in {m \in 1..Len(stream.aus) : Counts(stream, m)}
  BY CountsIs, Zenon DEF InReference, AuIndices
<1>2. <<n, x>> \in {n} \X (1..Len(stream.aus[n].updates))
  BY SMT
<1>3. QED BY <1>1, <1>2, Zenon DEF All, Stated

LEMMA StatedElement ==
    ASSUME Given, NEW p \in All
    PROVE  /\ p = <<p[1], p[2]>> /\ InReference(p[1]) /\ p[1] \in AuIndices
           /\ p[1] \in Nat /\ 1 <= p[1] /\ p[1] <= Len(stream.aus)
           /\ p[2] \in 1..Len(stream.aus[p[1]].updates)
           /\ p[2] \in Nat /\ 1 <= p[2] /\ p[2] <= Len(stream.aus[p[1]].updates)
           /\ Len(stream.aus[p[1]].updates) \in Nat
           /\ UpdateAt(stream, p) \in Update
<1>1. PICK n \in {m \in 1..Len(stream.aus) : Counts(stream, m)} :
          p \in {n} \X (1..Len(stream.aus[n].updates))
  BY Zenon DEF All, Stated
<1>2. p = <<p[1], p[2]>> /\ p[1] = n /\ p[2] \in 1..Len(stream.aus[n].updates)
  BY <1>1, SMT
<1>3. InReference(p[1]) /\ p[1] \in AuIndices
  BY <1>1, <1>2, CountsIs, Zenon DEF InReference
<1>4. p[1] \in Nat /\ 1 <= p[1] /\ p[1] <= Len(stream.aus)
      /\ stream.aus[p[1]].updates \in Seq(Update)
  BY <1>3, AuFields
<1>5. Len(stream.aus[p[1]].updates) \in Nat
  BY <1>4, LenProperties
<1>6. p[2] \in Nat /\ 1 <= p[2] /\ p[2] <= Len(stream.aus[p[1]].updates)
  <2> DEFINE l == Len(stream.aus[n].updates)
  <2>1. p[2] \in 1..l /\ l \in Nat
    BY <1>2, <1>5
  <2> HIDE DEF l
  <2>2. p[2] \in Nat /\ 1 <= p[2] /\ p[2] <= l
    BY <2>1, SMT
  <2>3. QED BY <1>2, <2>2 DEF l
<1>7. UpdateAt(stream, p) \in Update
  BY <1>2, <1>4, ElementOfSeq, Zenon DEF UpdateAt
<1>8. QED BY <1>2, <1>3, <1>4, <1>5, <1>6, <1>7

LEMMA UpdateMore ==
    ASSUME NEW u \in Update
    PROVE  u.lag \in {0, BlockOffset}
BY Zenon DEF Update

\* They are one behind the other.
LEMMA BeforeTotal ==
    ASSUME Given, NEW p \in All, NEW q \in All
    PROVE  /\ ~(Before(p, q) /\ Before(q, p))
           /\ p = q \/ Before(p, q) \/ Before(q, p)
<1>1. p[1] \in Nat /\ p[2] \in Nat /\ q[1] \in Nat /\ q[2] \in Nat
  BY StatedElement
<1>2. p = <<p[1], p[2]>> /\ q = <<q[1], q[2]>>
  BY StatedElement
<1> DEFINE a == p[1]
           b == p[2]
           c == q[1]
           d == q[2]
<1>3. /\ ~((a < c \/ (a = c /\ b < d)) /\ (c < a \/ (c = a /\ d < b)))
      /\ (a = c /\ b = d) \/ (a < c \/ (a = c /\ b < d)) \/ (c < a \/ (c = a /\ d < b))
  <2>1. a \in Nat /\ b \in Nat /\ c \in Nat /\ d \in Nat
    BY <1>1
  <2> HIDE DEF a, b, c, d
  <2>2. QED BY <2>1, SMT
<1>4. a = c /\ b = d => p = q
  BY <1>2
<1>5. QED BY <1>3, <1>4 DEF Before

\* So that one of them at most is the last.
LEMMA LastUnique ==
    ASSUME Given, NEW S, S \subseteq All, NEW p, NEW q, LastOf(S, p), LastOf(S, q)
    PROVE  p = q
<1>1. p \in S /\ q \in S /\ ~Before(p, q) /\ ~Before(q, p)
  BY Zenon DEF LastOf
<1>2. QED BY <1>1, BeforeTotal, Zenon

\* What is asked of the reference.
InTime ==
    \A p, q \in All :
        p[1] = q[1] /\ p[2] < q[2] => UpdateAt(stream, p).offset <= UpdateAt(stream, q).offset

Tells ==
    /\ InTime
    /\ \A n \in ObjectEvents : \E c \in Changes(stream) : TellsOf(stream, c, CliEvents[n])
    /\ Cardinality(ObjectEvents) = Cardinality(Changes(stream))
    /\ \A m, n \in ObjectEvents : m < n => CliEvents[m].time <= CliEvents[n].time + Window

LEMMA ReferenceTellsIs ==
    ASSUME ReferenceTells, Given, Sound, options.refMetadata
    PROVE  Tells
<1>1. CliEvents = KeptEvents(stream.events)
  BY Zenon DEF CliEvents
<1>2. Told(stream) = ObjectEvents
  BY <1>1, Zenon DEF Told, ObjectEvents
<1> DEFINE event == KeptEvents(options.stream.events)
<1>3. /\ \A p, q \in Stated(options.stream) :
             p[1] = q[1] /\ p[2] < q[2]
             => UpdateAt(options.stream, p).offset <= UpdateAt(options.stream, q).offset
      /\ \A n \in Told(options.stream) :
             \E c \in Changes(options.stream) : TellsOf(options.stream, c, event[n])
      /\ Cardinality(Told(options.stream)) = Cardinality(Changes(options.stream))
      /\ \A m, n \in Told(options.stream) : m < n => event[m].time <= event[n].time + Window
  <2>1. options \in Options /\ options.faulty = "no"
    BY Zenon DEF Given, Sound
  <2>2. QED BY <2>1, Zenon DEF ReferenceTells
<1>4. options.stream = stream
  BY Zenon DEF Given
<1>5. event = CliEvents
  BY <1>1, <1>4
<1> HIDE DEF event
<1>6. QED BY <1>2, <1>3, <1>4, <1>5, Zenon DEF Tells, InTime, All

LEMMA TimeOfIs ==
    ASSUME Given, NEW p \in All
    PROVE  /\ TimeOf(stream, p) = RefPosition(p[1]) + UpdateAt(stream, p).offset
           /\ RefPosition(p[1]) \in Nat /\ UpdateAt(stream, p).offset \in Nat
           /\ UpdateAt(stream, p).offset < AuFrames /\ TimeOf(stream, p) \in Nat
<1>1. p[1] \in Nat /\ UpdateAt(stream, p) \in Update
  BY StatedElement
<1>2. UpdateAt(stream, p).offset \in Nat /\ UpdateAt(stream, p).offset < AuFrames
  BY <1>1, UpdateFields
<1>3. RefPosition(p[1]) \in Nat
  BY <1>1, RefPositionType
<1>4. TimeOf(stream, p) = RefPosition(p[1]) + UpdateAt(stream, p).offset
  BY PlaceOfIs, Zenon DEF TimeOf
<1> DEFINE a == RefPosition(p[1])
           b == UpdateAt(stream, p).offset
<1>5. a + b \in Nat
  <2>1. a \in Nat /\ b \in Nat
    BY <1>2, <1>3
  <2> HIDE DEF a, b
  <2>2. QED BY <2>1, SMT
<1>6. QED BY <1>2, <1>3, <1>4, <1>5

\* In the order they come in they are in order of time.
LEMMA TimesOrdered ==
    ASSUME Given, InTime, NEW p \in All, NEW q \in All, Before(p, q)
    PROVE  TimeOf(stream, p) <= TimeOf(stream, q)
<1> DEFINE a == RefPosition(p[1])
           b == UpdateAt(stream, p).offset
           c == RefPosition(q[1])
           d == UpdateAt(stream, q).offset
<1>1. /\ TimeOf(stream, p) = a + b /\ TimeOf(stream, q) = c + d
      /\ a \in Nat /\ b \in Nat /\ c \in Nat /\ d \in Nat /\ b < AuFrames
  BY TimeOfIs
<1>2. p[1] \in Nat /\ 1 <= p[1] /\ q[1] \in Nat /\ InReference(p[1])
  BY StatedElement
<1>3. CASE p[1] < q[1]
  <2>1. a + AuFrames <= c
    BY <1>2, <1>3, RefPositionLater
  <2> HIDE DEF a, b, c, d
  <2>2. a + b <= c + d
    BY <1>1, <2>1, SMT DEF AuFrames
  <2>3. QED BY <1>1, <2>2
<1>4. CASE p[1] = q[1] /\ p[2] < q[2]
  <2>1. b <= d
    BY <1>4, Zenon DEF InTime
  <2>2. a = c
    BY <1>4
  <2> HIDE DEF a, b, c, d
  <2>3. a + b <= c + d
    BY <1>1, <2>1, <2>2, SMT
  <2>4. QED BY <1>1, <2>3
<1>5. QED BY <1>3, <1>4 DEF Before

-----------------------------------------------------------------------------
(* What our events tell of the updates taken.                              *)

\* The updates of a stream up to the lth of the nth access unit.
UpTo(s, n, l) == {p \in Stated(s) : p[1] < n \/ (p[1] = n /\ p[2] <= l)}
Earlier(s, p) == {q \in Stated(s) : Before(q, p)}

LEMMA UpToNext ==
    ASSUME Given, NEW n \in Nat, InReference(n), NEW l \in Nat,
           l + 1 \in 1..Len(stream.aus[n].updates)
    PROVE  /\ <<n, l + 1>> \in All
           /\ UpTo(stream, n, l + 1) = UpTo(stream, n, l) \cup {<<n, l + 1>>}
           /\ UpTo(stream, n, l) = Earlier(stream, <<n, l + 1>>)
<1> DEFINE P == <<n, l + 1>>
<1>1. P[1] = n /\ P[2] = l + 1
  OBVIOUS
<1>2. P \in All
  BY StatedMember
<1>3. ASSUME NEW r \in All
      PROVE  /\ r[1] \in Nat /\ r[2] \in Nat
             /\ (r[1] = n /\ r[2] = l + 1) <=> r = P
  <2>1. r[1] \in Nat /\ r[2] \in Nat /\ r = <<r[1], r[2]>>
    BY <1>3, StatedElement
  <2>2. QED BY <2>1
<1>4. ASSUME NEW a \in Nat, NEW b \in Nat
      PROVE  /\ (a < n \/ (a = n /\ b <= l)) <=> (a < n \/ (a = n /\ b < l + 1))
             /\ (a < n \/ (a = n /\ b <= l + 1))
                    <=> (a < n \/ (a = n /\ b <= l)) \/ (a = n /\ b = l + 1)
  BY <1>4, SMT
<1>5. UpTo(stream, n, l) = {r \in All : r[1] < n \/ (r[1] = n /\ r[2] <= l)}
  BY Zenon DEF UpTo, All
<1>6. UpTo(stream, n, l + 1) = {r \in All : r[1] < n \/ (r[1] = n /\ r[2] <= l + 1)}
  BY Zenon DEF UpTo, All
<1>7. Earlier(stream, P) = {r \in All : r[1] < n \/ (r[1] = n /\ r[2] < l + 1)}
  BY <1>1, Zenon DEF Earlier, Before, All
<1>8. UpTo(stream, n, l) = Earlier(stream, P)
  <2>1. ASSUME NEW r \in All
        PROVE  (r[1] < n \/ (r[1] = n /\ r[2] <= l)) <=> (r[1] < n \/ (r[1] = n /\ r[2] < l + 1))
    BY <1>3, <1>4
  <2>2. QED BY <1>5, <1>7, <2>1, Zenon
<1>9. UpTo(stream, n, l + 1) = UpTo(stream, n, l) \cup {P}
  <2>1. ASSUME NEW r \in All
        PROVE  (r[1] < n \/ (r[1] = n /\ r[2] <= l + 1))
                   <=> (r[1] < n \/ (r[1] = n /\ r[2] <= l)) \/ r = P
    BY <1>3, <1>4
  <2> HIDE DEF P
  <2>2. QED BY <1>2, <1>5, <1>6, <2>1, Zenon
<1>10. QED BY <1>2, <1>8, <1>9

\* All of an access unit, and none of the next that the reference has.
LEMMA UpToWhole ==
    ASSUME Given, NEW m \in Nat, NEW n \in Nat, NEW l, m < n,
           m # 0 => l = Len(stream.aus[m].updates),
           \A x \in (m + 1)..(n - 1) : ~InReference(x)
    PROVE  UpTo(stream, m, l) = UpTo(stream, n, 0)
<1>1. ASSUME NEW r \in All
      PROVE  (r[1] < m \/ (r[1] = m /\ r[2] <= l)) <=> (r[1] < n \/ (r[1] = n /\ r[2] <= 0))
  <2> DEFINE a == r[1]
             b == r[2]
  <2>1. a \in Nat /\ 1 <= a /\ b \in Nat /\ 1 <= b /\ InReference(a)
        /\ b <= Len(stream.aus[a].updates)
    BY <1>1, StatedElement
  <2>2. ~(a \in (m + 1)..(n - 1))
    BY <2>1
  <2>3. a = m => b <= l
    BY <2>1
  <2> HIDE DEF a, b
  <2>4. (a < m \/ (a = m /\ b <= l)) <=> (a < n \/ (a = n /\ b <= 0))
    BY <2>1, <2>2, <2>3, SMT
  <2>5. QED BY <2>4 DEF a, b
<1>2. UpTo(stream, m, l) = {r \in All : r[1] < m \/ (r[1] = m /\ r[2] <= l)}
  BY Zenon DEF UpTo, All
<1>3. UpTo(stream, n, 0) = {r \in All : r[1] < n \/ (r[1] = n /\ r[2] <= 0)}
  BY Zenon DEF UpTo, All
<1>4. QED BY <1>1, <1>2, <1>3, Zenon

\* Where the objects stand that were moved by these updates.
Standing(s, places, S) ==
    \/ S = {} /\ places = [e \in Objects |-> Nowhere]
    \/ \E p \in S : LastOf(S, p) /\ places = UpdateAt(s, p).positions

MovedFrom(s, places, p) == {e \in Objects : places[e] # UpdateAt(s, p).positions[e]}

\* So that an update moves those that it does not leave there.
LEMMA MovesIs ==
    ASSUME Given, NEW p \in All,
           NEW places, Standing(stream, places, Earlier(stream, p)), NEW e \in Objects
    PROVE  Moves(stream, p, e) <=> places[e] # UpdateAt(stream, p).positions[e]
<1> DEFINE to == UpdateAt(stream, p).positions[e]
           S == Earlier(stream, p)
<1>1. Moves(stream, p, e) <=>
          \A q \in All : LastOf(S, q) => UpdateAt(stream, q).positions[e] # to
  BY Zenon DEF Moves, Earlier, All
<1>2. CASE S = {} /\ places = [f \in Objects |-> Nowhere]
  <2>1. \A q : ~LastOf(S, q)
    BY <1>2, Zenon DEF LastOf
  <2>2. UpdateAt(stream, p) \in Update
    BY StatedElement
  <2>3. to \in Positions
    BY <2>2, UpdateFields
  <2>4. places[e] = Nowhere
    BY <1>2
  <2>5. QED BY <1>1, <2>1, <2>3, <2>4, HarnessConstants, Zenon
<1>3. CASE \E q \in S : LastOf(S, q) /\ places = UpdateAt(stream, q).positions
  <2>1. PICK q \in S : LastOf(S, q) /\ places = UpdateAt(stream, q).positions
    BY <1>3
  <2>2. S \subseteq All /\ q \in All
    BY <2>1, Zenon DEF Earlier, All
  <2>3. \A r \in All : LastOf(S, r) => r = q
    BY <2>1, <2>2, LastUnique
  <2>4. QED BY <1>1, <2>1, <2>2, <2>3, Zenon
<1>4. QED BY <1>2, <1>3 DEF Standing

\* The changes these updates make, and our event about one.
Of(s, S) == {c \in Changes(s) : c[1] \in S}

IsOurs(s, event, c) ==
    /\ event.id = c[2] /\ event.time = TimeOf(s, c[1])
    /\ event.position = UpdateAt(s, c[1]).positions[c[2]]

\* These events are those of the changes these updates make, in order of time.
Listed(s, events, S) ==
    /\ IsFiniteSet(Of(s, S)) /\ Len(events) = Cardinality(Of(s, S))
    /\ \A c \in Of(s, S) : \E x \in 1..Len(events) : IsOurs(s, events[x], c)
    /\ \A x \in 1..Len(events) : \E p \in S : events[x].time = TimeOf(s, p)
    /\ \A x, y \in 1..Len(events) : x < y => events[x].time <= events[y].time

Together(s, places, p) == {p} \X MovedFrom(s, places, p)

\* An update adds the changes of the objects it moves.
LEMMA OfNext ==
    ASSUME Given, NEW p \in All, NEW places, Standing(stream, places, Earlier(stream, p))
    PROVE  /\ Of(stream, Earlier(stream, p) \cup {p})
                  = Of(stream, Earlier(stream, p)) \cup Together(stream, places, p)
           /\ Of(stream, Earlier(stream, p)) \cap Together(stream, places, p) = {}
           /\ IsFiniteSet(Together(stream, places, p))
           /\ Cardinality(Together(stream, places, p)) = Cardinality(MovedFrom(stream, places, p))
           /\ Cardinality(MovedFrom(stream, places, p)) \in Nat
<1> DEFINE S == Earlier(stream, p)
           moved == MovedFrom(stream, places, p)
<1>0. Together(stream, places, p) = {p} \X moved /\ p \notin S
      /\ moved = {e \in Objects : places[e] # UpdateAt(stream, p).positions[e]}
  <2>1. ~Before(p, p)
    BY BeforeTotal
  <2>2. QED BY <2>1, Zenon DEF Together, Earlier, MovedFrom
<1>1. Changes(stream) = {c \in All \X Objects : Moves(stream, c[1], c[2])}
  BY Zenon DEF Changes, All
<1>2. \A e \in Objects : Moves(stream, p, e) <=> e \in moved
  BY <1>0, MovesIs
<1> HIDE DEF moved, S
<1>3. \A c : c[1] = p /\ c \in Changes(stream) <=> c \in {p} \X moved
  <2>1. SUFFICES ASSUME NEW c
                 PROVE  c[1] = p /\ c \in Changes(stream) <=> c \in {p} \X moved
    OBVIOUS
  <2>2. ASSUME c[1] = p, c \in Changes(stream) PROVE c \in {p} \X moved
    <3>1. c \in All \X Objects /\ Moves(stream, p, c[2])
      BY <1>1, <2>2, Zenon
    <3>2. c = <<c[1], c[2]>> /\ c[2] \in Objects
      BY <3>1, SMT
    <3>3. c[2] \in moved
      BY <1>2, <3>1, <3>2
    <3>4. QED BY <2>2, <3>2, <3>3, SMT
  <2>3. ASSUME c \in {p} \X moved PROVE c[1] = p /\ c \in Changes(stream)
    <3>1. c[1] = p /\ c[2] \in moved /\ c = <<c[1], c[2]>>
      BY <2>3, SMT
    <3>2. c[2] \in Objects
      BY <1>0, <3>1
    <3>3. c \in All \X Objects
      BY <3>1, <3>2, SMT
    <3>4. Moves(stream, c[1], c[2])
      BY <1>2, <3>1, <3>2, Zenon
    <3>5. QED BY <1>1, <3>1, <3>3, <3>4, Zenon
  <2>4. QED BY <2>2, <2>3
<1>4. Of(stream, S \cup {p}) = Of(stream, S) \cup ({p} \X moved)
  BY <1>0, <1>3, Zenon DEF Of
<1>5. Of(stream, S) \cap ({p} \X moved) = {}
  BY <1>0, <1>3, Zenon DEF Of
<1>6. IsFiniteSet(moved)
  <2>1. moved \in SUBSET Objects
    BY <1>0
  <2>2. QED BY <2>1, HarnessConstants, FS_Subset, Zenon
<1>7. IsFiniteSet({p}) /\ Cardinality({p}) = 1
  BY FS_Singleton, Zenon
<1> DEFINE a == Cardinality({p} \X moved)
           b == Cardinality(moved)
<1>8. b \in Nat
  BY <1>6, FS_CardinalityType
<1>9. IsFiniteSet({p} \X moved) /\ a = Cardinality({p}) * b
  BY <1>6, <1>7, FS_Product, Zenon
<1>10. a = b
  <2>1. a = 1 * b
    BY <1>7, <1>9, Zenon
  <2> HIDE DEF a, b
  <2>2. QED BY <1>8, <2>1, SMT
<1>11. QED BY <1>0, <1>4, <1>5, <1>8, <1>9, <1>10 DEF S, moved

LEMMA RankInside ==
    ASSUME NEW S, IsFiniteSet(S), S \subseteq Nat, NEW e \in S
    PROVE  Rank(S, e) \in Nat /\ Rank(S, e) < Cardinality(S)
<1> DEFINE T == {f \in S : f < e}
           a == Cardinality(T)
           b == Cardinality(S)
<1>1. Rank(S, e) = a
  BY Zenon DEF Rank
<1>2. a \in Nat
  BY <1>1, RankType
<1>3. b \in Nat
  BY FS_CardinalityType
<1>4. T \in SUBSET S
  OBVIOUS
<1>5. a <= b /\ (b = a => S = T)
  BY <1>4, FS_Subset, Zenon
<1>6. e \notin T
  <2>1. e \in Nat
    OBVIOUS
  <2>2. ~(e < e)
    BY <2>1, SMT
  <2>3. QED BY <2>2
<1>7. b # a
  BY <1>5, <1>6, Zenon
<1>8. a < b
  <2> HIDE DEF a, b
  <2>1. QED BY <1>2, <1>3, <1>5, <1>7, SMT
<1>9. QED BY <1>1, <1>2, <1>8

\* An event of this object, put where the update puts it at its time.
EventIs(event, e, time, to) == event.id = e /\ event.time = time /\ event.position = to[e]

LEMMA EventsTell ==
    ASSUME NEW u \in MarkedUpdate, NEW moved \in SUBSET Objects
    PROVE  /\ \A x \in 1..Len(EventsOf(u, moved)) : \E e \in moved :
                  EventIs(EventsOf(u, moved)[x], e, updates.position + u.offset, u.positions)
           /\ \A e \in moved : \E x \in 1..Len(EventsOf(u, moved)) :
                  EventIs(EventsOf(u, moved)[x], e, updates.position + u.offset, u.positions)
<1> DEFINE N == Cardinality(moved)
           time == updates.position + u.offset
           mover(x) == CHOOSE d \in moved : Cardinality({f \in moved : f < d}) = x - 1
<1>1. IsFiniteSet(moved) /\ moved \subseteq Nat
  BY HarnessConstants, FS_Subset, Zenon
<1>2. N \in Nat
  BY <1>1, FS_CardinalityType
<1>3. EventsOf(u, moved) = [x \in 1..N |-> EventAt(u, moved, x)]
  BY <1>1, EventsAre
<1>4. Len(EventsOf(u, moved)) = N /\ \A x \in 1..N : EventsOf(u, moved)[x] = EventAt(u, moved, x)
  <2> DEFINE E(x) == EventAt(u, moved, x)
  <2>1. EventsOf(u, moved) = [x \in 1..N |-> E(x)]
    BY <1>3
  <2> HIDE DEF N, E
  <2>2. Len(EventsOf(u, moved)) = N /\ \A x \in 1..N : EventsOf(u, moved)[x] = E(x)
    BY <1>2, <2>1, SMT
  <2>3. QED BY <2>2 DEF E
<1>5. ASSUME NEW x \in 1..N
      PROVE  /\ EventsOf(u, moved)[x]
                    = [id |-> mover(x), time |-> time, position |-> u.positions[mover(x)]]
             /\ mover(x) \in moved /\ Rank(moved, mover(x)) = x - 1
  <2>1. x - 1 \in Nat /\ x - 1 < N
    BY <1>2, SMT
  <2>2. \E d1 \in moved : Cardinality({f \in moved : f < d1}) = x - 1
    <3>1. \E d1 \in moved : Rank(moved, d1) = x - 1
      BY <1>1, <2>1, RankTaken
    <3>2. QED BY <3>1, Zenon DEF Rank
  <2>3. mover(x) \in moved /\ Cardinality({f \in moved : f < mover(x)}) = x - 1
    BY <2>2, Zenon
  <2>4. EventAt(u, moved, x)
            = [id |-> mover(x), time |-> time, position |-> u.positions[mover(x)]]
    BY Zenon DEF EventAt
  <2>5. QED BY <1>4, <2>3, <2>4, Zenon DEF Rank
<1> HIDE DEF mover, time
<1>6. ASSUME NEW x \in 1..N
      PROVE  EventIs(EventsOf(u, moved)[x], mover(x), time, u.positions)
  <2> DEFINE d == mover(x)
             to == u.positions
             event == EventsOf(u, moved)[x]
  <2>1. event = [id |-> d, time |-> time, position |-> to[d]]
    BY <1>5
  <2> HIDE DEF d, to, event
  <2>2. event.id = d /\ event.time = time /\ event.position = to[d]
    BY <2>1
  <2>3. EventIs(event, d, time, to)
    BY <2>2, Zenon DEF EventIs
  <2>4. QED BY <2>3 DEF d, to, event
<1>7. ASSUME NEW e \in moved
      PROVE  \E x \in 1..N : EventIs(EventsOf(u, moved)[x], e, time, u.positions)
  <2> DEFINE r == Rank(moved, e)
  <2>1. r \in Nat /\ r < N
    BY <1>1, RankInside
  <2>2. r + 1 \in 1..N /\ (r + 1) - 1 = r
    <3> HIDE DEF r, N
    <3>1. QED BY <1>2, <2>1, SMT
  <2> DEFINE d == mover(r + 1)
  <2>3. d \in moved /\ Rank(moved, d) = r
    BY <1>5, <2>2
  <2>4. d = e
    <3>1. d \in Nat /\ e \in Nat
      BY <1>1, <2>3
    <3>2. ~(d < e)
      <4>1. SUFFICES ASSUME d < e PROVE FALSE
        OBVIOUS
      <4>2. Rank(moved, d) < Rank(moved, e)
        BY <1>1, <2>3, <4>1, RankGrows
      <4>3. r < r
        BY <2>3, <4>2
      <4> HIDE DEF r
      <4>4. QED BY <2>1, <4>3, SMT
    <3>3. ~(e < d)
      <4>1. SUFFICES ASSUME e < d PROVE FALSE
        OBVIOUS
      <4>2. Rank(moved, e) < Rank(moved, d)
        BY <1>1, <2>3, <4>1, RankGrows
      <4>3. r < r
        BY <2>3, <4>2
      <4> HIDE DEF r
      <4>4. QED BY <2>1, <4>3, SMT
    <3> HIDE DEF d
    <3>4. QED BY <3>1, <3>2, <3>3, SMT
  <2>5. EventIs(EventsOf(u, moved)[r + 1], e, time, u.positions)
    BY <1>6, <2>2, <2>4
  <2>6. QED BY <2>2, <2>5, Zenon
<1>8. QED BY <1>4, <1>5, <1>6, <1>7, Zenon DEF time

LEMMA BothParts ==
    ASSUME NEW T, NEW f \in Seq(T), NEW g \in Seq(T)
    PROVE  /\ Len(f \o g) = Len(f) + Len(g)
           /\ \A x \in 1..Len(f) : (f \o g)[x] = f[x]
           /\ \A x \in 1..Len(g) : (f \o g)[Len(f) + x] = g[x]
<1>1. Len(f \o g) = Len(f) + Len(g)
  BY SMT
<1>2. \A x \in 1..Len(f) : (f \o g)[x] = f[x]
  BY SMT
<1>3. \A x \in 1..Len(g) : (f \o g)[Len(f) + x] = g[x]
  BY SMT
<1>4. QED BY <1>1, <1>2, <1>3

LEMMA ListedNext ==
    ASSUME Given, InTime, NEW p \in All,
           NEW places, Standing(stream, places, Earlier(stream, p)),
           NEW events \in Seq(OurEvent), Listed(stream, events, Earlier(stream, p)),
           NEW more \in Seq(OurEvent), NEW moved, moved = MovedFrom(stream, places, p),
           Len(more) = Cardinality(moved),
           \A x \in 1..Len(more) : \E e \in moved :
               EventIs(more[x], e, TimeOf(stream, p), UpdateAt(stream, p).positions),
           \A e \in moved : \E x \in 1..Len(more) :
               EventIs(more[x], e, TimeOf(stream, p), UpdateAt(stream, p).positions)
    PROVE  Listed(stream, events \o more, Earlier(stream, p) \cup {p})
<1> DEFINE S == Earlier(stream, p)
           both == events \o more
           A == Of(stream, S)
           B == Together(stream, places, p)
           a == Len(events)
           b == Len(more)
           t == TimeOf(stream, p)
<1>1. /\ Of(stream, S \cup {p}) = A \cup B /\ A \cap B = {}
      /\ IsFiniteSet(B) /\ Cardinality(B) = b /\ b \in Nat
  BY OfNext
<1>0. B = {p} \X moved
  BY Zenon DEF Together
<1>2. /\ IsFiniteSet(A) /\ a = Cardinality(A)
      /\ \A c \in A : \E x \in 1..a : IsOurs(stream, events[x], c)
      /\ \A x \in 1..a : \E q \in S : events[x].time = TimeOf(stream, q)
      /\ \A x, y \in 1..a : x < y => events[x].time <= events[y].time
  BY Zenon DEF Listed
<1>3. a \in Nat /\ \A x \in 1..a : events[x] \in OurEvent
  BY LenProperties, ElementOfSeq, Zenon
<1>4. /\ Len(both) = a + b
      /\ \A x \in 1..a : both[x] = events[x]
      /\ \A x \in 1..b : both[a + x] = more[x]
  <2>1. events \in Seq(OurEvent) /\ more \in Seq(OurEvent)
    OBVIOUS
  <2>2. /\ Len(events \o more) = Len(events) + Len(more)
        /\ \A x \in 1..Len(events) : (events \o more)[x] = events[x]
        /\ \A x \in 1..Len(more) : (events \o more)[Len(events) + x] = more[x]
    BY ONLY <2>1, BothParts
  <2>3. QED BY <2>2, Zenon
<1> HIDE DEF both
<1>5. IsFiniteSet(A \cup B) /\ Len(both) = Cardinality(A \cup B)
  <2>1. IsFiniteSet(A \cup B)
        /\ Cardinality(A \cup B) = Cardinality(A) + Cardinality(B) - Cardinality(A \cap B)
    BY <1>1, <1>2, FS_Union, Zenon
  <2>2. Cardinality(A \cap B) = 0
    BY <1>1, FS_EmptySet, Zenon
  <2>3. Cardinality(A \cup B) = a + b - 0
    BY <1>1, <1>2, <2>1, <2>2, Zenon
  <2> HIDE DEF a, b
  <2>4. a + b - 0 = a + b
    BY <1>1, <1>3, SMT
  <2>5. QED BY <1>4, <2>1, <2>3, <2>4
<1>6. \A x \in 1..a : x \in 1..(a + b)
  <2> HIDE DEF a, b
  <2>1. QED BY <1>1, <1>3, SMT
<1>7. \A x \in 1..b : a + x \in 1..(a + b)
  <2> HIDE DEF a, b
  <2>1. QED BY <1>1, <1>3, SMT
<1>8. ASSUME NEW c \in A \cup B
      PROVE  \E x \in 1..Len(both) : IsOurs(stream, both[x], c)
  <2>1. CASE c \in A
    <3>1. PICK x \in 1..a : IsOurs(stream, events[x], c)
      BY <1>2, <2>1, Zenon
    <3>2. both[x] = events[x] /\ x \in 1..Len(both)
      BY <1>4, <1>6, <3>1
    <3>3. QED BY <3>1, <3>2, Zenon
  <2>2. CASE c \in B
    <3>1. c[1] = p /\ c[2] \in moved
      BY <1>0, <2>2, SMT
    <3>2. PICK x \in 1..b : EventIs(more[x], c[2], t, UpdateAt(stream, p).positions)
      BY <3>1
    <3>3. IsOurs(stream, more[x], c)
      BY <3>1, <3>2, Zenon DEF IsOurs, EventIs
    <3>4. both[a + x] = more[x] /\ a + x \in 1..Len(both)
      BY <1>4, <1>7, <3>2
    <3>5. QED BY <3>3, <3>4, Zenon
  <2>3. QED BY <2>1, <2>2
<1>9. \A x \in 1..b : more[x].time = t
  BY Zenon DEF EventIs
<1>10. ASSUME NEW x \in 1..Len(both)
       PROVE  \/ x \in 1..a /\ both[x] = events[x]
              \/ x \notin 1..a /\ a < x /\ both[x].time = t
  <2>1. CASE x \in 1..a
    BY <1>4, <2>1
  <2>2. CASE x \notin 1..a
    <3>1. x \in 1..(a + b)
      BY <1>4
    <3>2. x - a \in 1..b /\ a + (x - a) = x /\ a < x
      <4> HIDE DEF a, b
      <4>1. QED BY <1>1, <1>3, <2>2, <3>1, SMT
    <3>3. both[a + (x - a)] = more[x - a]
      BY <1>4, <3>2
    <3>4. both[x].time = t
      BY <1>9, <3>2, <3>3
    <3>5. QED BY <2>2, <3>2, <3>4
  <2>3. QED BY <2>1, <2>2
<1>11. ASSUME NEW x \in 1..Len(both)
       PROVE  \E q \in S \cup {p} : both[x].time = TimeOf(stream, q)
  <2>1. CASE x \in 1..a /\ both[x] = events[x]
    BY <1>2, <2>1, Zenon
  <2>2. CASE both[x].time = t
    BY <2>2, Zenon
  <2>3. QED BY <1>10, <2>1, <2>2
<1>12. t \in Nat
  BY TimeOfIs
<1>13. \A q \in S : TimeOf(stream, q) <= t
  BY TimesOrdered DEF Earlier, All
<1>14. ASSUME NEW x \in 1..Len(both), NEW y \in 1..Len(both), x < y
       PROVE  both[x].time <= both[y].time
  <2>1. CASE y \in 1..a /\ both[y] = events[y]
    <3>1. x \in 1..a
      <4>1. x \in Int /\ 1 <= x
        BY <1>4, SMT
      <4> HIDE DEF a
      <4>2. QED BY <1>3, <1>14, <2>1, <4>1, SMT
    <3>2. QED BY <1>2, <1>4, <1>14, <2>1, <3>1
  <2>2. CASE both[y].time = t
    <3>1. CASE x \in 1..a /\ both[x] = events[x]
      <4>1. PICK q \in S : events[x].time = TimeOf(stream, q)
        BY <1>2, <3>1
      <4>2. QED BY <1>13, <2>2, <3>1, <4>1
    <3>2. CASE both[x].time = t
      <4> HIDE DEF t
      <4>1. t <= t
        BY <1>12, SMT
      <4>2. QED BY <2>2, <3>2, <4>1
    <3>3. QED BY <1>10, <3>1, <3>2
  <2>3. QED BY <1>10, <2>1, <2>2
<1>15. QED BY <1>1, <1>5, <1>8, <1>11, <1>14, Zenon DEF Listed, both

-----------------------------------------------------------------------------
(* What pass A reports.                                                    *)

\* The updates that are taken.
Taken == UpTo(stream, dec.next - 1, Left)

Reported ==
    phase \in Early =>
        /\ Standing(stream, stated, Taken)
        /\ options.refMetadata => Listed(stream, ours, Taken)

LEMMA ReportedTake ==
    ASSUME TInv, Reached, Queued, Reported, options.refMetadata => InTime, TakeUpdate,
           stream' = stream, options' = options
    PROVE  Reported'
<1> DEFINE n == dec.next - 1
           l == Left
           p == <<n, l + 1>>
           u == Head(updates.pending)
           more == EventsOf(u, Moved(u))
<1>1. /\ phase = "updates" /\ updates.pending # <<>> /\ dec' = dec
      /\ ours' = ours \o more /\ stated' = u.positions
  BY Zenon DEF TakeUpdate
<1>2. Given /\ Place /\ Meta
  BY Zenon DEF TInv
<1>3. phase \in Early
  BY <1>1, Zenon DEF Early
<1>4. dec.live /\ updates.position = RefPosition(n)
  BY <1>1, Zenon DEF Queued
<1>5. n \in AuIndices /\ InReference(n) /\ Present \in Seq(Update) /\ n \in Nat
  BY <1>2, <1>4, PresentType, AuFields
<1>6. /\ l \in Nat /\ l + 1 \in 1..Len(Present)
      /\ u \in MarkedUpdate /\ u.offset = Due(1).offset
      /\ u.positions = Due(1).positions
  BY <1>1, <1>2, NextQueued
<1>7. Present = stream.aus[n].updates /\ Due(1) = Present[l + 1]
  BY Zenon DEF Present, Due
<1>8. Left' = l + 1
  BY <1>1, <1>2, QueuedTake
<1>9. /\ p \in All /\ Taken = Earlier(stream, p)
      /\ UpTo(stream, n, l + 1) = Earlier(stream, p) \cup {p}
  <2>1. /\ p \in All /\ UpTo(stream, n, l) = Earlier(stream, p)
        /\ UpTo(stream, n, l + 1) = UpTo(stream, n, l) \cup {p}
    BY <1>2, <1>5, <1>6, <1>7, UpToNext
  <2>2. QED BY <2>1, Zenon DEF Taken
<1>10. Taken' = Earlier(stream, p) \cup {p}
  BY <1>1, <1>8, <1>9, Zenon DEF Taken
<1>11. p[1] = n /\ p[2] = l + 1
  OBVIOUS
<1> HIDE DEF p
<1>12. UpdateAt(stream, p) = Due(1)
  BY <1>7, <1>11, Zenon DEF UpdateAt
<1>13. Standing(stream, stated', Earlier(stream, p) \cup {p})
  <2>1. LastOf(Earlier(stream, p) \cup {p}, p)
    <3>1. ~Before(p, p) /\ \A q \in All : Before(q, p) => ~Before(p, q)
      BY <1>2, <1>9, BeforeTotal
    <3>2. QED BY <3>1, Zenon DEF LastOf, Earlier, All
  <2>2. stated' = UpdateAt(stream, p).positions
    BY <1>1, <1>6, <1>12
  <2>3. QED BY <2>1, <2>2, Zenon DEF Standing
<1>14. Standing(stream, stated, Earlier(stream, p))
  BY <1>3, <1>9, Zenon DEF Reported
<1>15. ASSUME options.refMetadata PROVE Listed(stream, ours', Earlier(stream, p) \cup {p})
  <2>1. Listed(stream, ours, Earlier(stream, p)) /\ InTime
    BY <1>3, <1>9, <1>15, Zenon DEF Reported
  <2>2. TimeOf(stream, p) = updates.position + u.offset
    BY <1>2, <1>4, <1>6, <1>9, <1>11, <1>12, TimeOfIs
  <2>3. UpdateAt(stream, p).positions = u.positions
    BY <1>6, <1>12
  <2>4. Moved(u) = MovedFrom(stream, stated, p) /\ Moved(u) \in SUBSET Objects
    <3>1. target = stated
      BY <1>2, Zenon DEF Meta
    <3>2. QED BY <2>3, <3>1, Zenon DEF Moved, MovedFrom
  <2>5. ours \in Seq(OurEvent) /\ updates.position \in Nat
    <3>1. updates \in [pending : Seq(MarkedUpdate), position : Nat, frames : Nat]
      BY <1>2, Zenon DEF Meta
    <3>2. QED BY <1>2, <3>1 DEF Meta
  <2>6. more \in Seq(OurEvent) /\ Len(more) = Cardinality(Moved(u))
    BY <1>6, <2>4, <2>5, EventsType
  <2>7. /\ \A x \in 1..Len(more) : \E e \in Moved(u) :
               EventIs(more[x], e, TimeOf(stream, p), UpdateAt(stream, p).positions)
        /\ \A e \in Moved(u) : \E x \in 1..Len(more) :
               EventIs(more[x], e, TimeOf(stream, p), UpdateAt(stream, p).positions)
    <3>1. /\ \A x \in 1..Len(more) : \E e \in Moved(u) :
                 EventIs(more[x], e, updates.position + u.offset, u.positions)
          /\ \A e \in Moved(u) : \E x \in 1..Len(more) :
                 EventIs(more[x], e, updates.position + u.offset, u.positions)
      BY <1>6, <2>4, EventsTell
    <3>2. QED BY <2>2, <2>3, <3>1, Zenon
  <2> HIDE DEF more
  <2>8. Listed(stream, ours \o more, Earlier(stream, p) \cup {p})
    BY <1>2, <1>9, <1>14, <2>1, <2>4, <2>5, <2>6, <2>7, ListedNext
  <2>9. QED BY <1>1, <2>8 DEF more
<1>16. QED BY <1>10, <1>13, <1>15, Zenon DEF Reported

\* Where nothing is left of the updates of the last block.
LEMMA TakenWhole ==
    ASSUME Given, Place, Reached, updates.pending = <<>>
    PROVE  /\ dec.next - 1 \in Nat
           /\ dec.next - 1 # 0 => Left = Len(stream.aus[dec.next - 1].updates)
<1>1. dec.next \in Nat /\ 1 <= dec.next
  <2>1. dec.next \in 1..(Len(stream.aus) + 1)
    BY Zenon DEF Place
  <2>2. QED BY <2>1, SMT
<1>2. dec.next - 1 \in Nat
  BY <1>1, SMT
<1>3. ASSUME dec.next - 1 # 0 PROVE Left = Len(stream.aus[dec.next - 1].updates)
  <2>1. dec.next # 1
    BY <1>1, <1>3, SMT
  <2>2. dec.live
    <3>1. dec.live \in BOOLEAN
      <4>1. dec \in Decoder
        BY Zenon DEF Place
      <4>2. QED BY <4>1 DEF Decoder
    <3>2. QED BY <2>1, <3>1, Zenon DEF Reached
  <2>3. Len(Present) \in Nat
    BY <2>2, PresentType
  <2>4. Len(updates.pending) = 0
    BY SMT
  <2>5. QED BY <2>3, <2>4, SMT DEF Left, Present
<1>4. QED BY <1>2, <1>3

LEMMA ReportedPull ==
    ASSUME TInv, Reached, Sound, Queued, Reported, NEW n \in AuIndices, PullA(n),
           stream' = stream, options' = options
    PROVE  Reported'
<1> DEFINE m == dec.next - 1
<1>1. /\ phase = "pull A" /\ Pulled(n) /\ dec' = After(n)
      /\ ours' = ours /\ stated' = stated
  BY Zenon DEF PullA
<1>2. Given /\ Place
  BY Zenon DEF TInv
<1>3. phase \in Early /\ updates.pending = <<>>
  BY <1>1, Zenon DEF Early, Queued
<1>4. m \in Nat /\ (m # 0 => Left = Len(stream.aus[m].updates))
  BY <1>2, <1>3, TakenWhole
<1>5. dec.next <= n /\ (\A x \in dec.next..(n - 1) : ~InReference(x)) /\ n \in Nat
  BY <1>1, <1>2, PulledNext, AuFields
<1>6. m < n /\ m + 1 = dec.next
  <2>1. dec.next \in Nat
    <3>1. dec.next \in 1..(Len(stream.aus) + 1)
      BY <1>2, Zenon DEF Place
    <3>2. QED BY <3>1, SMT
  <2>2. QED BY <1>5, <2>1, SMT
<1>7. Left' = 0
  BY <1>2, QueuedPull
<1>8. dec'.next - 1 = n
  <2>1. dec'.next = n + 1
    BY <1>1, <1>2, AfterType, Zenon DEF Pulled
  <2>2. QED BY <1>5, <2>1, SMT
<1>9. UpTo(stream, m, Left) = UpTo(stream, n, 0)
  <2>1. \A x \in (m + 1)..(n - 1) : ~InReference(x)
    BY <1>5, <1>6
  <2> HIDE DEF m
  <2>2. QED BY <1>2, <1>4, <1>5, <1>6, <2>1, UpToWhole
<1>10. Taken' = Taken
  BY <1>7, <1>8, <1>9, Zenon DEF Taken
<1>11. QED BY <1>1, <1>3, <1>10, Zenon DEF Reported

LEMMA ReportedSame ==
    ASSUME stream' = stream, options' = options, dec'.next = dec.next,
           updates'.pending = updates.pending, stated' = stated, ours' = ours,
           phase \in Early, Reported
    PROVE  Reported'
<1>1. Left' = Left
  BY Zenon DEF Left, Present
<1>2. Taken' = Taken
  BY <1>1, Zenon DEF Taken
<1>3. QED BY <1>2, Zenon DEF Reported

LEMMA ReportedKept ==
    ASSUME TInv, Following, Untouched, Sound, Queued, Reported,
           options.refMetadata => InTime, Next
    PROVE  Reported'
<1>1. Given /\ Place /\ stream' = stream /\ options' = options
  BY SourceKept, Zenon DEF TInv
<1>2. phase \in Early => Reached
  BY Zenon DEF Following, Untouched, Early, InPassB
<1>3. CASE \E n \in AuIndices : PullA(n)
  <2>1. PICK n \in AuIndices : PullA(n)
    BY <1>3
  <2>2. phase \in Early
    BY <2>1, Zenon DEF PullA, Early
  <2>3. QED BY <1>1, <1>2, <2>1, <2>2, ReportedPull
<1>4. CASE TakeUpdate
  <2>1. phase \in Early
    BY <1>4, Zenon DEF TakeUpdate, Early
  <2>2. QED BY <1>1, <1>2, <1>4, <2>1, ReportedTake
<1>5. CASE UpdatesTaken
  <2>1. /\ phase \in Early /\ updates.pending = <<>> /\ updates' = Silent
        /\ dec' = dec /\ stated' = stated /\ ours' = ours
    BY <1>5, Zenon DEF UpdatesTaken, Early
  <2>2. updates'.pending = updates.pending
    BY <2>1 DEF Silent
  <2>3. QED BY <1>1, <2>1, <2>2, ReportedSame
<1>6. CASE FinishPassA
  <2>1. phase' \notin Early
    BY <1>6, Zenon DEF FinishPassA, Early
  <2>2. QED BY <2>1, Zenon DEF Reported
<1>7. CASE Waits
  <2>1. phase \in Early /\ UNCHANGED <<updates, stated, ours>>
    BY <1>7, Zenon DEF Waits
  <2>2. dec'.next = dec.next
    <3>1. dec \in Decoder /\ (dec' = dec \/ dec' = [dec EXCEPT !.upTo = input[k + 1]])
      BY <1>1, <1>7, Zenon DEF Waits, Place
    <3>2. QED BY <3>1 DEF Decoder
  <2>3. QED BY <1>1, <2>1, <2>2, ReportedSame
<1>8. CASE phase \notin Early /\ phase' \notin Early
  BY <1>8, Zenon DEF Reported
<1>9. QED BY <1>3, <1>4, <1>5, <1>6, <1>7, <1>8, EarlySteps

\* In the end all are taken.
LEMMA TakenAll ==
    ASSUME Given, Place, Reached, updates.pending = <<>>, Ready = {}, dec.upTo = Size
    PROVE  Taken = All
<1> DEFINE m == dec.next - 1
<1>1. m \in Nat /\ (m # 0 => Left = Len(stream.aus[m].updates))
  BY TakenWhole
<1>2. \A n \in AuIndices : InReference(n) => n < dec.next
  BY ReachedEnd
<1>3. dec.next = m + 1
  <2>1. dec.next \in 1..(Len(stream.aus) + 1)
    BY Zenon DEF Place
  <2>2. QED BY <2>1, SMT
<1> HIDE DEF m
<1>4. ASSUME NEW p \in All PROVE p[1] < m \/ (p[1] = m /\ p[2] <= Left)
  <2> DEFINE a == p[1]
             b == p[2]
  <2>1. a \in Nat /\ 1 <= a /\ a < m + 1 /\ b <= Len(stream.aus[a].updates)
    BY <1>2, <1>3, <1>4, StatedElement
  <2>2. a = m => b <= Left
    <3>1. SUFFICES ASSUME a = m PROVE b <= Left
      OBVIOUS
    <3>2. m # 0
      <4> HIDE DEF a
      <4>1. QED BY <2>1, <3>1, SMT
    <3>3. QED BY <1>1, <2>1, <3>1, <3>2
  <2>3. a < m \/ a = m
    <3> HIDE DEF a
    <3>1. QED BY <1>1, <2>1, SMT
  <2>4. QED BY <2>2, <2>3
<1>5. QED BY <1>4, Zenon DEF Taken, UpTo, All, m

LEMMA ReportedStart == Init => Reported
<1> SUFFICES ASSUME Init PROVE Reported
  OBVIOUS
<1>1. Given /\ dec = FedFrom(0) /\ ours = <<>> /\ stated = [e \in Objects |-> Nowhere]
  BY Zenon DEF Init, Given
<1>2. dec.next - 1 = 0
  <2>1. dec.next = 1
    BY <1>1, FirstFromStart DEF FedFrom
  <2>2. QED BY <2>1, SMT
<1>3. ASSUME NEW p \in All PROVE ~(p[1] < 0 \/ (p[1] = 0 /\ p[2] <= Left))
  <2>1. p[1] \in Nat /\ 1 <= p[1]
    BY <1>1, <1>3, StatedElement
  <2>2. ~(p[1] < 0) /\ p[1] # 0
    BY <2>1, SMT
  <2>3. QED BY <2>2
<1>4. Taken = {}
  BY <1>2, <1>3, Zenon DEF Taken, UpTo, All
<1>5. Of(stream, {}) = {}
  BY Zenon DEF Of
<1>6. Len(ours) = 0 /\ 1..Len(ours) = {}
  BY <1>1, SMT
<1>7. Listed(stream, ours, {})
  <2>1. IsFiniteSet({}) /\ Cardinality({}) = 0
    BY FS_EmptySet, Zenon
  <2>2. QED BY <1>5, <1>6, <2>1, Zenon DEF Listed
<1>8. Standing(stream, stated, {})
  BY <1>1, Zenon DEF Standing
<1>9. QED BY <1>4, <1>7, <1>8, Zenon DEF Reported

-----------------------------------------------------------------------------
(* Its comparison with the reference.                                      *)

LEMMA FedWhole ==
    ASSUME Given, Cutting, Place, phase # "load", k = Len(input)
    PROVE  dec.upTo = Size
<1>1. Len(input) \in Packets /\ input[Len(input)] = Size
  BY LoadedType, Zenon
<1>2. k # 0
  <2>1. 1 <= Len(input) /\ Len(input) \in Nat
    BY <1>1, PacketEnds, Zenon
  <2> DEFINE l == Len(input)
  <2>2. 1 <= l /\ l \in Nat /\ k = l
    BY <2>1
  <2> HIDE DEF l
  <2>3. QED BY <2>2, SMT
<1>3. QED BY <1>1, <1>2, Zenon DEF Place

Matching ==
    phase = "match" =>
        options.refMetadata /\ Listed(stream, ours, All)

Verdict == phase \in {"match", "seek"} /\ OneLayout => ~failed

LEMMA FinishAVerdict ==
    ASSUME TInv, Following, Untouched, Queued, Faithful, Reported, FinishPassA,
           stream' = stream, options' = options
    PROVE  Matching' /\ Verdict'
<1>1. /\ phase = "push A" /\ k = Len(input) /\ phase' \in {"match", "seek"}
      /\ phase' = (IF options.refMetadata THEN "match" ELSE "seek")
      /\ failed' = (failed \/ Cardinality(serials) > 1 \/ (options.refAudio /\ ~BitExact))
      /\ ours' = ours
  BY Zenon DEF FinishPassA, metaVars
<1>2. Given /\ Cutting /\ Place /\ Meta
  BY Zenon DEF TInv
<1>3. phase \in Early /\ phase # "load" /\ updates.pending = <<>>
  BY <1>1, Zenon DEF Early, Queued
<1>4. ~resetDone /\ Reached /\ Ready = {}
  <2>1. ~resetDone
    BY <1>1, Zenon DEF Untouched, InPassB
  <2>2. QED BY <1>1, <2>1, Zenon DEF Following, Drained, AfterFaultyReset
<1>5. dec.upTo = Size
  BY <1>1, <1>2, <1>3, FedWhole
<1>6. /\ ~failed /\ serials \subseteq Layouts
      /\ options.refAudio => ~cmp.mismatch /\ cmp.frames = dec.frames
  BY <1>3, Zenon DEF Faithful
<1>7. dec.frames = RefFrames
  BY <1>2, <1>4, <1>5, ReachedEnd
<1>8. options.refAudio => BitExact
  BY <1>6, <1>7, Zenon DEF BitExact
<1>9. OneLayout => ~(Cardinality(serials) > 1)
  <2>1. SUFFICES ASSUME OneLayout PROVE ~(Cardinality(serials) > 1)
    OBVIOUS
  <2> DEFINE one == stream.aus[1].layout
  <2>2. Layouts \subseteq {one}
    BY <2>1, Zenon DEF OneLayout, Layouts
  <2>3. serials \in SUBSET {one}
    BY <1>6, <2>2, Zenon
  <2>4. IsFiniteSet({one}) /\ Cardinality({one}) = 1
    BY FS_Singleton, Zenon
  <2>5. IsFiniteSet(serials) /\ Cardinality(serials) <= Cardinality({one})
    BY <2>3, <2>4, FS_Subset, Zenon
  <2>6. Cardinality(serials) \in Nat
    BY <2>5, FS_CardinalityType
  <2> DEFINE a == Cardinality(serials)
  <2>7. a \in Nat /\ a <= 1
    BY <2>4, <2>5, <2>6
  <2> HIDE DEF a
  <2>8. ~(a > 1)
    BY <2>7, SMT
  <2>9. QED BY <2>8 DEF a
<1>10. OneLayout' = OneLayout
  BY Zenon DEF OneLayout, AuIndices
<1>11. Verdict'
  BY <1>1, <1>6, <1>8, <1>9, <1>10, Zenon DEF Verdict
<1>12. ASSUME phase' = "match" PROVE Listed(stream, ours, All) /\ options.refMetadata
  <2>1. options.refMetadata
    BY <1>1, <1>12, Zenon
  <2>2. Taken = All
    BY <1>2, <1>3, <1>4, <1>5, TakenAll
  <2>3. QED BY <1>3, <2>1, <2>2, Zenon DEF Reported
<1>13. All' = All
  BY Zenon DEF All
<1>14. Matching'
  BY <1>1, <1>12, <1>13, Zenon DEF Matching
<1>15. QED BY <1>11, <1>14

LEMMA MatchSteps ==
    ASSUME Next
    PROVE  FinishPassA \/ MatchBed \/ MatchEvent \/ FinishMatch \/ phase' \notin {"match", "seek"}
<1> DEFINE R == phase' \notin {"match", "seek"}
<1>1. (\E length \in ChunkLengths : LoadChunk(length)) \/ (\E n \in 1..MaxAus : LoadPacket(n)) => R
  BY Zenon DEF LoadChunk, LoadPacket
<1>2. StartPassA \/ PushA \/ PulledDryA \/ TakeUpdate \/ UpdatesTaken => R
  BY Zenon DEF StartPassA, PushA, PulledDryA, TakeUpdate, UpdatesTaken
<1>3. NoPassB \/ StartPassB \/ PushB \/ PulledDryB \/ FinishPassB => R
  BY Zenon DEF NoPassB, StartPassB, PushB, PulledDryB, FinishPassB
<1>4. ASSUME NEW n \in AuIndices, PullA(n) \/ PullB(n) PROVE R
  BY <1>4, Zenon DEF PullA, PullB, Seek
<1>5. ASSUME NEW b \in AnyBlock, PullFaultyB(b) PROVE R
  BY <1>5, Zenon DEF PullFaultyB
<1>6. ASSUME PushRefused \/ PullFails PROVE R
  <2>1. phase' = "stopped"
    BY <1>6, Refused, Zenon
  <2>2. QED BY <2>1
<1> HIDE DEF R
<1>7. FinishPassA \/ MatchBed \/ MatchEvent \/ FinishMatch \/ R
  BY <1>1, <1>2, <1>3, <1>4, <1>5, <1>6, Zenon DEF Next
<1>8. QED BY <1>7 DEF R

\* Events that tell what ours tell, both in order: each finds one of ours.
LEMMA ListedOrdered ==
    ASSUME Given, Meta, Tells, Listed(stream, ours, All)
    PROVE  Ordered /\ Missing = {}
<1> DEFINE l == Len(ours)
           time(x) == ours[x].time
<1>1. /\ l \in Nat /\ \A x \in 1..l : time(x) \in Nat
      /\ \A n \in ObjectEvents : CliEvents[n].time \in Nat /\ CliEvents[n].id \in Nat
  BY ListedTypes, Zenon
<1>2. EventsInOrder
  BY Zenon DEF Tells, EventsInOrder
<1>3. ASSUME NEW m \in 1..l, NEW n \in 1..l, m < n
      PROVE  time(m) <= time(n) + (Window - BlockOffset)
  <2>1. time(m) <= time(n)
    BY <1>3, Zenon DEF Listed
  <2> DEFINE a == time(m)
             b == time(n)
  <2>2. a \in Nat /\ b \in Nat /\ a <= b
    BY <1>1, <2>1
  <2> HIDE DEF a, b
  <2>3. a <= b + (Window - BlockOffset)
    BY <2>2, SMT DEF Window, BlockOffset
  <2>4. QED BY <2>3 DEF a, b
<1>4. OursInOrder
  BY <1>3, Zenon DEF OursInOrder
<1>5. ASSUME NEW n \in ObjectEvents PROVE HasOurs(CliEvents[n])
  <2> DEFINE c == CliEvents[n]
  <2>1. PICK change \in Changes(stream) : TellsOf(stream, change, c)
    BY Zenon DEF Tells
  <2>2. change[1] \in All /\ change[2] \in Objects
    <3>1. change \in All \X Objects
      BY Zenon DEF Changes, All
    <3>2. QED BY <3>1, SMT
  <2>3. change \in Of(stream, All)
    BY <2>2, Zenon DEF Of
  <2>4. PICK y \in 1..l : IsOurs(stream, ours[y], change)
    BY <2>3, Zenon DEF Listed
  <2> DEFINE t == TimeOf(stream, change[1])
             lag == UpdateAt(stream, change[1]).lag
             e == change[2]
  <2>5. lag = 0 \/ lag = BlockOffset
    <3>1. UpdateAt(stream, change[1]) \in Update
      BY <2>2, StatedElement
    <3>2. QED BY <3>1, UpdateMore, Zenon
  <2>6. t \in Nat /\ time(y) = t /\ c.time = t - lag
    BY <2>1, <2>2, <2>4, TimeOfIs, Zenon DEF IsOurs, TellsOf
  <2>7. ours[y].id = change[2] /\ c.id = change[2] - BedCount + FirstObjectId
        /\ ours[y].position = c.position
    BY <2>1, <2>4, Zenon DEF IsOurs, TellsOf
  <2>8. e \in Nat /\ BedCount \in Nat
    BY <2>2, HarnessConstants, Zenon
  <2>9. ours[y].id = c.id - FirstObjectId + BedCount
    <3>1. e = (e - BedCount + FirstObjectId) - FirstObjectId + BedCount
      <4> HIDE DEF e
      <4>1. QED BY <2>8, SMT DEF FirstObjectId
    <3>2. QED BY <2>7, <3>1
  <2>10. time(y) - c.time \in {0, BlockOffset}
    <3> HIDE DEF t, lag
    <3>1. t - (t - lag) \in {0, BlockOffset}
      BY <2>5, <2>6, SMT DEF BlockOffset
    <3>2. QED BY <2>6, <3>1
  <2>11. SameEvent(ours[y], c)
    BY <2>7, <2>9, <2>10, Zenon DEF SameEvent
  <2>12. QED BY <2>11, Zenon DEF HasOurs
<1>6. Missing = {}
  BY <1>5, Zenon DEF Missing
<1>7. QED BY <1>2, <1>4, <1>6, Zenon DEF Ordered

\* The comparison leaves the events alone until it is over.
LEMMA MatchGoesOn ==
    ASSUME Matching, Verdict, MatchBed \/ MatchEvent, stream' = stream, options' = options
    PROVE  Matching' /\ Verdict'
<1>1. phase = "match" /\ phase' = phase
  BY Zenon DEF MatchBed, MatchEvent
<1>2. UNCHANGED <<ours, failed>>
  BY Zenon DEF MatchBed, MatchEvent, metaVars
<1>3. All' = All /\ (OneLayout' <=> OneLayout)
  BY Zenon DEF All, OneLayout, AuIndices
<1>4. QED BY <1>1, <1>2, <1>3, Zenon DEF Matching, Verdict

LEMMA FinishMatchKept ==
    ASSUME CInv, Tells, Matching, Verdict, FinishMatch, stream' = stream
    PROVE  Matching' /\ Verdict'
<1>1. /\ phase = "match" /\ phase' = "seek" /\ failed' = (failed \/ ~AllMatched)
      /\ i > Len(CliEvents)
  BY Zenon DEF FinishMatch
<1>2. Listed(stream, ours, All)
  BY <1>1, Zenon DEF Matching
<1>3. Of(stream, All) = Changes(stream)
  <2>1. \A change \in Changes(stream) : change \in All \X Objects
    BY Zenon DEF Changes, All
  <2>2. \A change \in Changes(stream) : change[1] \in All
    BY <2>1, SMT
  <2>3. QED BY <2>2, Zenon DEF Of
<1>4. Cardinality(ObjectEvents) = Len(ours)
  BY <1>2, <1>3, Zenon DEF Listed, Tells
<1>5. ~unmatched
  <2>1. Given /\ Meta
    BY Zenon DEF CInv, TInv
  <2>2. Ordered /\ Missing = {}
    BY <1>2, <2>1, ListedOrdered
  <2>3. QED BY <1>1, <2>2, Zenon DEF CInv, Compared
<1>6. AllMatched
  BY <1>4, <1>5, Zenon DEF AllMatched
<1>7. OneLayout' <=> OneLayout
  BY Zenon DEF OneLayout, AuIndices
<1>8. QED BY <1>1, <1>6, <1>7, Zenon DEF Matching, Verdict

LEMMA VerdictKept ==
    ASSUME Sound, CInv, Following, Untouched, Queued, Faithful, Reported, Matching, Verdict,
           options.refMetadata => Tells, Next
    PROVE  Matching' /\ Verdict'
<1>1. TInv /\ stream' = stream /\ options' = options
  BY SourceKept, Zenon DEF CInv
<1>2. phase = "match" => Tells
  BY Zenon DEF Matching
<1>3. CASE FinishPassA
  BY <1>1, <1>3, FinishAVerdict
<1>4. CASE MatchBed \/ MatchEvent
  BY <1>1, <1>4, MatchGoesOn
<1>5. CASE FinishMatch
  <2>1. phase = "match"
    BY <1>5, Zenon DEF FinishMatch
  <2>2. QED BY <1>1, <1>2, <1>5, <2>1, FinishMatchKept
<1>6. CASE phase' \notin {"match", "seek"}
  BY <1>6, Zenon DEF Matching, Verdict
<1>7. QED BY <1>3, <1>4, <1>5, <1>6, MatchSteps

-----------------------------------------------------------------------------
(* What a sound decoder returns in pass B.                                 *)

\* It counts in a packet from the first access unit that begins there, also
\* when it has itself begun with a packet.
Counted == dec.first = 1 \/ \E p \in Packets : dec.first = FirstOf(p)

LEMMA IndexIs ==
    ASSUME Given, Cutting, Place, phase # "load", Counted, NEW n \in AuIndices, dec.first <= n
    PROVE  Block(n).index = n - FirstOf(PacketOf(n))
<1> DEFINE q == PacketOf(n)
           f == dec.first
<1>1. /\ n \in Nat /\ f \in Nat
  <2>1. n \in Nat
    BY AuFields
  <2>2. dec \in Decoder
    BY Zenon DEF Place
  <2>3. QED BY <2>1, <2>2 DEF Decoder
<1>2. ASSUME NEW m \in 1..(n - 1), PacketOf(m) = q PROVE f <= m
  <2>1. m \in Nat /\ 1 <= m /\ m < n
    BY <1>1, SMT
  <2>2. CASE f = 1
    BY <2>1, <2>2
  <2>3. CASE \E p \in Packets : f = FirstOf(p)
    <3>1. PICK p \in Packets : f = FirstOf(p)
      BY <2>3
    <3>2. SUFFICES ASSUME ~(f <= m) PROVE FALSE
      OBVIOUS
    <3>3. m < f
      BY <1>1, <2>1, <3>2, SMT
    <3>4. m \in AuIndices
      <4>1. n \in 1..Len(stream.aus) /\ Len(stream.aus) \in Nat
        BY AuCount, Zenon DEF AuIndices
      <4>2. QED BY <2>1, <4>1, SMT DEF AuIndices
    <3>5. PacketStart(p) \in Nat /\ input[p] \in Nat /\ PacketStart(p) < input[p]
      BY PacketEnds
    <3>6. stream.aus[m].start < PacketStart(p)
      BY <3>1, <3>3, <3>4, <3>5, FirstFromSplits, Zenon DEF FirstOf
    <3>7. ~(stream.aus[n].start < PacketStart(p))
      <4>1. ~(n < f)
        BY <1>1, SMT
      <4>2. QED BY <3>1, <3>5, <4>1, FirstFromSplits, Zenon DEF FirstOf
    <3>8. /\ q \in Packets /\ stream.aus[n].start < input[q]
          /\ PacketStart(q) <= stream.aus[m].start
      BY <1>2, <3>4, PacketOfIs
    <3>9. PacketStart(q) \in Nat /\ input[q] \in Nat
          /\ stream.aus[m].start \in Nat /\ stream.aus[n].start \in Nat
      BY <3>4, <3>8, PacketEnds, AuFields
    <3> DEFINE a == stream.aus[m].start
               b == stream.aus[n].start
               x == PacketStart(p)
               y == PacketStart(q)
               z == input[q]
               w == input[p]
    <3>10. /\ a \in Nat /\ b \in Nat /\ x \in Nat /\ y \in Nat /\ z \in Nat /\ w \in Nat
           /\ a < x /\ ~(b < x) /\ b < z /\ y <= a /\ x < w
      BY <3>5, <3>6, <3>7, <3>8, <3>9
    <3>11. CASE q = p
      <4>1. x = y
        BY <3>11
      <4> HIDE DEF a, b, x, y, z, w
      <4>2. QED BY <3>10, <4>1, SMT
    <3>12. CASE q < p
      <4>1. z <= x
        BY <3>8, <3>12, PacketsOrdered
      <4> HIDE DEF a, b, x, y, z, w
      <4>2. QED BY <3>10, <4>1, SMT
    <3>13. CASE p < q
      <4>1. w <= y
        BY <3>8, <3>13, PacketsOrdered
      <4> HIDE DEF a, b, x, y, z, w
      <4>2. QED BY <3>10, <4>1, SMT
    <3>14. p \in Int /\ q \in Int
      BY <3>8, PacketEnds
    <3>15. QED BY <3>11, <3>12, <3>13, <3>14, SMT
  <2>4. QED BY <2>2, <2>3 DEF Counted
<1>3. \A m : m \in f..(n - 1) /\ PacketOf(m) = q <=> m \in 1..(n - 1) /\ PacketOf(m) = q
  <2>1. ASSUME NEW m, m \in f..(n - 1) PROVE m \in 1..(n - 1)
    <3>1. 1 <= f
      <4>1. CASE f = 1
        BY <4>1, SMT
      <4>2. CASE \E p \in Packets : f = FirstOf(p)
        <5>1. PICK p \in Packets : f = FirstOf(p)
          BY <4>2
        <5>2. FirstOf(p) \in 1..(Len(stream.aus) + 1)
          BY PacketEnds, FirstFromSplits, Zenon DEF FirstOf
        <5>3. QED BY <1>1, <5>1, <5>2, SMT
      <4>3. QED BY <4>1, <4>2 DEF Counted
    <3>2. QED BY <1>1, <2>1, <3>1, SMT
  <2>2. ASSUME NEW m, m \in 1..(n - 1), PacketOf(m) = q PROVE m \in f..(n - 1)
    <3>1. f <= m
      BY <1>2, <2>2
    <3>2. QED BY <1>1, <2>2, <3>1, SMT
  <2>3. QED BY <2>1, <2>2
<1>4. {m \in f..(n - 1) : PacketOf(m) = q} = {m \in 1..(n - 1) : PacketOf(m) = q}
  BY <1>3, Zenon
<1>5. Cardinality({m \in 1..(n - 1) : PacketOf(m) = q}) = n - FirstOf(q)
  BY PacketRun
<1>6. Block(n).index = Cardinality({m \in f..(n - 1) : PacketOf(m) = q})
  BY Zenon DEF Block
<1>7. QED BY <1>4, <1>5, <1>6, Zenon

\* What pass A learnt tells where a block is.
LEMMA BlockPlaced ==
    ASSUME TInv, phase # "load", Numbers, Frames0, Plain, Counted,
           NEW n \in Ready, dec.first <= n
    PROVE  /\ IsMapped(Block(n)) /\ At(Block(n)) = AuFrames * (n - 1)
           /\ map[Block(n).pts].ordinal + Block(n).index = n - 1
           /\ ~CompareBlock(NothingCompared, Block(n), At(Block(n))).mismatch
<1> DEFINE b == Block(n)
           q == PacketOf(n)
           f == FirstOf(q)
           x == b.index
           at == At(b)
<1>1. Given /\ Cutting /\ Place
  BY Zenon DEF TInv
<1>2. n \in AuIndices /\ n \in Nat
  BY <1>1, ReadyIs, AuFields
<1>3. b.au = n /\ b.pts = q /\ q \in Packets /\ b.frames = Frames(n) /\ b.auFrames = AuFrames
  BY <1>1, BlockType
<1>4. x = n - f
  BY <1>1, <1>2, IndexIs
<1>5. Begins(q) /\ f \in Nat /\ 1 <= f /\ f <= n
  BY <1>1, <1>2, PacketRun
<1>6. map[q].ref = AuFrames * (f - 1)
  BY <1>3, <1>5, Zenon DEF Frames0
<1>7. map[q].ref >= 0
  <2> HIDE DEF f
  <2>1. AuFrames * (f - 1) >= 0
    BY <1>5, SMT DEF AuFrames
  <2>2. QED BY <1>6, <2>1
<1>8. q # NoPts
  <2>1. q \in Nat
    BY <1>1, <1>3, PacketEnds
  <2>2. QED BY <2>1, SMT DEF NoPts
<1>9. map[q].ordinal = f - 1
  <2>1. map[q] # Unmapped
    <3>1. ~(Unmapped.ref >= 0)
      BY SMT DEF Unmapped
    <3>2. QED BY <1>7, <3>1, Zenon
  <2>2. QED BY <1>3, <2>1, Zenon DEF Numbers
<1>10. IsMapped(b)
  BY <1>3, <1>7, <1>8, Zenon DEF IsMapped
<1>11. at = map[q].ref + x * AuFrames
  BY <1>3, Zenon DEF At
<1>12. at = AuFrames * (n - 1)
  <2>1. at = AuFrames * (f - 1) + (n - f) * AuFrames
    BY <1>4, <1>6, <1>11, Zenon
  <2> HIDE DEF f, at
  <2>2. QED BY <1>2, <1>5, <2>1, SMT DEF AuFrames
<1>13. map[b.pts].ordinal + x = n - 1
  <2>1. map[b.pts].ordinal + x = (f - 1) + (n - f)
    BY <1>3, <1>4, <1>9, Zenon
  <2> HIDE DEF f
  <2>2. (f - 1) + (n - f) = n - 1
    BY <1>2, <1>5, SMT
  <2>3. QED BY <2>1, <2>2
<1>14. InReference(n) /\ RefPosition(n) = AuFrames * (n - 1)
  BY <1>1, <1>2, PlainReference
<1>15. ~CompareBlock(NothingCompared, b, at).mismatch
  <2>1. CASE ~options.refAudio
    <3>1. CompareBlock(NothingCompared, b, at) = NothingCompared
      BY <2>1, Zenon DEF CompareBlock
    <3>2. NothingCompared.mismatch = FALSE
      BY DEF NothingCompared
    <3>3. QED BY <3>1, <3>2, Zenon
  <2>2. CASE options.refAudio
    <3> DEFINE beyond == at + b.frames > RefFrames
               over == NothingCompared.mismatch \/ b.frames > 0
               frames == NothingCompared.frames + b.frames
               missed == NothingCompared.mismatch \/ (b.frames > 0 /\ ~Holds(b, at))
    <3>1. CompareBlock(NothingCompared, b, at)
              = IF beyond THEN [NothingCompared EXCEPT !.mismatch = over]
                ELSE [frames |-> frames, mismatch |-> missed]
      BY <2>2, Zenon DEF CompareBlock
    <3>2. ~missed
      <4>1. NothingCompared.mismatch = FALSE
        BY DEF NothingCompared
      <4>2. Frames(n) <= Frames(n)
        <5>1. Frames(n) \in Nat
          BY <1>1, <1>2, FramesType
        <5>2. QED BY <5>1, SMT
      <4>3. Holds(b, at)
        BY <1>3, <1>12, <1>14, <4>2, Zenon DEF Holds
      <4>4. QED BY <4>1, <4>3, Zenon
    <3>3. ~beyond
      <4>1. RefFrames \in Nat /\ RefPosition(n) + Frames(n) <= RefFrames
        BY <1>1, <1>2, <1>14, RefFramesBound
      <4>2. Frames(n) \in Nat /\ RefPosition(n) \in Nat
        BY <1>1, <1>2, FramesType, RefPositionType
      <4> DEFINE y == RefPosition(n)
                 z == Frames(n)
      <4>3. at = y /\ b.frames = z
        BY <1>3, <1>12, <1>14
      <4>4. ~(y + z > RefFrames)
        <5>1. y \in Nat /\ z \in Nat /\ RefFrames \in Nat /\ y + z <= RefFrames
          BY <4>1, <4>2
        <5> HIDE DEF y, z
        <5>2. QED BY <5>1, SMT
      <4>5. QED BY <4>3, <4>4
    <3> HIDE DEF beyond, missed, frames, over
    <3>4. CompareBlock(NothingCompared, b, at) = [frames |-> frames, mismatch |-> missed]
      BY <3>1, <3>3, Zenon
    <3>5. [frames |-> frames, mismatch |-> missed].mismatch = missed
      BY Zenon
    <3>6. QED BY <3>2, <3>4, <3>5, Zenon
  <2>3. QED BY <2>1, <2>2
<1>16. QED BY <1>10, <1>12, <1>13, <1>15

\* After a reset at a packet pass A knows of, it is on the timeline from there.
LEMMA BlockOnTimeline ==
    ASSUME TInv, phase # "load", Numbers, Frames0, Plain,
           dec.first = FirstOf(resume), IsMapped([pts |-> resume]),
           NEW n \in Ready, dec.first <= n
    PROVE  OnTimeline(Block(n))
<1> DEFINE b == Block(n)
           g == FirstOf(resume)
           r == map[resume].ref
           o == map[resume].ordinal
           s == map[b.pts].ordinal
           x == b.index
<1>1. Given /\ Cutting /\ Place /\ resume \in Packets
  BY Zenon DEF TInv, Place
<1>2. n \in Nat
  BY <1>1, ReadyIs, AuFields
<1>3. At(b) = AuFrames * (n - 1) /\ s + x = n - 1
  <2>1. Counted
    BY <1>1, Zenon DEF Counted
  <2>2. QED BY <2>1, BlockPlaced
<1>4. r >= 0
  BY Zenon DEF IsMapped
<1>5. ~(Unmapped.ref >= 0)
  BY SMT DEF Unmapped
<1>6. Begins(resume) /\ r = AuFrames * (g - 1)
  BY <1>1, <1>4, <1>5, Zenon DEF Frames0
<1>7. o = g - 1
  BY <1>1, <1>4, <1>5, Zenon DEF Numbers
<1>8. g \in Nat
  BY <1>1, <1>6, AuFields, Zenon DEF Begins
<1>9. b.ordinal = n - g /\ b.offset = (n - g) * AuFrames
  BY <1>1, BlockType
<1>10. x \in Nat
  BY <1>1, BlockType
<1>11. s \in Int
  <2>1. map \in [Packets -> Entry]
    BY Zenon DEF TInv, Kept
  <2>2. b.pts \in Packets
    BY <1>1, BlockType
  <2>3. map[b.pts] \in Entry
    BY <2>1, <2>2, Zenon
  <2>4. QED BY <2>3, Zenon DEF Entry
<1>12. n - g = s + x - o
  <2>1. s \in Int /\ x \in Nat /\ n \in Nat /\ g \in Nat /\ o = g - 1 /\ s + x = n - 1
    BY <1>2, <1>3, <1>7, <1>8, <1>10, <1>11
  <2> HIDE DEF s, x, o, g
  <2>2. QED BY <2>1, SMT
<1>13. b.ordinal = ExpectedOrdinal(b)
  BY <1>9, <1>12, Zenon DEF ExpectedOrdinal
<1>14. AuFrames * (g - 1) + (n - g) * AuFrames = AuFrames * (n - 1)
  <2> HIDE DEF g
  <2>1. QED BY <1>2, <1>8, SMT DEF AuFrames
<1>15. r + b.offset = At(b)
  BY <1>3, <1>6, <1>9, <1>14, Zenon
<1>16. QED BY <1>13, <1>15, Zenon DEF OnTimeline

-----------------------------------------------------------------------------
(* The judgement of pass B.                                                *)

\* Fed from the resume packet on, and looked at from its first block on.
Resumed ==
    /\ dec.first = FirstOf(resume) /\ dec.first <= dec.next
    /\ dec.fresh => ~dec.live /\ dec.frames = 0 /\ dec.next = dec.first
    /\ ~dec.fresh => dec.live /\ ~firstAfter /\ afterBlocks

Clean == ~failed /\ ~before /\ ~after /\ ~ordinalMismatch

Seeking ==
    phase \in {"push B", "pull B"} /\ Plain /\ Testable =>
        /\ Clean
        /\ ~resetDone => (dec.live => dec.frames < options.resetAt)
        /\ resetDone => Resumed

Acquitted == phase = "done" /\ Plain /\ Testable => ~failed

LEMMA SeekSteps ==
    ASSUME Next
    PROVE  \/ NoPassB \/ StartPassB \/ PushB \/ PulledDryB \/ FinishPassB
           \/ \E n \in AuIndices : PullB(n)
           \/ \E b \in AnyBlock : PullFaultyB(b)
           \/ phase' \notin InPassB
<1> DEFINE R == phase' \notin InPassB
<1>1. (\E length \in ChunkLengths : LoadChunk(length)) \/ (\E n \in 1..MaxAus : LoadPacket(n)) => R
  BY Zenon DEF LoadChunk, LoadPacket, InPassB
<1>2. StartPassA \/ PushA \/ PulledDryA \/ TakeUpdate \/ UpdatesTaken => R
  BY Zenon DEF StartPassA, PushA, PulledDryA, TakeUpdate, UpdatesTaken, InPassB
<1>3. FinishPassA \/ MatchBed \/ MatchEvent \/ FinishMatch => R
  <2>1. FinishPassA => R
    BY Zenon DEF FinishPassA, InPassB
  <2>2. MatchBed \/ MatchEvent \/ FinishMatch => R
    BY Zenon DEF MatchBed, MatchEvent, FinishMatch, InPassB
  <2>3. QED BY <2>1, <2>2
<1>4. ASSUME NEW n \in AuIndices, PullA(n) PROVE R
  BY <1>4, Zenon DEF PullA, InPassB
<1>5. ASSUME PushRefused \/ PullFails PROVE R
  <2>1. phase' = "stopped"
    BY <1>5, Refused, Zenon
  <2>2. QED BY <2>1, Zenon DEF InPassB
<1> HIDE DEF R
<1>6. \/ NoPassB \/ StartPassB \/ PushB \/ PulledDryB \/ FinishPassB
      \/ \E n \in AuIndices : PullB(n)
      \/ \E b \in AnyBlock : PullFaultyB(b)
      \/ R
  BY <1>1, <1>2, <1>3, <1>4, <1>5, Zenon DEF Next
<1>7. QED BY <1>6 DEF R

LEMMA TestableSame ==
    ASSUME stream' = stream, options' = options, input' = input, map' = map, resume' = resume
    PROVE  (Plain' <=> Plain) /\ (Testable' <=> Testable) /\ FirstOf(resume)' = FirstOf(resume)
<1>1. Plain' <=> Plain
  BY FirstsSame
<1>2. RefFrames' = RefFrames
  BY SMT DEF RefFrames, RefPosition, InReference, AuIndices, Frames
<1>3. FirstFrom(PacketStart(resume))' = FirstFrom(PacketStart(resume))
  BY Zenon DEF FirstFrom, PacketStart, AuIndices
<1>4. IsMapped([pts |-> resume])' <=> IsMapped([pts |-> resume])
  BY Zenon DEF IsMapped
<1>5. Testable' <=> Testable
  BY <1>2, <1>3, <1>4, Zenon DEF Testable, AuIndices
<1>6. QED BY <1>1, <1>3, <1>5, Zenon DEF FirstOf

LEMMA StartSeeking ==
    ASSUME TInv, Verdict, Untouched, StartPassB, stream' = stream
    PROVE  Seeking' /\ Acquitted'
<1>1. /\ phase = "seek" /\ phase' = "push B" /\ dec' = FedFrom(0)
      /\ UNCHANGED <<resetDone, before, after, ordinalMismatch, failed>>
  BY Zenon DEF StartPassB
<1>2. ~resetDone /\ ~before /\ ~after /\ ~ordinalMismatch
  BY <1>1, Zenon DEF Untouched, InPassB
<1>3. Plain' => ~failed
  <2>1. Plain' => OneLayout
    BY Zenon DEF Plain, OneLayout, AuIndices
  <2>2. QED BY <1>1, <2>1, Zenon DEF Verdict
<1>4. ~dec'.live
  BY <1>1 DEF FedFrom
<1>5. QED BY <1>1, <1>2, <1>3, <1>4, Zenon DEF Seeking, Acquitted, Clean

LEMMA SkipPassB ==
    ASSUME TInv, Verdict, NoPassB, stream' = stream
    PROVE  Seeking' /\ Acquitted'
<1>1. phase = "seek" /\ phase' = "done" /\ failed' = failed
  BY Zenon DEF NoPassB
<1>2. Plain' => OneLayout
  BY Zenon DEF Plain, OneLayout, AuIndices
<1>3. QED BY <1>1, <1>2, Zenon DEF Seeking, Acquitted, Verdict

LEMMA MoveSeeking ==
    ASSUME TInv, Seeking, PushB \/ PulledDryB, stream' = stream, options' = options
    PROVE  Seeking' /\ Acquitted'
<1>1. /\ phase \in {"push B", "pull B"} /\ phase' \in {"push B", "pull B"}
      /\ dec' = dec \/ dec' = [dec EXCEPT !.upTo = input[k + 1]]
      /\ UNCHANGED <<input, map, resume, resetDone, firstAfter, before, after,
                     ordinalMismatch, afterBlocks, failed>>
  BY Zenon DEF PushB, PulledDryB, fixedVars, passAVars, passBVars
<1>2. /\ dec'.first = dec.first /\ dec'.next = dec.next /\ dec'.live = dec.live
      /\ dec'.fresh = dec.fresh /\ dec'.frames = dec.frames
  <2>1. dec \in Decoder
    BY Zenon DEF TInv, Place
  <2>2. QED BY <1>1, <2>1 DEF Decoder
<1>3. /\ (Plain' <=> Plain) /\ (Testable' <=> Testable) /\ FirstOf(resume)' = FirstOf(resume)
  BY <1>1, TestableSame
<1>4. Resumed => Resumed'
  BY <1>1, <1>2, <1>3, Zenon DEF Resumed
<1>5. Clean => Clean'
  BY <1>1, Zenon DEF Clean
<1>6. phase' # "done"
  BY <1>1, Zenon
<1>7. QED BY <1>1, <1>2, <1>3, <1>4, <1>5, <1>6, Zenon DEF Seeking, Acquitted

\* One block judged, and perhaps the seek.
LEMMA PullSeeking ==
    ASSUME TLInv, Following, Seeking, NEW n \in AuIndices, PullB(n),
           stream' = stream, options' = options
    PROVE  Seeking' /\ Acquitted'
<1> DEFINE b == Block(n)
           seeks == IsMapped(b) /\ ResetDue(b)
<1>1. /\ phase = "pull B" /\ Pulled(n) /\ Judge(b)
      /\ seeks => Seek
      /\ ~seeks => dec' = After(n) /\ UNCHANGED <<k, phase, resetDone>>
      /\ UNCHANGED <<input, map, resume>>
  BY Zenon DEF PullB, fixedVars, passAVars
<1>2. TInv /\ Given /\ Cutting /\ Place /\ phase # "load" /\ phase \in Past
  BY <1>1, Zenon DEF TLInv, TInv, Past
<1>3. Numbers /\ (Plain => Frames0)
  <2>1. Numbers /\ Frames0
    BY <1>2, Zenon DEF TLInv, Learning
  <2>2. QED BY <2>1
<1>4. n \in Ready /\ n \in Nat
  BY <1>1, AuFields, <1>2, Zenon DEF Pulled
<1>5. (Plain' <=> Plain) /\ (Testable' <=> Testable) /\ FirstOf(resume)' = FirstOf(resume)
  BY <1>1, TestableSame
<1>6. phase' \in {"push B", "pull B"}
  BY <1>1, Zenon DEF Seek
<1>7. phase' # "done"
  BY <1>6, Zenon
<1> SUFFICES ASSUME Plain, Testable
             PROVE  /\ Clean'
                    /\ ~resetDone' => (dec'.live => dec'.frames < options.resetAt)
                    /\ resetDone' => Resumed'
  BY <1>5, <1>7, Zenon DEF Seeking, Acquitted
<1>8. /\ Clean
      /\ ~resetDone => (dec.live => dec.frames < options.resetAt)
      /\ resetDone => Resumed
  BY <1>1, Zenon DEF Seeking
<1>9. Frames0
  BY <1>3
<1>10. dec.next <= n /\ dec \in Decoder /\ dec.next \in Nat /\ dec.first \in Nat
       /\ dec.frames \in Nat /\ dec.fresh \in BOOLEAN
  <2>1. dec.next <= n /\ dec \in Decoder
    BY <1>2, <1>4, ReadyIs, Zenon DEF Place
  <2>2. QED BY <2>1 DEF Decoder
<1>11. Frames(n) \in Nat
  BY <1>2, FramesType
<1>12. /\ After(n).first = dec.first /\ After(n).next = n + 1 /\ After(n).live = TRUE
       /\ After(n).frames = dec.frames + Frames(n) /\ After(n).fresh = FALSE
  <2>1. /\ After(n).first = dec.first /\ After(n).next = n + 1 /\ After(n).live = TRUE
        /\ After(n).frames = dec.frames + Frames(n)
    BY <1>2, <1>4, AfterType
  <2>2. After(n).fresh = FALSE
    BY <1>10 DEF After, Decoder
  <2>3. QED BY <2>1, <2>2
<1>13. CASE ~resetDone
  <2>1. dec.first = 1 /\ Reached
    BY <1>13, Zenon DEF Following, Reached
  <2>2. dec.first <= n
    BY <1>4, <1>10, <2>1, AuFields, <1>2
  <2>3. Counted
    BY <2>1, Zenon DEF Counted
  <2>4. IsMapped(b) /\ ~CompareBlock(NothingCompared, b, At(b)).mismatch
    BY <1>2, <1>3, <1>4, <1>9, <2>2, <2>3, BlockPlaced
  <2>5. JudgeBefore(b)
    BY <1>1, <1>13, <2>4, Zenon DEF Judge, Lost, JudgeAfter
  <2>6. /\ before' = (before \/ CompareBlock(NothingCompared, b, At(b)).mismatch)
        /\ UNCHANGED <<firstAfter, after, ordinalMismatch, afterBlocks, failed>>
    BY <2>5, Zenon DEF JudgeBefore
  <2>7. Clean'
    BY <1>8, <2>4, <2>6, Zenon DEF Clean
  <2>8. CASE seeks
    <3>1. resetDone' = TRUE /\ dec' = FedFrom(PacketStart(resume))
      BY <1>1, <2>8, Zenon DEF Seek
    <3>2. /\ dec'.first = FirstOf(resume) /\ dec'.next = FirstOf(resume) /\ dec'.fresh = TRUE
          /\ dec'.live = FALSE /\ dec'.frames = 0
      BY <3>1 DEF FedFrom, FirstOf
    <3>3. FirstOf(resume) \in Nat
      <4>1. FirstOf(resume) \in 1..(Len(stream.aus) + 1)
        BY <1>2, PacketEnds, FirstFromSplits, Zenon DEF FirstOf, Place
      <4>2. QED BY <4>1, SMT
    <3>4. dec'.first <= dec'.next
      <4> DEFINE x == FirstOf(resume)
      <4>1. x <= x
        <5> HIDE DEF x
        <5>1. x \in Nat
          BY <3>3 DEF x
        <5>2. QED BY <5>1, SMT
      <4>2. QED BY <3>2, <4>1
    <3>5. Resumed'
      BY <1>5, <3>2, <3>4, Zenon DEF Resumed
    <3>6. QED BY <2>7, <3>1, <3>5
  <2>9. CASE ~seeks
    <3>1. dec' = After(n) /\ resetDone' = resetDone
      BY <1>1, <2>9
    <3>2. ~(b.position + b.frames >= options.resetAt)
      BY <1>13, <2>4, <2>9, Zenon DEF ResetDue
    <3>3. b.position = dec.frames /\ b.frames = Frames(n)
      BY <1>2, <1>4, BlockType
    <3>4. options.resetAt \in Int
      <4>1. options \in Option
        BY <1>2, HarnessConstants, Zenon DEF Given
      <4>2. QED BY <4>1 DEF Option
    <3>5. dec.frames + Frames(n) < options.resetAt
      <4> DEFINE x == dec.frames
                 y == Frames(n)
                 z == options.resetAt
      <4>1. ~(x + y >= z) /\ x \in Nat /\ y \in Nat /\ z \in Int
        BY <1>10, <1>11, <3>2, <3>3, <3>4
      <4> HIDE DEF x, y, z
      <4>2. x + y < z
        BY <4>1, SMT
      <4>3. QED BY <4>2 DEF x, y, z
    <3>6. QED BY <1>12, <1>13, <2>7, <3>1, <3>5
  <2>10. QED BY <2>8, <2>9
<1>14. CASE resetDone
  <2>1. Resumed
    BY <1>8, <1>14
  <2>2. dec.first = FirstOf(resume) /\ dec.first <= n
    <3>1. dec.first = FirstOf(resume) /\ dec.first <= dec.next
      BY <2>1, Zenon DEF Resumed
    <3>2. QED BY <1>4, <1>10, <3>1, SMT
  <2>3. Counted
    <3>1. resume \in Packets
      BY <1>2, Zenon DEF Place
    <3>2. QED BY <2>2, <3>1, Zenon DEF Counted
  <2>4. IsMapped(b) /\ ~CompareBlock(NothingCompared, b, At(b)).mismatch
    BY <1>2, <1>3, <1>4, <1>9, <2>2, <2>3, BlockPlaced
  <2>5. OnTimeline(b)
    <3>1. IsMapped([pts |-> resume])
      BY Zenon DEF Testable
    <3>2. QED BY <1>2, <1>3, <1>4, <1>9, <2>2, <3>1, BlockOnTimeline
  <2>6. JudgeAfter(b)
    BY <1>1, <1>14, <2>4, Zenon DEF Judge, Lost, JudgeBefore
  <2>7. /\ failed' = (failed \/ (firstAfter /\ ~FirstIsMarked(b)))
        /\ firstAfter' = FALSE
        /\ ordinalMismatch' = (ordinalMismatch \/ ~OnTimeline(b))
        /\ after' = (after \/ CompareBlock(NothingCompared, b, At(b)).mismatch)
        /\ afterBlocks' = TRUE /\ before' = before
    BY <2>6, Zenon DEF JudgeAfter
  <2>8. firstAfter => FirstIsMarked(b)
    <3>1. SUFFICES ASSUME firstAfter PROVE FirstIsMarked(b)
      OBVIOUS
    <3>2. dec.fresh = TRUE /\ dec.frames = 0
      BY <1>10, <2>1, <3>1, Zenon DEF Resumed
    <3>3. b.discontinuity = dec.fresh /\ b.position = dec.frames
      BY Zenon DEF Block
    <3>4. QED BY <3>2, <3>3, Zenon DEF FirstIsMarked
  <2>9. Clean'
    BY <1>8, <2>4, <2>5, <2>7, <2>8, Zenon DEF Clean
  <2>10. ~seeks
    BY <1>14, Zenon DEF ResetDue
  <2>11. dec' = After(n) /\ resetDone' = resetDone
    BY <1>1, <2>10
  <2>12. /\ dec'.first = dec.first /\ dec'.next = n + 1 /\ dec'.live = TRUE /\ dec'.fresh = FALSE
    BY <1>12, <2>11
  <2>13. dec'.first <= dec'.next
    <3> DEFINE f == dec.first
    <3>1. f <= n + 1
      <4>1. f <= n /\ f \in Nat
        BY <1>10, <2>2
      <4> HIDE DEF f
      <4>2. QED BY <1>4, <4>1, SMT
    <3>2. QED BY <2>12, <3>1
  <2>14. Resumed'
    BY <1>5, <2>2, <2>7, <2>12, <2>13, Zenon DEF Resumed
  <2>15. QED BY <1>14, <2>9, <2>11, <2>14
<1>15. QED BY <1>13, <1>14

\* By its end the reset has been made, and a block has followed it.
LEMMA FinishSeeking ==
    ASSUME TInv, Following, Sound, Seeking, FinishPassB, stream' = stream, options' = options
    PROVE  Seeking' /\ Acquitted'
<1>1. /\ phase = "push B" /\ k = Len(input) /\ failed' = (failed \/ ~PassBOk) /\ phase' = "done"
      /\ UNCHANGED <<input, map, resume>>
  BY Zenon DEF FinishPassB, fixedVars, passAVars, passBVars
<1>2. (Plain' <=> Plain) /\ (Testable' <=> Testable)
  BY <1>1, TestableSame
<1> SUFFICES ASSUME Plain, Testable PROVE ~failed'
  BY <1>1, <1>2, Zenon DEF Seeking, Acquitted
<1>3. /\ Clean
      /\ ~resetDone => (dec.live => dec.frames < options.resetAt)
      /\ resetDone => Resumed
  BY <1>1, Zenon DEF Seeking
<1>4. Given /\ Cutting /\ Place /\ phase # "load" /\ dec \in Decoder
  BY <1>1, Zenon DEF TInv, Place
<1>5. Ready = {}
  <2>1. ~AfterFaultyReset
    BY Zenon DEF Sound, AfterFaultyReset
  <2>2. QED BY <1>1, <2>1, Zenon DEF Following, Drained
<1>6. dec.upTo = Size
  BY <1>1, <1>4, FedWhole
<1>7. resetDone
  <2>1. SUFFICES ASSUME ~resetDone PROVE FALSE
    OBVIOUS
  <2>2. Reached
    BY <2>1, Zenon DEF Following
  <2>3. dec.frames = RefFrames /\ \A n \in AuIndices : InReference(n) => n < dec.next
    BY <1>4, <1>5, <1>6, <2>2, ReachedEnd
  <2>4. 1 \in AuIndices
    BY <1>4, AuCount, SMT DEF AuIndices
  <2>5. 1 < dec.next /\ InReference(1)
    BY <1>4, <2>3, <2>4, PlainReference
  <2>6. dec.live
    <3>1. dec.live \in BOOLEAN
      BY <1>4 DEF Decoder
    <3>2. dec.next # 1
      BY <2>5, SMT
    <3>3. QED BY <2>2, <3>1, <3>2, Zenon DEF Reached
  <2>7. dec.frames < options.resetAt /\ options.resetAt <= RefFrames
    BY <1>3, <2>1, <2>6, Zenon DEF Testable
  <2>8. options.resetAt \in Int /\ RefFrames \in Nat
    <3>1. options \in Option
      BY <1>4, HarnessConstants, Zenon DEF Given
    <3>2. options.resetAt \in Int
      BY <3>1 DEF Option
    <3>3. QED BY <1>4, <2>4, <2>5, <3>2, RefFramesBound
  <2> DEFINE x == RefFrames
             z == options.resetAt
  <2>9. x < z /\ z <= x /\ x \in Nat /\ z \in Int
    BY <2>3, <2>7, <2>8
  <2> HIDE DEF x, z
  <2>10. QED BY <2>9, SMT
<1>8. afterBlocks
  <2>1. SUFFICES ASSUME dec.fresh PROVE FALSE
    <3>1. dec.fresh \in BOOLEAN
      BY <1>4 DEF Decoder
    <3>2. QED BY <1>3, <1>7, <3>1, Zenon DEF Resumed
  <2>2. dec.next = FirstOf(resume)
    BY <1>3, <1>7, <2>1, Zenon DEF Resumed
  <2>3. PICK n \in AuIndices : n >= FirstOf(resume) /\ stream.aus[n].kind = "sync"
    BY Zenon DEF Testable, FirstOf
  <2>4. n \in Nat /\ n <= Len(stream.aus) /\ Len(stream.aus) \in Nat /\ dec.next \in Nat
    BY <1>4, AuFields, AuCount DEF Decoder
  <2>5. n \in dec.next..Len(stream.aus) /\ n \in dec.next..n
    <3> DEFINE x == FirstOf(resume)
               l == Len(stream.aus)
    <3>1. n >= x /\ n \in Nat /\ n <= l /\ l \in Nat /\ x \in Nat
      BY <2>2, <2>3, <2>4
    <3> HIDE DEF x, l
    <3>2. n \in x..l /\ n \in x..n
      BY <3>1, SMT
    <3>3. QED BY <2>2, <3>2 DEF x, l
  <2>6. stream.aus[n].end <= dec.upTo
    BY <1>4, <1>6, EndsInside
  <2>7. n \in Ready
    BY <2>3, <2>5, <2>6, Zenon DEF Ready
  <2>8. QED BY <1>5, <2>7
<1>9. QED BY <1>1, <1>3, <1>8, Zenon DEF PassBOk, Clean

LEMMA SeekingKept ==
    ASSUME TLInv, Following, Untouched, Sound, Verdict, Seeking, Acquitted, Next
    PROVE  Seeking' /\ Acquitted'
<1>1. TInv /\ stream' = stream /\ options' = options
  BY SourceKept, Zenon DEF TLInv
<1>2. CASE NoPassB
  BY <1>1, <1>2, SkipPassB
<1>3. CASE StartPassB
  BY <1>1, <1>3, StartSeeking
<1>4. CASE PushB \/ PulledDryB
  BY <1>1, <1>4, MoveSeeking
<1>5. CASE FinishPassB
  BY <1>1, <1>5, FinishSeeking
<1>6. CASE \E n \in AuIndices : PullB(n)
  BY <1>1, <1>6, PullSeeking
<1>7. CASE \E b \in AnyBlock : PullFaultyB(b)
  <2>1. AfterFaultyReset
    BY <1>7, Zenon DEF PullFaultyB
  <2>2. QED BY <2>1, Zenon DEF AfterFaultyReset, Sound
<1>8. CASE phase' \notin InPassB
  BY <1>8, Zenon DEF Seeking, Acquitted, InPassB
<1>9. QED BY <1>2, <1>3, <1>4, <1>5, <1>6, <1>7, <1>8, SeekSteps

SoundInv ==
    Sound => Queued /\ Faithful /\ Reported /\ Matching /\ Verdict /\ Seeking /\ Acquitted

Acquits == Following /\ Untouched /\ SoundInv

LEMMA AcquitsStart == Init => Acquits
<1> SUFFICES ASSUME Init PROVE Acquits
  OBVIOUS
<1>1. /\ phase = "load" /\ dec = FedFrom(0) /\ Given
      /\ ~resetDone /\ firstAfter /\ ~before /\ ~after /\ ~ordinalMismatch
  BY Zenon DEF Init, Given
<1>2. Following
  <2>1. Reached
    BY <1>1, ReachedStart
  <2>2. QED BY <1>1, <2>1, Zenon DEF Following, Drained
<1>3. Untouched
  BY <1>1, Zenon DEF Untouched
<1>4. Queued /\ Faithful /\ Reported
  BY EarlyStart, ReportedStart
<1>5. Matching /\ Verdict /\ Seeking /\ Acquitted
  BY <1>1, Zenon DEF Matching, Verdict, Seeking, Acquitted
<1>6. QED BY <1>2, <1>3, <1>4, <1>5 DEF Acquits, SoundInv

LEMMA AcquitsKept ==
    ASSUME ReferenceTells, TLInv, CInv, Acquits, Next
    PROVE  Acquits'
<1>1. TInv /\ Given /\ Following /\ Untouched
  BY Zenon DEF TLInv, TInv, Acquits
<1>2. Following' /\ Untouched'
  BY <1>1, FollowingKept, UntouchedKept
<1>3. ASSUME Sound'
      PROVE  (Queued /\ Faithful /\ Reported /\ Matching /\ Verdict /\ Seeking /\ Acquitted)'
  <2>1. Sound
    BY <1>3, SourceKept, Zenon DEF Sound
  <2>2. Queued /\ Faithful /\ Reported /\ Matching /\ Verdict /\ Seeking /\ Acquitted
    BY <2>1, Zenon DEF Acquits, SoundInv
  <2>3. options.refMetadata => Tells
    BY <1>1, <2>1, ReferenceTellsIs
  <2>4. options.refMetadata => InTime
    BY <2>3, Zenon DEF Tells
  <2>5. Queued' /\ Faithful'
    BY <1>1, <2>1, <2>2, QueuedKept, FaithfulKept
  <2>6. Reported'
    BY <1>1, <2>1, <2>2, <2>4, ReportedKept
  <2>7. Matching' /\ Verdict'
    BY <1>1, <2>1, <2>2, <2>3, VerdictKept
  <2>8. Seeking' /\ Acquitted'
    BY <1>1, <2>1, <2>2, SeekingKept
  <2>9. QED BY <2>5, <2>6, <2>7, <2>8
<1>4. QED BY <1>2, <1>3 DEF Acquits, SoundInv

LEMMA AcquitsStill ==
    ASSUME TLInv, Acquits, UNCHANGED vars
    PROVE  Acquits'
<1>1. UNCHANGED <<options, stream, input, phase, k, dec, map, cmp, serials, updates, target, ours,
                  stated, i, j, resume>>
  BY Zenon DEF vars, fixedVars, passAVars, metaVars, matchVars, passBVars
<1>2. UNCHANGED <<unmatched, resetDone, firstAfter, before, after, ordinalMismatch, afterBlocks,
                  failed>>
  BY Zenon DEF vars, matchVars, passBVars
<1>3. Following'
  <2>1. Ready' = Ready
    BY <1>1, ReadySame
  <2>2. Reached => Reached'
    BY <1>1, ReachedSame
  <2>3. QED BY <1>1, <1>2, <2>1, <2>2, Zenon DEF Acquits, Following, Drained, AfterFaultyReset
<1>4. Untouched'
  BY <1>1, <1>2, Zenon DEF Acquits, Untouched
<1>5. Sound' = Sound
  BY <1>1, Zenon DEF Sound
<1>6. Queued => Queued'
  <2>1. Present' = Present /\ Left' = Left
    BY <1>1, Zenon DEF Present, Left
  <2>2. \A x : QueuedAt(x)' <=> QueuedAt(x)
    BY <1>1, <2>1, Zenon DEF QueuedAt, Was, Due
  <2>3. RefPosition(dec.next - 1)' = RefPosition(dec.next - 1)
    BY <1>1, Zenon DEF RefPosition, InReference, AuIndices
  <2>4. Frames(dec.next - 1)' = Frames(dec.next - 1)
    BY <1>1, Zenon DEF Frames
  <2>5. QED BY <1>1, <2>1, <2>2, <2>3, <2>4, Zenon DEF Queued
<1>7. Faithful => Faithful'
  <2>1. Layouts' = Layouts
    BY <1>1, Zenon DEF Layouts, AuIndices
  <2>2. QED BY <1>1, <1>2, <2>1, Zenon DEF Faithful
<1>8. Reported => Reported'
  <2>1. Taken' = Taken
    BY <1>1, Zenon DEF Taken, Left, Present
  <2>2. QED BY <1>1, <2>1, Zenon DEF Reported
<1>9. Matching => Matching'
  <2>1. All' = All
    BY <1>1, Zenon DEF All
  <2>2. QED BY <1>1, <2>1, Zenon DEF Matching
<1>10. Verdict => Verdict'
  BY <1>1, <1>2, Zenon DEF Verdict, OneLayout, AuIndices
<1>11. (Seeking => Seeking') /\ (Acquitted => Acquitted')
  <2>1. (Plain' <=> Plain) /\ (Testable' <=> Testable) /\ FirstOf(resume)' = FirstOf(resume)
    BY <1>1, TestableSame
  <2>2. Resumed => Resumed'
    BY <1>1, <1>2, <2>1, Zenon DEF Resumed
  <2>3. Clean => Clean'
    BY <1>2, Zenon DEF Clean
  <2>4. QED BY <1>1, <1>2, <2>1, <2>2, <2>3, Zenon DEF Seeking, Acquitted
<1>12. SoundInv'
  BY <1>5, <1>6, <1>7, <1>8, <1>9, <1>10, <1>11, Zenon DEF Acquits, SoundInv
<1>13. QED BY <1>3, <1>4, <1>12 DEF Acquits

\* A decoder that keeps its promises is never failed: where the reference tells of
\* every change of position and of nothing else, pass A does not fail one on any
\* stream of one layout however it is cut (harness.c:412-606), and pass B not where
\* every access unit gives a block (harness.c:608-695).
THEOREM SoundDecoderPasses == ReferenceTells /\ Spec => []NoFalseAlarm
<1> SUFFICES ASSUME ReferenceTells PROVE Spec => []NoFalseAlarm
  OBVIOUS
<1> DEFINE Inv == TLInv /\ CInv /\ Acquits
<1>1. Init => Inv
  BY LearningStart, CInvStart, AcquitsStart
<1>2. Inv /\ [Next]_vars => Inv'
  <2> SUFFICES ASSUME Inv, [Next]_vars PROVE Inv'
    OBVIOUS
  <2>1. TLInv' /\ CInv'
    BY LearningStep, CInvKept
  <2>2. CASE Next
    BY <2>1, <2>2, AcquitsKept
  <2>3. CASE UNCHANGED vars
    BY <2>1, <2>3, AcquitsStill
  <2>4. QED BY <2>2, <2>3
<1>3. Inv => NoFalseAlarm
  <2> SUFFICES ASSUME Acquits, options.faulty = "no" PROVE
          /\ phase = "seek" /\ OneLayout => ~failed
          /\ phase = "done" /\ Plain /\ Testable => ~failed
    BY Zenon DEF NoFalseAlarm
  <2>1. Verdict /\ Acquitted
    BY Zenon DEF Acquits, SoundInv, Sound
  <2>2. QED BY <2>1, Zenon DEF Verdict, Acquitted
<1>4. QED BY <1>1, <1>2, <1>3, PTL DEF Spec
=============================================================================
