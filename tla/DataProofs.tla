------------------------------ MODULE DataProofs ------------------------------
(***************************************************************************)
(* Theorems about the way of the bytes through a gateway: Chunker,         *)
(* ObjectReads and Gateway.  A finished body is all of what was sent, in   *)
(* chunks whose bounds depend on its bytes alone; a read gives the chunks  *)
(* of one object, and its range byte by byte, for objects of any chunks;   *)
(* a request does what it asks, to the object it names.                    *)
(***************************************************************************)
EXTENDS MetadataStoreProofs, ObjectReads, Gateway, Chunker, WellFoundedInduction

\* Induction, as a statement about a set of numbers.
LEMMA SetInduction ==
  ASSUME NEW S, 0 \in S, \A n \in Nat : n \in S => n + 1 \in S
  PROVE  Nat \subseteq S
<1> DEFINE R == OpToRel(<, Nat)
           T == Nat \ S
<1>1. IsWellFoundedOn(R, Nat)
  BY NatLessThanWellFounded
<1>2. \A x, y \in Nat : x < y => <<x, y>> \in R
  BY DEF OpToRel
<1> SUFFICES ASSUME T # {} PROVE FALSE
  OBVIOUS
<1> HIDE DEF R
<1>3. T \subseteq Nat
  OBVIOUS
<1> HIDE DEF T
<1>4. PICK x \in T : \A y \in T : <<y, x>> \notin R
  BY <1>1, <1>3, WFMin
<1> USE DEF T
<1>5. x \in Nat /\ x # 0 /\ x \notin S
  OBVIOUS
<1>6. x - 1 \in Nat /\ x - 1 < x /\ (x - 1) + 1 = x
  BY <1>5
<1>7. x - 1 \in S
  BY <1>2, <1>4, <1>5, <1>6
<1> QED
  BY <1>5, <1>6, <1>7

\* A set of numbers that has a member has a least one.
LEMMA LeastOf ==
  ASSUME NEW S \in SUBSET Nat, S # {}
  PROVE  \E n \in S : \A k \in S : n <= k
<1> DEFINE R == OpToRel(<, Nat)
<1>1. IsWellFoundedOn(R, Nat)
  BY NatLessThanWellFounded
<1>2. \A x, y \in Nat : x < y => <<x, y>> \in R
  BY DEF OpToRel
<1> HIDE DEF R
<1>3. S \subseteq Nat
  OBVIOUS
<1>4. PICK x \in S : \A y \in S : <<y, x>> \notin R
  BY <1>1, <1>3, WFMin
<1>5. \A y \in S : x <= y
  <2> SUFFICES ASSUME NEW y \in S, ~(x <= y) PROVE FALSE
    OBVIOUS
  <2>1. x \in Nat /\ y \in Nat /\ y < x
    BY <1>3
  <2> QED
    BY <1>2, <1>4, <2>1
<1> QED
  BY <1>4, <1>5

-----------------------------------------------------------------------------
(* Ranges of recipes.                                                      *)

Offsets(off, sizes) ==
  /\ off \in [1 .. Len(sizes) -> Nat]
  /\ \A i \in 1 .. Len(sizes) : off[i] = IF i = 1 THEN 0 ELSE off[i - 1] + sizes[i - 1]

\* The offsets of the chunks of a recipe are the sums of the sizes before them.
LEMMA ContiguousChunks ==
  ASSUME NEW sizes \in Seq(Nat)
  PROVE  \E off : /\ Offsets(off, sizes)
                  /\ Contiguous(sizes) =
                       [i \in 1 .. Len(sizes) |-> [offset |-> off[i], size |-> sizes[i]]]
<1> DEFINE n == Len(sizes)
           F(g) == [i \in 1 .. n |-> IF i = 1 THEN 0 ELSE g[i - 1] + sizes[i - 1]]
           off == CHOOSE g : g = F(g)
           Upto(k, g) == /\ g \in [1 .. k -> Nat]
                         /\ \A i \in 1 .. k : g[i] = IF i = 1 THEN 0 ELSE g[i - 1] + sizes[i - 1]
           S == {k \in Nat : k <= n => \E g : Upto(k, g)}
<1>1. n \in Nat /\ \A i \in 1 .. n : sizes[i] \in Nat
  OBVIOUS
<1>2. 0 \in S
  <2>1. Upto(0, <<>>)
    OBVIOUS
  <2> QED
    BY <2>1
<1>3. ASSUME NEW k \in Nat, k \in S PROVE k + 1 \in S
  <2> SUFFICES ASSUME k + 1 <= n PROVE \E g : Upto(k + 1, g)
    OBVIOUS
  <2>1. PICK g : Upto(k, g)
    BY <1>1, <1>3
  <2> DEFINE h == [i \in 1 .. k + 1 |-> IF i = k + 1 THEN IF k = 0 THEN 0 ELSE g[k] + sizes[k] ELSE g[i]]
  <2>2. h \in [1 .. k + 1 -> Nat]
    BY <1>1, <2>1
  <2>3. \A i \in 1 .. k + 1 : h[i] = IF i = 1 THEN 0 ELSE h[i - 1] + sizes[i - 1]
    BY <1>1, <2>1
  <2> QED
    BY <2>2, <2>3
<1>4. n \in S
  <2> HIDE DEF S
  <2> QED
    BY <1>1, <1>2, <1>3, SetInduction
<1>5. PICK g : Upto(n, g)
  BY <1>4
<1>6. g = F(g)
  BY <1>5
<1>7. off = F(off)
  BY <1>6
<1>8. off \in [1 .. n -> Nat]
  <2> DEFINE N == {k \in Nat : k \in 1 .. n => off[k] \in Nat}
  <2> HIDE DEF off
  <2>1. \A i \in 1 .. n : off[i] = IF i = 1 THEN 0 ELSE off[i - 1] + sizes[i - 1]
    BY <1>7
  <2>2. 0 \in N
    OBVIOUS
  <2>3. ASSUME NEW k \in Nat, k \in N PROVE k + 1 \in N
    BY <1>1, <2>1, <2>3
  <2>4. Nat \subseteq N
    <3> HIDE DEF N
    <3> QED
      BY <2>2, <2>3, SetInduction
  <2>5. \A i \in 1 .. n : off[i] \in Nat
    BY <2>4
  <2> QED
    BY <1>7, <2>5
<1>9. Offsets(off, sizes)
  BY <1>7, <1>8 DEF Offsets
<1>10. Contiguous(sizes) = [i \in 1 .. n |-> [offset |-> off[i], size |-> sizes[i]]]
  BY DEF Contiguous
<1> HIDE DEF off, n
<1> QED
  BY <1>9, <1>10 DEF n

SizesOf(listed) == [i \in DOMAIN listed |-> SizeOf[listed[i]]]

\* A function on 1 .. n is a sequence.
LEMMA FunctionsAreSequences ==
  ASSUME NEW S, NEW n \in Nat, NEW f \in [1 .. n -> S]
  PROVE  f \in Seq(S) /\ Len(f) = n
OBVIOUS

\* The sizes of listed chunks.
LEMMA SizesAreNaturals ==
  ASSUME NEW listed \in Seq(Hashes)
  PROVE  SizesOf(listed) \in Seq(Nat) /\ Len(SizesOf(listed)) = Len(listed)
<1>1. Len(listed) \in Nat /\ DOMAIN listed = 1 .. Len(listed) /\ \A i \in 1 .. Len(listed) : listed[i] \in Hashes
  OBVIOUS
<1>2. SizesOf(listed) \in [1 .. Len(listed) -> Nat]
  BY <1>1, ReadsAssumption DEF SizesOf
<1>3. \A s, n : n \in Nat /\ s \in [1 .. n -> Nat] => s \in Seq(Nat) /\ Len(s) = n
  OBVIOUS
<1> QED
  BY <1>1, <1>2, <1>3

\* The size of an object, as its recipe has it, is a number.
LEMMA SizeIsNatural ==
  ASSUME NEW listed \in Seq(Hashes)
  PROVE  SizeOfChunks(listed) \in Nat
<1> DEFINE sizes == SizesOf(listed)
           n == Len(sizes)
<1>1. sizes \in Seq(Nat)
  BY SizesAreNaturals
<1>2. Recipe(listed) = Contiguous(sizes)
  BY DEF Recipe, SizesOf
<1> HIDE DEF sizes
<1>3. PICK off : /\ Offsets(off, sizes)
                 /\ Contiguous(sizes) = [i \in 1 .. n |-> [offset |-> off[i], size |-> sizes[i]]]
  BY <1>1, ContiguousChunks
<1>4. n \in Nat /\ (\A i \in 1 .. n : sizes[i] \in Nat) /\ (\A i \in 1 .. n : off[i] \in Nat)
  <2>1. n \in Nat /\ (\A i \in 1 .. n : sizes[i] \in Nat)
    BY <1>1
  <2>2. off \in [1 .. n -> Nat]
    BY <1>3 DEF Offsets
  <2> QED
    BY <2>1, <2>2
<1> DEFINE c == [i \in 1 .. n |-> [offset |-> off[i], size |-> sizes[i]]]
<1>5. /\ c \in Seq([offset : Nat, size : Nat]) /\ Len(c) = n
      /\ \A i \in 1 .. n : c[i] = [offset |-> off[i], size |-> sizes[i]]
  <2>1. c \in [1 .. n -> [offset : Nat, size : Nat]]
    BY <1>4
  <2> QED
    BY <1>4, <2>1, FunctionsAreSequences
<1>6. SizeOfChunks(listed) = Size(c)
  BY <1>2, <1>3 DEF SizeOfChunks
<1>7. CASE n = 0
  <2>1. c = <<>>
    BY <1>7, <1>5
  <2> QED
    BY <1>6, <2>1 DEF Size
<1>8. CASE n # 0
  <2>1. c # <<>> /\ c[Len(c)] = [offset |-> off[n], size |-> sizes[n]]
    BY <1>4, <1>5, <1>8
  <2>2. Size(c) = off[n] + sizes[n] - 1 + 1
    BY <2>1 DEF Size, LastByte
  <2> QED
    BY <1>4, <1>6, <1>8, <2>2
<1> QED
  BY <1>7, <1>8

Pieces(pieces, start, last) ==
  /\ pieces # <<>>
  /\ pieces[1][1] = start /\ pieces[Len(pieces)][2] = last
  /\ \A i \in DOMAIN pieces : pieces[i][1] <= pieces[i][2]
  /\ \A i \in 1 .. Len(pieces) - 1 : pieces[i + 1][1] = pieces[i][2] + 1

\* A piece of a body, and another one behind it.
LEMMA FirstPiece ==
  ASSUME NEW a \in Nat, NEW b \in Nat, a <= b
  PROVE  Append(<<>>, <<a, b>>) \in Seq(Nat \X Nat) /\ Pieces(Append(<<>>, <<a, b>>), a, b)
BY DEF Pieces

\* Pieces that end where the next one begins.
LEMMA NextPiece ==
  ASSUME NEW pieces \in Seq(Nat \X Nat), NEW start \in Nat, NEW a \in Nat, NEW b \in Nat, a <= b,
         Pieces(pieces, start, a - 1)
  PROVE  Append(pieces, <<a, b>>) \in Seq(Nat \X Nat) /\ Pieces(Append(pieces, <<a, b>>), start, b)
<1> DEFINE n == Len(pieces)
           piece == <<a, b>>
           more == Append(pieces, piece)
<1>1. n \in Nat /\ n # 0 /\ piece \in Nat \X Nat /\ piece[1] = a /\ piece[2] = b
  BY DEF Pieces
<1> HIDE DEF piece
<1>2. more \in Seq(Nat \X Nat) /\ Len(more) = n + 1 /\ more[n + 1] = piece
  BY <1>1
<1>3. \A i \in 1 .. n : more[i] = pieces[i]
  BY <1>1
<1> HIDE DEF more
<1>4. more # <<>> /\ more[1][1] = start /\ more[Len(more)][2] = b
  <2>1. 1 \in 1 .. n /\ pieces[1][1] = start
    BY <1>1 DEF Pieces
  <2>2. more[1] = pieces[1]
    BY <1>3, <2>1
  <2>3. more[Len(more)] = piece
    BY <1>2
  <2> QED
    BY <1>1, <1>2, <2>1, <2>2, <2>3
<1>5. \A i \in DOMAIN more : more[i][1] <= more[i][2]
  <2>0. DOMAIN more = 1 .. n + 1
    BY <1>2
  <2> SUFFICES ASSUME NEW i \in 1 .. n + 1 PROVE more[i][1] <= more[i][2]
    BY <2>0
  <2>1. CASE i = n + 1
    BY <1>1, <1>2, <2>1
  <2>2. CASE i # n + 1
    <3>1. i \in 1 .. n /\ i \in DOMAIN pieces
      BY <1>1, <2>2
    <3> QED
      BY <1>3, <3>1 DEF Pieces
  <2> QED
    BY <2>1, <2>2
<1>6. \A i \in 1 .. Len(more) - 1 : more[i + 1][1] = more[i][2] + 1
  <2> SUFFICES ASSUME NEW i \in 1 .. n PROVE more[i + 1][1] = more[i][2] + 1
    BY <1>1, <1>2
  <2>1. CASE i = n
    BY <1>1, <1>2, <1>3, <2>1 DEF Pieces
  <2>2. CASE i # n
    <3>1. i \in 1 .. n - 1 /\ i + 1 \in 1 .. n
      BY <1>1, <2>2
    <3> QED
      BY <1>3, <3>1 DEF Pieces
  <2> QED
    BY <2>1, <2>2
<1>7. Pieces(more, start, b)
  BY <1>4, <1>5, <1>6 DEF Pieces
<1> QED
  BY <1>2, <1>7 DEF more, piece

ByteRanges == {range \in [start : Nat, end : Nat] : range.start <= range.end}

CutTo(pieces, range, total) ==
  /\ pieces \in Seq(Nat \X Nat)
  /\ total <= range.start => pieces = <<>>
  /\ total > range.start =>
       Pieces(pieces, range.start, IF range.end < total - 1 THEN range.end ELSE total - 1)

\* One step of openChunks: the pieces so far are the range, as far as the
\* chunks so far reach.
LEMMA OneMoreChunk ==
  ASSUME NEW range \in ByteRanges, NEW total \in Nat, NEW size \in Nat, NEW chunk, NEW pieces,
         chunk = [offset |-> total, size |-> size], CutTo(pieces, range, total)
  PROVE  CutTo(IF Overlaps(chunk, range) THEN Append(pieces, Piece(chunk, range)) ELSE pieces,
               range, total + size)
<1> DEFINE start == range.start
           end == range.end
           more == IF Overlaps(chunk, range) THEN Append(pieces, Piece(chunk, range)) ELSE pieces
           a == IF start > total THEN start ELSE total
           b == IF end < total + size - 1 THEN end ELSE total + size - 1
<1>1. start \in Nat /\ end \in Nat /\ start <= end
  BY DEF ByteRanges
<1>2. Overlaps(chunk, range) <=> size > 0 /\ total + size - 1 >= start /\ total <= end
  BY DEF Overlaps, LastByte
<1>3. Piece(chunk, range) = <<a, b>>
  BY DEF Piece, LastByte
<1>4. CASE ~Overlaps(chunk, range)
  <2>1. more = pieces
    BY <1>4
  <2>2. \/ size = 0
        \/ total + size <= start
        \/ size > 0 /\ total > end /\ total > start
    BY <1>1, <1>2, <1>4
  <2>3. CASE size = 0
    BY <2>1, <2>3
  <2>4. CASE total + size <= start
    <3>1. total <= start /\ ~(total + size > start)
      BY <1>1, <2>4
    <3> QED
      BY <2>1, <3>1, <2>4 DEF CutTo
  <2>5. CASE size > 0 /\ total > end /\ total > start
    <3>1. /\ total + size > start /\ ~(total + size <= start)
          /\ (IF end < total - 1 THEN end ELSE total - 1)
               = (IF end < total + size - 1 THEN end ELSE total + size - 1)
      BY <1>1, <2>5
    <3> QED
      BY <2>1, <3>1, <2>5 DEF CutTo
  <2> QED
    BY <2>2, <2>3, <2>4, <2>5
<1>5. CASE Overlaps(chunk, range)
  <2>1. more = Append(pieces, <<a, b>>)
    BY <1>3, <1>5
  <2>2. size > 0 /\ total + size - 1 >= start /\ total <= end
    BY <1>2, <1>5
  <2>3. a \in Nat /\ b \in Nat /\ a <= b /\ total + size > start /\ ~(total + size <= start)
    BY <1>1, <2>2
  <2>4. CASE total > start
    <3>1. a = total /\ (IF end < total - 1 THEN end ELSE total - 1) = a - 1
      BY <1>1, <2>2, <2>4
    <3>2. pieces \in Seq(Nat \X Nat) /\ Pieces(pieces, start, a - 1)
      BY <2>4, <3>1 DEF CutTo
    <3> HIDE DEF a, b
    <3>3. more \in Seq(Nat \X Nat) /\ Pieces(more, start, b)
      BY <1>1, <2>1, <2>3, <3>2, NextPiece
    <3> QED
      BY <2>3, <3>3 DEF CutTo, b
  <2>5. CASE ~(total > start)
    <3>1. a = start /\ pieces = <<>>
      BY <1>1, <2>5 DEF CutTo
    <3> HIDE DEF a, b
    <3>2. more \in Seq(Nat \X Nat) /\ Pieces(more, start, b)
      BY <2>1, <2>3, <3>1, FirstPiece
    <3> QED
      BY <2>3, <3>2 DEF CutTo, b
  <2> QED
    BY <2>4, <2>5
<1> QED
  BY <1>4, <1>5

\* The body of a ranged GET is the range, byte by byte, wherever the chunks of
\* the object end.  (openChunks.)
LEMMA OpenChunksIsExact ==
  ASSUME NEW sizes \in Seq(Nat), NEW range \in ByteRanges, range.end < Size(Contiguous(sizes))
  PROVE  IsExactly(OpenChunks(Contiguous(sizes), range), range)
<1> DEFINE n == Len(sizes)
           c == Contiguous(sizes)
<1>1. n \in Nat /\ \A i \in 1 .. n : sizes[i] \in Nat
  OBVIOUS
<1>2. PICK off : Offsets(off, sizes) /\ c = [i \in 1 .. n |-> [offset |-> off[i], size |-> sizes[i]]]
  BY ContiguousChunks
<1> DEFINE End(i) == IF i = 0 THEN 0 ELSE off[i] + sizes[i]
<1>3. /\ DOMAIN c = 1 .. n /\ Len(c) = n
      /\ \A i \in 1 .. n : c[i] = [offset |-> off[i], size |-> sizes[i]]
  BY <1>1, <1>2
<1>4. \A i \in 0 .. n : End(i) \in Nat
  <2>1. \A i \in 1 .. n : off[i] \in Nat
    BY <1>2 DEF Offsets
  <2> QED
    BY <1>1, <2>1
<1>5. \A i \in 1 .. n : off[i] = End(i - 1) /\ End(i) = End(i - 1) + sizes[i]
  BY <1>1, <1>2 DEF Offsets
<1>6. c # <<>> /\ Size(c) = End(n)
  <2>1. CASE n = 0
    BY <1>3, <2>1 DEF Size, ByteRanges
  <2>2. CASE n # 0
    <3>1. c # <<>> /\ c[Len(c)] = [offset |-> off[n], size |-> sizes[n]]
      BY <1>1, <1>3, <2>2
    <3>2. Size(c) = off[n] + sizes[n] - 1 + 1
      BY <3>1 DEF Size, LastByte
    <3>3. End(n) \in Nat /\ End(n) = off[n] + sizes[n]
      BY <1>1, <1>4, <2>2
    <3>4. off[n] \in Nat /\ sizes[n] \in Nat
      <4>1. n \in 1 .. n
        BY <1>1, <2>2
      <4> QED
        BY <1>1, <1>2, <4>1 DEF Offsets
    <3>5. Size(c) = End(n)
      BY <3>2, <3>3, <3>4
    <3> QED
      BY <3>1, <3>5
  <2> QED
    BY <2>1, <2>2
<1> HIDE DEF c, End
<1> DEFINE Step(i, before) ==
             IF Overlaps(c[i], range) THEN Append(before, Piece(c[i], range)) ELSE before
           F(g) == [i \in 0 .. n |-> IF i = 0 THEN <<>> ELSE Step(i, g[i - 1])]
           upTo == CHOOSE g : g = F(g)
           Upto(k, g) == g = [i \in 0 .. k |-> IF i = 0 THEN <<>> ELSE Step(i, g[i - 1])]
           S == {k \in Nat : \E g : Upto(k, g)}
<1>7. 0 \in S
  <2> DEFINE g == [i \in 0 .. 0 |-> <<>>]
  <2>1. Upto(0, g)
    OBVIOUS
  <2> QED
    BY <2>1
<1>8. ASSUME NEW k \in Nat, k \in S PROVE k + 1 \in S
  <2>1. PICK g : Upto(k, g)
    BY <1>8
  <2> DEFINE h == [i \in 0 .. k + 1 |-> IF i = k + 1 THEN Step(k + 1, g[k]) ELSE g[i]]
  <2>2. \A i \in 0 .. k : g[i] = IF i = 0 THEN <<>> ELSE Step(i, g[i - 1])
    <3> HIDE DEF Step
    <3> QED
      BY <2>1
  <2> HIDE DEF Step
  <2>3. \A i \in 0 .. k : h[i] = g[i]
    OBVIOUS
  <2>4. \A i \in 0 .. k + 1 : h[i] = IF i = 0 THEN <<>> ELSE Step(i, h[i - 1])
    <3> SUFFICES ASSUME NEW i \in 0 .. k + 1 PROVE h[i] = IF i = 0 THEN <<>> ELSE Step(i, h[i - 1])
      OBVIOUS
    <3>1. CASE i = k + 1
      <4>1. h[i] = Step(i, g[k]) /\ i # 0 /\ i - 1 = k
        BY <3>1
      <4>2. h[k] = g[k]
        BY <2>3
      <4> QED
        BY <4>1, <4>2
    <3>2. CASE i # k + 1
      <4>1. i \in 0 .. k /\ (i # 0 => i - 1 \in 0 .. k)
        BY <3>2
      <4> QED
        BY <2>2, <2>3, <4>1
    <3> QED
      BY <3>1, <3>2
  <2>5. h = [i \in 0 .. k + 1 |-> IF i = 0 THEN <<>> ELSE Step(i, h[i - 1])]
    <3> HIDE DEF h
    <3>1. DOMAIN h = 0 .. k + 1 /\ h = [i \in DOMAIN h |-> h[i]]
      BY DEF h
    <3> QED
      BY <2>4, <3>1
  <2>6. Upto(k + 1, h)
    BY <2>5
  <2> HIDE DEF h, Upto
  <2> QED
    BY <2>6
<1>9. n \in S
  <2> HIDE DEF S
  <2> QED
    BY <1>1, <1>7, <1>8, SetInduction
<1>10. \E g : g = F(g)
  BY <1>9
<1> HIDE DEF Step
<1>11. upTo = F(upTo)
  BY <1>10
<1> HIDE DEF upTo
<1>12. upTo[0] = <<>> /\ \A i \in 1 .. n : upTo[i] = Step(i, upTo[i - 1])
  <2>1. upTo = [i \in 0 .. n |-> IF i = 0 THEN <<>> ELSE Step(i, upTo[i - 1])]
    BY <1>11
  <2>2. \A i \in 0 .. n : upTo[i] = IF i = 0 THEN <<>> ELSE Step(i, upTo[i - 1])
    BY <2>1, Zenon
  <2>3. 0 \in 0 .. n /\ \A i \in 1 .. n : i \in 0 .. n /\ i # 0
    BY <1>1
  <2> QED
    BY <2>2, <2>3
<1> DEFINE G == {k \in Nat : k <= n => CutTo(upTo[k], range, End(k))}
<1>13. 0 \in G
  <2>1. CutTo(<<>>, range, 0)
    BY DEF CutTo, ByteRanges
  <2> QED
    BY <1>12, <2>1 DEF End
<1>14. ASSUME NEW k \in Nat, k \in G PROVE k + 1 \in G
  <2> SUFFICES ASSUME k + 1 <= n PROVE CutTo(upTo[k + 1], range, End(k + 1))
    OBVIOUS
  <2> DEFINE i == k + 1
  <2>1. i \in 1 .. n /\ k \in 0 .. n /\ i - 1 = k
    BY <1>1
  <2>2. CutTo(upTo[k], range, End(k))
    BY <1>14, <2>1
  <2> HIDE DEF i
  <2>3. End(k) \in Nat /\ sizes[i] \in Nat /\ End(i) = End(k) + sizes[i]
        /\ c[i] = [offset |-> End(k), size |-> sizes[i]]
    BY <1>1, <1>3, <1>4, <1>5, <2>1
  <2>4. upTo[i] = Step(i, upTo[k])
    BY <1>12, <2>1
  <2>5. CutTo(Step(i, upTo[k]), range, End(k) + sizes[i])
    BY <2>2, <2>3, OneMoreChunk DEF Step
  <2> QED
    BY <2>3, <2>4, <2>5 DEF i
<1>15. CutTo(upTo[n], range, End(n))
  <2>1. Nat \subseteq G
    <3> HIDE DEF G
    <3> QED
      BY <1>13, <1>14, SetInduction
  <2> QED
    BY <1>1, <2>1
<1>16. End(n) > range.start /\ range.end <= End(n) - 1 /\ End(n) \in Nat
  <2>1. range.end < End(n) /\ End(n) \in Nat
    BY <1>1, <1>4, <1>6 DEF c
  <2> QED
    BY <2>1 DEF ByteRanges
<1>17. (IF range.end < End(n) - 1 THEN range.end ELSE End(n) - 1) = range.end
  BY <1>16 DEF ByteRanges
<1>18. Pieces(upTo[n], range.start, range.end)
  BY <1>15, <1>16, <1>17 DEF CutTo
<1>19. OpenChunks(c, range) = upTo[n]
  BY <1>3 DEF OpenChunks, upTo, Step
<1> QED
  BY <1>18, <1>19 DEF Pieces, IsExactly, c

(***************************************************************************)
(* Reads.  A request that is under way has read the row of an object, or   *)
(* is about to; what it knows of that object stays true of the history     *)
(* (content), and as long as nobody disturbed it, also of the tables.      *)
(***************************************************************************)
RequestRecords ==
  [op : {"none", "get", "range", "put"},
   pc : {"idle", "row", "chunks", "parse", "done", "missing", "refused"},
   key : Keys \cup {NoKey}, own : ObjectIds \cup {NoObject}, id : ObjectIds \cup {NoObject},
   size : Nat, chunks : Seq(Hashes), range : {Nothing, Refused} \cup ByteRanges,
   asked : SUBSET Int, disturbed : BOOLEAN]

Reading(q) == q.pc \in {"row", "chunks", "parse"}

(* The second read of a ranged GET still has the row of the first. *)
HasRow(q) == q.pc \in {"chunks", "parse", "done"} \/ (q.pc = "row" /\ q.range # Nothing)

(* What a request knows of the object it has read the row of ... *)
KnowsItsObject(q) ==
  /\ HasRow(q) => /\ q.id \in ObjectIds
                  /\ objectState[q.id] \in {"committed", "deleted"}
                  /\ q.size = SizeOfChunks(content[q.id])
  /\ q.pc \in {"parse", "done"} => q.chunks \in {<<>>, content[q.id]}

(* ... of the range it was asked for ... *)
KnowsItsRange(q) ==
  /\ q.op # "range" => q.range = Nothing
  /\ q.pc = "parse" => q.op = "range" /\ q.range = Nothing
  /\ q.op = "range" /\ q.pc = "done" => q.range # Nothing
  /\ q.range # Nothing /\ q.pc # "refused" =>
       q.range \in ByteRanges
  /\ q.pc = "refused" => q.asked = {}
  /\ q.range \notin {Nothing, Refused} => q.asked = q.range.start .. q.range.end /\ q.asked # {}

(* ... and of the key, unless it was disturbed. *)
KnowsItsKey(q) ==
  ~q.disturbed =>
    /\ Reading(q) /\ HasRow(q) => q.id \in Committed(q.key)
    /\ Reading(q) /\ q.op = "put" => q.own \in Committed(q.key)
    /\ q.op = "put" => q.pc # "missing"
    /\ q.op = "put" /\ HasRow(q) => q.id = q.own
    /\ q.pc = "done" => q.chunks = content[q.id]
    /\ HasRow(q) /\ q.range # Nothing => q.range.end < q.size

(* The history is what the tables say of committed objects. *)
HistoryOK ==
  /\ content \in [ObjectIds -> Seq(Hashes)]
  /\ \A id \in ObjectIds : objectState[id] = "committed" => objectChunks[id] = content[id]

RequestsOK ==
  /\ request \in [Requests -> RequestRecords]
  /\ \A r \in Requests : /\ KnowsItsObject(request[r])
                         /\ KnowsItsRange(request[r])
                         /\ KnowsItsKey(request[r])

ReadsInv == IInv /\ HistoryOK /\ RequestsOK

\* A header is refused if it asks for no byte of the object, and gives the
\* bytes it asks for otherwise.  (parseSingleRange.)
LEMMA ParsedRange ==
  ASSUME NEW header \in Headers, NEW size \in Nat
  PROVE  \/ ParseSingleRange(header, size) = Refused /\ AskedFor(header, size) = {}
         \/ \E range \in ByteRanges :
              /\ range.end < size
              /\ range \notin {Nothing, Refused}
              /\ ParseSingleRange(header, size) = range
              /\ AskedFor(header, size) = range.start .. range.end
              /\ AskedFor(header, size) # {}
<1> DEFINE first == header.first
           last == header.last
<1>1. \A a, b \in Nat : ByteRange(a, b) \in [start : Int, end : Int] /\ ByteRange(a, b) \notin {Nothing, Refused}
  BY RangesAssumption DEF ByteRange
<1>2. CASE header = Malformed \/ size <= 0
  <2>1. ParseSingleRange(header, size) = Refused
    BY <1>2 DEF ParseSingleRange
  <2>2. AskedFor(header, size) = {}
    BY <1>2 DEF AskedFor
  <2> QED
    BY <2>1, <2>2
<1>3. CASE header # Malformed /\ size > 0
  <2>1. first \in Int \cup {Nothing} /\ last \in Int \cup {Nothing}
    BY <1>3, ReadsAssumption
  <2>2. AskedFor(header, size) =
          {p \in 0 .. size - 1 :
             IF first # Nothing
             THEN p >= first /\ first >= 0 /\ (last = Nothing \/ p <= last)
             ELSE last # Nothing /\ p >= size - last}
    BY <1>3 DEF AskedFor
  <2>3. ParseSingleRange(header, size) =
          IF first # Nothing THEN ParseFrom(first, last, size)
          ELSE IF last # Nothing THEN ParseSuffix(last, size) ELSE Refused
    BY <1>3 DEF ParseSingleRange
  <2> HIDE DEF first, last
  <2>4. SUFFICES ASSUME NEW a \in Nat, NEW b \in Nat, a <= b, b < size,
                        ParseSingleRange(header, size) = ByteRange(a, b),
                        AskedFor(header, size) = a .. b
                 PROVE  \E range \in ByteRanges :
                          /\ range.end < size
                          /\ range \notin {Nothing, Refused}
                          /\ ParseSingleRange(header, size) = range
                          /\ AskedFor(header, size) = range.start .. range.end
                          /\ AskedFor(header, size) # {}
    <3>1. CASE first # Nothing
      <4>1. first \in Int
        BY <2>1, <3>1
      <4>2. CASE first < 0 \/ first >= size \/ (last # Nothing /\ last < first)
        <5>1. ParseSingleRange(header, size) = Refused
          BY <2>3, <3>1, <4>2 DEF ParseFrom
        <5>2. AskedFor(header, size) = {}
          BY <2>1, <2>2, <3>1, <4>1, <4>2
        <5> QED
          BY <5>1, <5>2
      <4>3. CASE ~(first < 0 \/ first >= size \/ (last # Nothing /\ last < first))
        <5> DEFINE b == IF last = Nothing \/ last >= size THEN size - 1 ELSE last
        <5>1. first \in Nat /\ b \in Nat /\ first <= b /\ b < size
          BY <2>1, <4>1, <4>3
        <5>2. ParseSingleRange(header, size) = ByteRange(first, b)
          BY <2>3, <3>1, <4>3 DEF ParseFrom
        <5>3. AskedFor(header, size) = first .. b
          BY <2>1, <2>2, <3>1, <4>1, <4>3
        <5> HIDE DEF b
        <5> QED
          BY <2>4, <5>1, <5>2, <5>3
      <4> QED
        BY <4>2, <4>3
    <3>2. CASE first = Nothing /\ (last = Nothing \/ last <= 0)
      <4>1. ParseSingleRange(header, size) = Refused
        BY <2>3, <3>2 DEF ParseSuffix
      <4>2. AskedFor(header, size) = {}
        BY <2>1, <2>2, <3>2
      <4> QED
        BY <4>1, <4>2
    <3>3. CASE first = Nothing /\ last # Nothing /\ ~(last <= 0)
      <4>1. last \in Nat /\ last > 0
        BY <2>1, <3>3
      <4> DEFINE a == IF size - last < 0 THEN 0 ELSE size - last
      <4>2. a \in Nat /\ size - 1 \in Nat /\ a <= size - 1 /\ size - 1 < size
        BY <1>3, <4>1
      <4>3. ParseSingleRange(header, size) = ByteRange(a, size - 1)
        BY <2>3, <3>3 DEF ParseSuffix
      <4>4. AskedFor(header, size) = a .. size - 1
        BY <2>2, <3>3, <4>1
      <4> HIDE DEF a
      <4> QED
        BY <2>4, <4>2, <4>3, <4>4
    <3> QED
      BY <3>1, <3>2, <3>3
  <2> DEFINE range == ByteRange(a, b)
  <2>5. range \in ByteRanges /\ range.start = a /\ range.end = b
    BY <2>4 DEF ByteRange, ByteRanges
  <2>6. a .. b # {}
    BY <2>4
  <2> QED
    BY <1>1, <2>4, <2>5, <2>6
<1> QED
  BY <1>2, <1>3

RequestOK(q) ==
  q \in RequestRecords /\ KnowsItsObject(q) /\ KnowsItsRange(q) /\ KnowsItsKey(q)

\* What a request knows stays true while the history of objects grows and, if it
\* is not disturbed, its key has the objects it had.
LEMMA RequestGoesOn ==
  ASSUME NEW q, NEW p, RequestOK(q), p = q \/ p = [q EXCEPT !.disturbed = TRUE],
         \A id \in ObjectIds : objectState[id] \in {"committed", "deleted"} =>
           objectState'[id] \in {"committed", "deleted"} /\ content'[id] = content[id],
         ~p.disturbed /\ Reading(q) => Committed(q.key)' = Committed(q.key)
  PROVE  RequestOK(p)'
<1>1. /\ p.op = q.op /\ p.pc = q.pc /\ p.key = q.key /\ p.own = q.own /\ p.id = q.id
      /\ p.size = q.size /\ p.chunks = q.chunks /\ p.range = q.range /\ p.asked = q.asked
      /\ ~p.disturbed => ~q.disturbed
  BY DEF RequestOK, RequestRecords
<1>2. p \in RequestRecords
  BY DEF RequestOK, RequestRecords
<1>3. (HasRow(p) <=> HasRow(q)) /\ (Reading(p) <=> Reading(q))
  BY <1>1 DEF HasRow, Reading
<1>4. KnowsItsRange(p)
  BY <1>1 DEF RequestOK, KnowsItsRange
<1>5. KnowsItsRange(p)'
  BY <1>4 DEF KnowsItsRange
<1>6. KnowsItsObject(p)'
  <2>1. HasRow(p) => /\ p.id \in ObjectIds
                     /\ objectState'[p.id] \in {"committed", "deleted"}
                     /\ p.size = SizeOfChunks(content'[p.id])
                     /\ content'[p.id] = content[p.id]
    BY <1>1, <1>3 DEF RequestOK, KnowsItsObject
  <2>2. p.pc \in {"parse", "done"} => p.chunks \in {<<>>, content'[p.id]}
    <3>1. p.pc \in {"parse", "done"} => HasRow(p)
      BY DEF HasRow
    <3> QED
      BY <1>1, <2>1, <3>1 DEF RequestOK, KnowsItsObject
  <2> QED
    BY <2>1, <2>2 DEF KnowsItsObject, HasRow, SizeOfChunks, Recipe
<1>7. KnowsItsKey(p)'
  <2> SUFFICES ASSUME ~p.disturbed PROVE KnowsItsKey(p)'
    BY DEF KnowsItsKey
  <2>1. Reading(p) => Committed(p.key)' = Committed(p.key)
    BY <1>1, <1>3
  <2>2. /\ Reading(p) /\ HasRow(p) => p.id \in Committed(p.key)'
        /\ Reading(p) /\ p.op = "put" => p.own \in Committed(p.key)'
        /\ p.op = "put" => p.pc # "missing"
        /\ p.op = "put" /\ HasRow(p) => p.id = p.own
        /\ HasRow(p) /\ p.range # Nothing => p.range.end < p.size
    BY <1>1, <1>3, <2>1 DEF RequestOK, KnowsItsKey
  <2>3. p.pc = "done" => p.chunks = content'[p.id]
    <3>1. p.pc = "done" => HasRow(p)
      BY DEF HasRow
    <3>2. p.pc = "done" => content'[p.id] = content[p.id]
      BY <1>1, <1>3, <3>1 DEF RequestOK, KnowsItsObject
    <3> QED
      BY <1>1, <3>2 DEF RequestOK, KnowsItsKey
  <2> QED
    BY <2>2, <2>3 DEF KnowsItsKey, HasRow, Reading
<1> QED
  BY <1>2, <1>5, <1>6, <1>7 DEF RequestOK, RequestRecords

\* One request moves on, and the tables stay.
LEMMA OneRequestMoves ==
  ASSUME ReadsInv, NEW r \in Requests, NEW p, RequestOK(p), request' = [request EXCEPT ![r] = p],
         UNCHANGED <<storeVars, content>>
  PROVE  ReadsInv'
<1>1. IInv'
  BY StepInv DEF ReadsInv
<1>2. HistoryOK'
  BY DEF ReadsInv, HistoryOK, storeVars, objectVars
<1>3. request' \in [Requests -> RequestRecords]
  BY DEF ReadsInv, RequestsOK, RequestOK
<1>4. ASSUME NEW s \in Requests
      PROVE  (KnowsItsObject(request[s]) /\ KnowsItsRange(request[s]) /\ KnowsItsKey(request[s]))'
  <2>1. request'[s] = IF s = r THEN p ELSE request[s]
    BY DEF ReadsInv, RequestsOK
  <2>2. KnowsItsObject(request'[s]) /\ KnowsItsRange(request'[s]) /\ KnowsItsKey(request'[s])
    BY <2>1 DEF ReadsInv, RequestsOK, RequestOK
  <2>3. UNCHANGED <<objectState, objectKey, content>>
    BY DEF storeVars, objectVars
  <2> QED
    BY <2>2, <2>3 DEF KnowsItsObject, KnowsItsRange, KnowsItsKey, HasRow, Reading, SizeOfChunks, Recipe, Committed
<1>5. RequestsOK'
  BY <1>3, <1>4 DEF RequestsOK, RequestRecords
<1> QED
  BY <1>1, <1>2, <1>5 DEF ReadsInv

\* A commit and a delete change one key, and no content that is history.
LEMMA CommitKeepsHistory ==
  ASSUME ReadsInv, NEW id \in ObjectIds, NEW listed \in Manifests, CommitObject(id, listed),
         content' = [content EXCEPT ![id] = listed]
  PROVE  /\ IInv' /\ HistoryOK'
         /\ \A o \in ObjectIds : objectState[o] \in {"committed", "deleted"} =>
              objectState'[o] \in {"committed", "deleted"} /\ content'[o] = content[o]
         /\ \A k : k # objectKey[id] => Committed(k)' = Committed(k)
         /\ id \in Committed(objectKey[id])'
<1>1. IInv'
  BY StepInv DEF ReadsInv, Next
<1>2. listed \in Seq(Hashes)
  BY ManifestsAssumption DEF ManifestsAssumption
<1>3. /\ objectState \in [ObjectIds -> ObjectStates] /\ objectChunks \in [ObjectIds -> Seq(Hashes)]
      /\ content \in [ObjectIds -> Seq(Hashes)] /\ objectKey' = objectKey /\ objectState[id] = "pending"
  BY DEF ReadsInv, IInv, TypeOK, HistoryOK, CommitObject
<1>4. /\ objectState'[id] = "committed" /\ objectChunks'[id] = listed /\ content'[id] = listed
      /\ \A o \in ObjectIds \ {id} :
           /\ content'[o] = content[o]
           /\ \/ objectState'[o] = objectState[o] /\ objectChunks'[o] = objectChunks[o]
              \/ o \in Committed(objectKey[id]) /\ objectState'[o] = "deleted"
  <2>1. CASE CommitFirst(id, listed)
    BY <1>2, <1>3, <2>1 DEF CommitFirst
  <2>2. ASSUME NEW previous \in Committed(objectKey[id]), CommitOver(id, previous, listed)
        PROVE  /\ objectState'[id] = "committed" /\ objectChunks'[id] = listed
               /\ \A o \in ObjectIds \ {id} :
                    \/ objectState'[o] = objectState[o] /\ objectChunks'[o] = objectChunks[o]
                    \/ o \in Committed(objectKey[id]) /\ objectState'[o] = "deleted"
    <3>1. previous \in ObjectIds /\ previous # id
      BY <1>3, <2>2 DEF Committed
    <3> QED
      BY <1>2, <1>3, <2>2, <3>1 DEF CommitOver
  <2>3. content'[id] = listed /\ \A o \in ObjectIds \ {id} : content'[o] = content[o]
    BY <1>3
  <2>4. /\ objectState'[id] = "committed" /\ objectChunks'[id] = listed
        /\ \A o \in ObjectIds \ {id} :
             \/ objectState'[o] = objectState[o] /\ objectChunks'[o] = objectChunks[o]
             \/ o \in Committed(objectKey[id]) /\ objectState'[o] = "deleted"
    BY <2>1, <2>2 DEF CommitObject
  <2> QED
    BY <2>3, <2>4
<1>5. HistoryOK'
  <2>1. content' \in [ObjectIds -> Seq(Hashes)]
    BY <1>2, <1>3
  <2>2. ASSUME NEW o \in ObjectIds, objectState'[o] = "committed" PROVE objectChunks'[o] = content'[o]
    BY <1>4, <2>2 DEF ReadsInv, HistoryOK
  <2> QED
    BY <2>1, <2>2 DEF HistoryOK
<1>6. ASSUME NEW k, k # objectKey[id] PROVE Committed(k)' = Committed(k)
  BY <1>3, <1>4, <1>6 DEF Committed
<1>7. \A o \in ObjectIds : objectState[o] \in {"committed", "deleted"} =>
        objectState'[o] \in {"committed", "deleted"} /\ content'[o] = content[o]
  BY <1>3, <1>4
<1>8. id \in Committed(objectKey[id])'
  BY <1>3, <1>4 DEF Committed
<1> QED
  BY <1>1, <1>5, <1>6, <1>7, <1>8

\* What a delete leaves of the committed contents.
LEMMA DeleteKeepsHistory ==
  ASSUME ReadsInv, NEW k \in Keys, DeleteObject(k), content' = content
  PROVE  /\ IInv' /\ HistoryOK'
         /\ \A o \in ObjectIds : objectState[o] \in {"committed", "deleted"} =>
              objectState'[o] \in {"committed", "deleted"} /\ content'[o] = content[o]
         /\ \A j : j # k => Committed(j)' = Committed(j)
<1>1. IInv'
  BY StepInv DEF ReadsInv, Next
<1>2. /\ objectState \in [ObjectIds -> ObjectStates] /\ objectChunks \in [ObjectIds -> Seq(Hashes)]
      /\ content \in [ObjectIds -> Seq(Hashes)] /\ objectKey' = objectKey
  BY DEF ReadsInv, IInv, TypeOK, HistoryOK, DeleteObject
<1>3. PICK id \in Committed(k) : objectState' = [objectState EXCEPT ![id] = "deleted"]
                                 /\ objectChunks' = [objectChunks EXCEPT ![id] = <<>>]
  BY DEF DeleteObject
<1>4. /\ id \in ObjectIds /\ objectKey[id] = k /\ objectState'[id] = "deleted"
      /\ \A o \in ObjectIds \ {id} : objectState'[o] = objectState[o] /\ objectChunks'[o] = objectChunks[o]
  BY <1>2, <1>3 DEF Committed
<1>5. HistoryOK'
  BY <1>2, <1>4 DEF ReadsInv, HistoryOK
<1>6. \A j : j # k => Committed(j)' = Committed(j)
  BY <1>2, <1>4 DEF Committed
<1>7. \A o \in ObjectIds : objectState[o] \in {"committed", "deleted"} =>
        objectState'[o] \in {"committed", "deleted"} /\ content'[o] = content[o]
  BY <1>4
<1> QED
  BY <1>1, <1>5, <1>6, <1>7

\* The requests on a key that changes are disturbed, and go on.
LEMMA DisturbedGoOn ==
  ASSUME ReadsInv, NEW k, NEW r \in Requests, NEW p, p = Disturbed(k)[r],
         \A o \in ObjectIds : objectState[o] \in {"committed", "deleted"} =>
           objectState'[o] \in {"committed", "deleted"} /\ content'[o] = content[o],
         \A j : j # k => Committed(j)' = Committed(j)
  PROVE  RequestOK(p)'
<1>1. PICK q : q = request[r]
  OBVIOUS
<1>2. RequestOK(q)
  BY <1>1 DEF ReadsInv, RequestsOK, RequestOK
<1>3. p = IF Reading(q) /\ q.key = k THEN [q EXCEPT !.disturbed = TRUE] ELSE q
  BY <1>1 DEF Disturbed, InProgress, Reading
<1>4. ~p.disturbed /\ Reading(q) => q.key # k
  BY <1>2, <1>3 DEF RequestOK, RequestRecords
<1>5. p = q \/ p = [q EXCEPT !.disturbed = TRUE]
  BY <1>3
<1>6. ~p.disturbed /\ Reading(q) => Committed(q.key)' = Committed(q.key)
  BY <1>4
<1> QED
  BY <1>2, <1>5, <1>6, RequestGoesOn

\* No operation of the store, and no step of a request, breaks the invariant.
LEMMA CreateKeeps == ASSUME ReadsInv, NEW id \in ObjectIds, NEW k \in Keys, Create(id, k) PROVE ReadsInv'
<1>1. CreatePendingObject(id, k) /\ request' = request /\ content' = content
  BY DEF Create
<1>2. IInv'
  BY <1>1, StepInv DEF ReadsInv, Next
<1>3. /\ objectState \in [ObjectIds -> ObjectStates] /\ objectState[id] = "absent"
      /\ objectState' = [objectState EXCEPT ![id] = "pending"]
      /\ objectKey' = [objectKey EXCEPT ![id] = k] /\ objectChunks' = objectChunks
      /\ objectKey \in [ObjectIds -> Keys \cup {NoKey}]
  BY <1>1 DEF ReadsInv, IInv, TypeOK, CreatePendingObject, blockVars
<1>4. HistoryOK'
  BY <1>1, <1>3 DEF ReadsInv, HistoryOK
<1>5. \A o \in ObjectIds : objectState[o] \in {"committed", "deleted"} =>
        objectState'[o] \in {"committed", "deleted"} /\ content'[o] = content[o]
  BY <1>1, <1>3
<1>6. \A j : Committed(j)' = Committed(j)
  BY <1>3 DEF Committed
<1>7. ASSUME NEW r \in Requests, NEW q, q = request[r] PROVE RequestOK(q)'
  <2>1. RequestOK(q)
    BY <1>7 DEF ReadsInv, RequestsOK, RequestOK
  <2> QED
    BY <1>5, <1>6, <2>1, RequestGoesOn
<1>8. RequestsOK'
  BY <1>1, <1>7 DEF ReadsInv, RequestsOK, RequestOK, RequestRecords
<1> QED
  BY <1>2, <1>4, <1>8 DEF ReadsInv

\* A commit by another client.
LEMMA CommitKeeps ==
  ASSUME ReadsInv, NEW id \in ObjectIds, NEW listed \in Manifests, Commit(id, listed)
  PROVE  ReadsInv'
<1>1. /\ CommitObject(id, listed) /\ content' = [content EXCEPT ![id] = listed]
      /\ request' = Disturbed(objectKey[id])
  BY DEF Commit
<1>2. PICK k : k = objectKey[id]
  OBVIOUS
<1>3. /\ IInv' /\ HistoryOK'
      /\ \A o \in ObjectIds : objectState[o] \in {"committed", "deleted"} =>
           objectState'[o] \in {"committed", "deleted"} /\ content'[o] = content[o]
      /\ \A j : j # k => Committed(j)' = Committed(j)
  BY <1>1, <1>2, CommitKeepsHistory
<1>4. ASSUME NEW r \in Requests, NEW p, p = Disturbed(k)[r] PROVE RequestOK(p)'
  BY <1>3, <1>4, DisturbedGoOn
<1>5. DOMAIN request' = Requests /\ request' = [r \in Requests |-> request'[r]]
  BY <1>1 DEF Disturbed
<1>6. RequestsOK'
  BY <1>1, <1>2, <1>4, <1>5 DEF RequestsOK, RequestOK, RequestRecords
<1> QED
  BY <1>3, <1>6 DEF ReadsInv

\* A delete by another client.
LEMMA DeleteKeeps == ASSUME ReadsInv, NEW k \in Keys, Delete(k) PROVE ReadsInv'
<1>1. DeleteObject(k) /\ content' = content /\ request' = Disturbed(k)
  BY DEF Delete
<1>3. /\ IInv' /\ HistoryOK'
      /\ \A o \in ObjectIds : objectState[o] \in {"committed", "deleted"} =>
           objectState'[o] \in {"committed", "deleted"} /\ content'[o] = content[o]
      /\ \A j : j # k => Committed(j)' = Committed(j)
  BY <1>1, DeleteKeepsHistory
<1>4. ASSUME NEW r \in Requests, NEW p, p = Disturbed(k)[r] PROVE RequestOK(p)'
  BY <1>3, <1>4, DisturbedGoOn
<1>5. DOMAIN request' = Requests /\ request' = [r \in Requests |-> request'[r]]
  BY <1>1 DEF Disturbed
<1>6. RequestsOK'
  BY <1>1, <1>4, <1>5 DEF RequestsOK, RequestOK, RequestRecords
<1> QED
  BY <1>3, <1>6 DEF ReadsInv

\* The two answers of parsing that are no ranges.
LEMMA NothingIsNoRange == Nothing \notin ByteRanges /\ Refused \notin ByteRanges
BY RangesAssumption DEF ByteRanges

\* A request that has not begun.
LEMMA NoRequestIsARecord ==
  /\ NoRequest \in RequestRecords /\ NoRequest.pc = "idle" /\ NoRequest.op = "none"
  /\ NoRequest.range = Nothing /\ NoRequest.disturbed = FALSE
BY DEF NoRequest, RequestRecords

\* A request that begins knows nothing yet.
LEMMA FreshRequest ==
  ASSUME NEW op \in {"get", "range"}, NEW k \in Keys, NEW p,
         p = [NoRequest EXCEPT !.op = op, !.pc = "row", !.key = k]
  PROVE  RequestOK(p)
<1>1. /\ p.op = op /\ p.pc = "row" /\ p.key = k /\ p.range = Nothing /\ p.disturbed = FALSE
      /\ p \in RequestRecords
  <2>1. PICK q : q = NoRequest
    OBVIOUS
  <2>2. q \in RequestRecords /\ q.range = Nothing /\ q.disturbed = FALSE
    BY <2>1, NoRequestIsARecord
  <2> QED
    BY <2>1, <2>2 DEF RequestRecords
<1>2. KnowsItsRange(p)
  BY <1>1 DEF KnowsItsRange
<1>3. KnowsItsObject(p) /\ KnowsItsKey(p)
  BY <1>1 DEF KnowsItsObject, KnowsItsKey, HasRow, Reading
<1> QED
  BY <1>1, <1>2, <1>3 DEF RequestOK

\* A read of a whole object begins.
LEMMA BeginGetKeeps == ASSUME ReadsInv, NEW r \in Requests, NEW k \in Keys, BeginGet(r, k) PROVE ReadsInv'
<1>1. PICK p : p = [NoRequest EXCEPT !.op = "get", !.pc = "row", !.key = k]
  OBVIOUS
<1> QED
  BY <1>1, FreshRequest, OneRequestMoves DEF BeginGet

\* A read of a range begins.
LEMMA BeginRangeKeeps == ASSUME ReadsInv, NEW r \in Requests, NEW k \in Keys, BeginRange(r, k) PROVE ReadsInv'
<1>1. PICK p : p = [NoRequest EXCEPT !.op = "range", !.pc = "row", !.key = k]
  OBVIOUS
<1> QED
  BY <1>1, FreshRequest, OneRequestMoves DEF BeginRange

\* A put commits, and reads back what it has committed.
LEMMA PutCommitsKeeps ==
  ASSUME ReadsInv, NEW r \in Requests, NEW id \in ObjectIds, NEW listed \in Manifests,
         PutCommits(r, id, listed)
  PROVE  ReadsInv'
<1>1. PICK k, p : k = objectKey[id]
                  /\ p = [NoRequest EXCEPT !.op = "put", !.pc = "row", !.key = k, !.own = id]
  OBVIOUS
<1>2. /\ CommitObject(id, listed) /\ content' = [content EXCEPT ![id] = listed]
      /\ request' = [Disturbed(k) EXCEPT ![r] = p]
  BY <1>1 DEF PutCommits
<1>3. /\ IInv' /\ HistoryOK'
      /\ \A o \in ObjectIds : objectState[o] \in {"committed", "deleted"} =>
           objectState'[o] \in {"committed", "deleted"} /\ content'[o] = content[o]
      /\ \A j : j # k => Committed(j)' = Committed(j)
      /\ id \in Committed(objectKey[id])'
  BY <1>1, <1>2, CommitKeepsHistory
<1>4. objectKey' = objectKey /\ k \in Keys \cup {NoKey}
  BY <1>1, <1>2 DEF CommitObject, ReadsInv, IInv, TypeOK
<1>5. /\ p.op = "put" /\ p.pc = "row" /\ p.key = k /\ p.own = id /\ p.range = Nothing
      /\ p.disturbed = FALSE /\ p \in RequestRecords
  <2>1. PICK q : q = NoRequest
    OBVIOUS
  <2>2. q \in RequestRecords /\ q.range = Nothing /\ q.disturbed = FALSE
    BY <2>1, NoRequestIsARecord
  <2> QED
    BY <1>1, <1>4, <2>1, <2>2 DEF RequestRecords
<1>6. id \in Committed(p.key)'
  BY <1>1, <1>3, <1>4, <1>5
<1>7. RequestOK(p)'
  <2>1. KnowsItsRange(p)
    BY <1>5 DEF KnowsItsRange
  <2>2. KnowsItsObject(p)'
    BY <1>5 DEF KnowsItsObject, HasRow
  <2>3. KnowsItsKey(p)'
    BY <1>5, <1>6 DEF KnowsItsKey, HasRow, Reading
  <2>4. KnowsItsRange(p)' /\ (p \in RequestRecords)'
    BY <1>5, <2>1 DEF KnowsItsRange, RequestRecords
  <2> QED
    BY <2>2, <2>3, <2>4 DEF RequestOK
<1>8. ASSUME NEW s \in Requests, NEW q, q = request'[s] PROVE RequestOK(q)'
  <2>1. DOMAIN Disturbed(k) = Requests
    BY DEF Disturbed
  <2>2. CASE s = r
    BY <1>2, <1>7, <1>8, <2>1, <2>2
  <2>3. CASE s # r
    <3>1. q = Disturbed(k)[s]
      BY <1>2, <1>8, <2>1, <2>3
    <3> QED
      BY <1>3, <3>1, DisturbedGoOn
  <2> QED
    BY <2>2, <2>3
<1>9. DOMAIN request' = Requests /\ request' = [s \in Requests |-> request'[s]]
  BY <1>2 DEF Disturbed
<1>10. RequestsOK'
  BY <1>8, <1>9 DEF RequestsOK, RequestOK, RequestRecords
<1> QED
  BY <1>3, <1>10 DEF ReadsInv

\* The row is not found.
LEMMA RowMissingKeeps == ASSUME ReadsInv, NEW r \in Requests, RowMissing(r) PROVE ReadsInv'
<1>1. PICK q, p : q = request[r] /\ p = [q EXCEPT !.pc = "missing"]
  OBVIOUS
<1>2. RequestOK(q) /\ q.pc = "row" /\ Committed(q.key) = {}
  BY <1>1 DEF ReadsInv, RequestsOK, RequestOK, RowMissing
<1>3. /\ p \in RequestRecords /\ p.pc = "missing" /\ p.op = q.op /\ p.range = q.range
      /\ p.asked = q.asked /\ p.disturbed = q.disturbed
  BY <1>1, <1>2 DEF RequestOK, RequestRecords
<1>4. KnowsItsObject(p)
  BY <1>3 DEF KnowsItsObject, HasRow
<1>5. KnowsItsRange(p)
  BY <1>2, <1>3 DEF RequestOK, KnowsItsRange
<1>6. KnowsItsKey(p)
  BY <1>2, <1>3 DEF RequestOK, KnowsItsKey, HasRow, Reading
<1>7. request' = [request EXCEPT ![r] = p] /\ UNCHANGED <<storeVars, content>>
  BY <1>1 DEF RowMissing
<1> QED
  BY <1>3, <1>4, <1>5, <1>6, <1>7, OneRequestMoves DEF RequestOK

\* The row is read.
LEMMA ReadRowKeeps == ASSUME ReadsInv, NEW r \in Requests, ReadRow(r) PROVE ReadsInv'
<1>1. PICK q : q = request[r]
  OBVIOUS
<1>2. PICK id \in Committed(q.key) :
        request' = [request EXCEPT ![r].pc = "chunks", ![r].id = id,
                                   ![r].size = SizeOfChunks(objectChunks[id])]
  BY <1>1 DEF ReadRow
<1>3. PICK size : size = SizeOfChunks(objectChunks[id])
  OBVIOUS
<1>4. PICK p : p = [q EXCEPT !.pc = "chunks", !.id = id, !.size = size]
  OBVIOUS
<1>5. RequestOK(q) /\ q.pc = "row" /\ UNCHANGED <<storeVars, content>>
  BY <1>1 DEF ReadsInv, RequestsOK, RequestOK, ReadRow
<1>6. /\ id \in ObjectIds /\ objectState[id] = "committed"
      /\ objectChunks[id] \in Seq(Hashes) /\ objectChunks[id] = content[id]
  BY <1>2 DEF Committed, ReadsInv, IInv, TypeOK, HistoryOK
<1>7. size \in Nat /\ size = SizeOfChunks(content[id])
  BY <1>3, <1>6, SizeIsNatural
<1>8. /\ p \in RequestRecords /\ p.pc = "chunks" /\ p.id = id /\ p.size = size /\ p.op = q.op
      /\ p.range = q.range /\ p.asked = q.asked /\ p.disturbed = q.disturbed /\ p.key = q.key /\ p.own = q.own
  BY <1>4, <1>5, <1>6, <1>7 DEF RequestOK, RequestRecords
<1>9. KnowsItsObject(p)
  BY <1>6, <1>7, <1>8 DEF KnowsItsObject, HasRow
<1>10. KnowsItsRange(p)
  BY <1>5, <1>8 DEF RequestOK, KnowsItsRange
<1>11. KnowsItsKey(p)
  <2> SUFFICES ASSUME ~q.disturbed PROVE KnowsItsKey(p)
    BY <1>8 DEF KnowsItsKey
  <2>1. \A o \in Committed(q.key) : o = id
    <3>1. q.key \in Keys \cup {NoKey}
      BY <1>5 DEF RequestOK, RequestRecords
    <3> QED
      BY <1>2, <3>1 DEF ReadsInv, IInv, OneCommittedPerKey, RowsWellFormed, Committed
  <2>2. q.op = "put" => q.own = id
    BY <1>5, <2>1 DEF RequestOK, KnowsItsKey, Reading
  <2>3. q.range # Nothing => q.range.end < size
    <3> SUFFICES ASSUME q.range # Nothing PROVE q.range.end < size
      OBVIOUS
    <3>1. q.id = id
      BY <1>5, <2>1 DEF RequestOK, KnowsItsKey, HasRow, Reading
    <3>2. q.size = size /\ q.range.end < q.size
      BY <1>5, <1>7, <3>1 DEF RequestOK, KnowsItsKey, KnowsItsObject, HasRow
    <3> QED
      BY <3>2
  <2>4. q.op = "put" => q.own \in Committed(q.key)
    BY <1>5 DEF RequestOK, KnowsItsKey, Reading
  <2> QED
    BY <1>2, <1>8, <2>2, <2>3, <2>4 DEF KnowsItsKey, HasRow, Reading
<1>12. request' = [request EXCEPT ![r] = p]
  BY <1>1, <1>2, <1>3, <1>4 DEF ReadsInv, RequestsOK
<1> QED
  BY <1>5, <1>8, <1>9, <1>10, <1>11, <1>12, OneRequestMoves DEF RequestOK

\* The chunk rows are read.
LEMMA ReadChunksKeeps == ASSUME ReadsInv, NEW r \in Requests, ReadChunks(r) PROVE ReadsInv'
<1>1. PICK q, pc, listed : q = request[r] /\ pc = AfterChunks(r) /\ listed = objectChunks[q.id]
  OBVIOUS
<1>2. PICK p : p = [q EXCEPT !.pc = pc, !.chunks = listed]
  OBVIOUS
<1>3. RequestOK(q) /\ q.pc = "chunks" /\ UNCHANGED <<storeVars, content>>
  BY <1>1 DEF ReadsInv, RequestsOK, RequestOK, ReadChunks
<1>4. pc = IF q.op = "range" /\ q.range = Nothing THEN "parse" ELSE "done"
  BY <1>1 DEF AfterChunks
<1>5. q.id \in ObjectIds /\ objectState[q.id] \in {"committed", "deleted"}
      /\ q.size = SizeOfChunks(content[q.id])
  BY <1>3 DEF RequestOK, KnowsItsObject, HasRow
<1>6. /\ listed \in Seq(Hashes) /\ listed \in {<<>>, content[q.id]}
      /\ objectState[q.id] = "committed" => listed = content[q.id]
  BY <1>1, <1>5 DEF ReadsInv, IInv, TypeOK, HistoryOK, OnlyCommittedHaveChunks
<1>7. /\ p \in RequestRecords /\ p.pc = pc /\ p.id = q.id /\ p.size = q.size /\ p.op = q.op
      /\ p.range = q.range /\ p.asked = q.asked /\ p.disturbed = q.disturbed /\ p.key = q.key
      /\ p.own = q.own /\ p.chunks = listed
  BY <1>2, <1>3, <1>4, <1>6 DEF RequestOK, RequestRecords
<1>8. KnowsItsObject(p)
  BY <1>5, <1>6, <1>7 DEF KnowsItsObject
<1>9. KnowsItsRange(p)
  BY <1>3, <1>4, <1>7 DEF RequestOK, KnowsItsRange
<1>10. KnowsItsKey(p)
  <2> SUFFICES ASSUME ~q.disturbed PROVE KnowsItsKey(p)
    BY <1>7 DEF KnowsItsKey
  <2>1. /\ q.id \in Committed(q.key) /\ (q.op = "put" => q.own \in Committed(q.key) /\ q.id = q.own)
        /\ (q.range # Nothing => q.range.end < q.size)
    BY <1>3 DEF RequestOK, KnowsItsKey, HasRow, Reading
  <2>2. listed = content[q.id]
    BY <1>6, <2>1 DEF Committed
  <2> QED
    BY <1>4, <1>7, <2>1, <2>2 DEF KnowsItsKey
<1>11. request' = [request EXCEPT ![r] = p]
  BY <1>1, <1>2 DEF ReadChunks, ReadsInv, RequestsOK
<1> QED
  BY <1>3, <1>7, <1>8, <1>9, <1>10, <1>11, OneRequestMoves DEF RequestOK

\* The Range header is parsed with the size of the row.
LEMMA ParseRangeKeeps ==
  ASSUME ReadsInv, NEW r \in Requests, NEW header \in Headers, ParseRange(r, header)
  PROVE  ReadsInv'
<1>1. PICK q : q = request[r]
  OBVIOUS
<1>2. PICK range, asked : range = ParseSingleRange(header, q.size) /\ asked = AskedFor(header, q.size)
  OBVIOUS
<1>3. PICK p : p = [q EXCEPT !.range = range, !.asked = asked,
                             !.pc = IF range = Refused THEN "refused" ELSE "row"]
  OBVIOUS
<1>4. RequestOK(q) /\ q.pc = "parse" /\ UNCHANGED <<storeVars, content>>
  BY <1>1 DEF ReadsInv, RequestsOK, RequestOK, ParseRange
<1>5. q.size \in Nat /\ q.op = "range"
  BY <1>4 DEF RequestOK, RequestRecords, KnowsItsRange
<1>6. \/ range = Refused /\ asked = {}
      \/ /\ range \in ByteRanges /\ range.end < q.size /\ range \notin {Nothing, Refused}
         /\ asked = range.start .. range.end /\ asked # {}
  BY <1>2, <1>5, ParsedRange
<1>7. asked \in SUBSET Int
  BY <1>6 DEF ByteRanges
<1>8. /\ p \in RequestRecords /\ p.pc = (IF range = Refused THEN "refused" ELSE "row")
      /\ p.id = q.id /\ p.size = q.size /\ p.op = q.op /\ p.range = range /\ p.asked = asked
      /\ p.disturbed = q.disturbed /\ p.key = q.key /\ p.own = q.own /\ p.chunks = q.chunks
  BY <1>3, <1>4, <1>6, <1>7 DEF RequestOK, RequestRecords
<1>9. KnowsItsObject(p)
  BY <1>4, <1>8 DEF RequestOK, KnowsItsObject, HasRow
<1>10. KnowsItsRange(p)
  BY <1>5, <1>6, <1>8 DEF KnowsItsRange
<1>11. KnowsItsKey(p)
  <2> SUFFICES ASSUME ~q.disturbed PROVE KnowsItsKey(p)
    BY <1>8 DEF KnowsItsKey
  <2>1. q.id \in Committed(q.key)
    BY <1>4 DEF RequestOK, KnowsItsKey, HasRow, Reading
  <2>2. p.range # Nothing /\ p.pc = "row" => p.range.end < p.size
    BY <1>6, <1>8
  <2> QED
    BY <1>5, <1>8, <2>1, <2>2 DEF KnowsItsKey, HasRow, Reading
<1>12. request' = [request EXCEPT ![r] = p]
  BY <1>1, <1>2, <1>3 DEF ParseRange, ReadsInv, RequestsOK
<1> QED
  BY <1>4, <1>8, <1>9, <1>10, <1>11, <1>12, OneRequestMoves DEF RequestOK

\* Before any request.
LEMMA ReadsInitInv == ReadsInit => ReadsInv
<1> SUFFICES ASSUME ReadsInit PROVE ReadsInv
  OBVIOUS
<1>1. IInv
  BY InitInv DEF ReadsInit
<1>2. HistoryOK
  BY DEF ReadsInit, Init, HistoryOK
<1>3. /\ NoRequest \in RequestRecords /\ NoRequest.pc = "idle" /\ NoRequest.op = "none"
      /\ NoRequest.range = Nothing
  BY NoRequestIsARecord
<1>4. \A r \in Requests : request[r] = NoRequest
  BY DEF ReadsInit
<1>5. KnowsItsObject(NoRequest) /\ KnowsItsRange(NoRequest) /\ KnowsItsKey(NoRequest)
  BY <1>3 DEF KnowsItsObject, KnowsItsRange, KnowsItsKey, HasRow, Reading
<1>6. RequestsOK
  BY <1>3, <1>4, <1>5 DEF ReadsInit, RequestsOK
<1> QED
  BY <1>1, <1>2, <1>6 DEF ReadsInv

\* Every step keeps the invariant of the reads.
LEMMA ReadsNextInv == ReadsInv /\ [ReadsNext]_vars => ReadsInv'
<1> SUFFICES ASSUME ReadsInv, [ReadsNext]_vars PROVE ReadsInv'
  OBVIOUS
<1>1. CASE UNCHANGED vars
  <2>1. UNCHANGED <<storeVars, content>> /\ request' = request
    BY <1>1 DEF vars
  <2>2. IInv'
    BY <2>1, StepInv DEF ReadsInv
  <2> QED
    BY <2>1, <2>2
    DEF ReadsInv, HistoryOK, RequestsOK, KnowsItsObject, KnowsItsRange, KnowsItsKey, Committed,
        SizeOfChunks, Recipe, HasRow, Reading, RequestRecords, storeVars, objectVars
<1>2. CASE ReadsNext
  BY <1>2, CreateKeeps, CommitKeeps, DeleteKeeps, BeginGetKeeps, BeginRangeKeeps, PutCommitsKeeps,
     RowMissingKeeps, ReadRowKeeps, ReadChunksKeeps, ParseRangeKeeps
  DEF ReadsNext
<1> QED
  BY <1>1, <1>2

\* What a request knows of its object is true at every step of every request.
THEOREM ReadsInvariance == ReadsSpec => []ReadsInv
BY ReadsInitInv, ReadsNextInv, PTL DEF ReadsSpec

\* A manifest has all the chunks of the row whose size it is answered with, or
\* none, for any requests, objects and interleaving.
THEOREM ReadersNeverMix == ReadsSpec => []NeverMixed
<1>1. ReadsInv => NeverMixed
  BY DEF ReadsInv, RequestsOK, KnowsItsObject, HasRow, NeverMixed, Whole
<1> QED
  BY <1>1, ReadsInvariance, PTL

\* A range that is parsed is the range that was asked for, for objects of any
\* size and any header.
THEOREM RangesAreWhatIsAsked == ReadsSpec => []ParsedIsAsked
<1>1. ReadsInv => ParsedIsAsked
  BY DEF ReadsInv, RequestsOK, KnowsItsRange, ParsedIsAsked
<1> QED
  BY <1>1, ReadsInvariance, PTL

\* A read nobody disturbs is exact: for objects of any chunks and any range, the
\* body of a ranged GET has no gap and no overlap.
THEOREM ReadsAreExact == ReadsSpec => []UndisturbedReadsExact
<1>1. ASSUME ReadsInv, NEW r \in Requests, ~request[r].disturbed
      PROVE  /\ request[r].pc = "done" => Whole(r)
             /\ Done(r, "put") => request[r].id = request[r].own
             /\ request[r].op = "put" => request[r].pc # "missing"
             /\ Done(r, "range") => IsExactly(Body(r), request[r].range)
  <2> DEFINE q == request[r]
  <2>1. RequestOK(q)
    BY <1>1 DEF ReadsInv, RequestsOK, RequestOK
  <2>2. /\ q.pc = "done" => Whole(r)
        /\ Done(r, "put") => q.id = q.own
        /\ q.op = "put" => q.pc # "missing"
    BY <1>1, <2>1 DEF RequestOK, KnowsItsKey, HasRow, Whole, Done
  <2>3. ASSUME Done(r, "range") PROVE IsExactly(Body(r), q.range)
    <3>1. q.pc = "done" /\ q.op = "range"
      BY <2>3 DEF Done
    <3> DEFINE listed == q.chunks
               range == q.range
    <3>2. range # Nothing /\ range \in ByteRanges /\ range.end < q.size
      BY <1>1, <2>1, <3>1 DEF RequestOK, KnowsItsRange, KnowsItsKey, HasRow
    <3>3. listed \in Seq(Hashes) /\ q.size = SizeOfChunks(listed)
      BY <1>1, <2>1, <3>1 DEF RequestOK, RequestRecords, KnowsItsObject, KnowsItsKey, HasRow
    <3>4. Body(r) = OpenChunks(Recipe(listed), range)
      BY DEF Body
    <3> HIDE DEF listed, range
    <3>5. SizesOf(listed) \in Seq(Nat) /\ Recipe(listed) = Contiguous(SizesOf(listed))
      BY <3>3, SizesAreNaturals DEF Recipe, SizesOf
    <3>6. range.end < Size(Contiguous(SizesOf(listed)))
      BY <3>2, <3>3, <3>5 DEF SizeOfChunks
    <3>7. IsExactly(OpenChunks(Recipe(listed), range), range)
      BY <3>2, <3>5, <3>6, OpenChunksIsExact
    <3> QED
      BY <3>4, <3>7 DEF range
  <2> QED
    BY <2>2, <2>3
<1>2. ReadsInv => UndisturbedReadsExact
  BY <1>1 DEF UndisturbedReadsExact
<1> QED
  BY <1>2, ReadsInvariance, PTL

-----------------------------------------------------------------------------
(* Requests of the HTTP server.                                            *)

(* No host of a message is under two of the configured ones, which the     *)
(* server takes in their order.                                            *)
HostsApart ==
  \A s \in Settings, m \in Messages : \A i, j \in DOMAIN s.virtualHosts :
    VirtualHosted(m.host, s.virtualHosts[i]) /\ VirtualHosted(m.host, s.virtualHosts[j])
      => s.virtualHosts[i] = s.virtualHosts[j]

\* Cutting the tail of a path is cutting the path one letter later.
LEMMA TailCuts ==
  ASSUME NEW S, NEW s \in Seq(S), s # <<>>, NEW n \in 0 .. Len(s) - 1
  PROVE  /\ SubSeq(Tail(s), 1, n) = SubSeq(s, 2, n + 1)
         /\ After(Tail(s), n) = After(s, n + 1)
<1>1. Len(s) \in Nat /\ Tail(s) \in Seq(S) /\ Len(Tail(s)) = Len(s) - 1
      /\ \A i \in 1 .. Len(s) - 1 : Tail(s)[i] = s[i + 1]
  OBVIOUS
<1>2. SubSeq(Tail(s), 1, n) = SubSeq(s, 2, n + 1)
  BY <1>1
<1>3. After(Tail(s), n) = After(s, n + 1)
  BY <1>1 DEF After
<1> QED
  BY <1>2, <1>3

(* The names a message spells under a configured host, and in its path.    *)
NameUnder(m, base) == <<SubSeq(m.host, 1, Len(m.host) - Len(base) - 1), Unescape(Tail(m.path))>>

NameInPath(m, i) == <<Unescape(SubSeq(m.path, 2, i - 1)), Unescape(After(m.path, i))>>

EndsBucket(m, i) ==
  i \in 3 .. Len(m.path) /\ m.path[i] = "/" /\ \A k \in 2 .. i - 1 : m.path[k] # "/"

ValidName(n) == validateBucketName(n[1]) /\ validateObjectKey(n[2])

Bases == {settings.virtualHosts[i] : i \in DOMAIN settings.virtualHosts}

\* Spelled in terms of these.
LEMMA SpelledNames ==
  ASSUME NEW m
  PROVE  \A n : n \in Spelled(m) <=>
           /\ ValidName(n)
           /\ IF \E base \in Bases : VirtualHosted(m.host, base)
              THEN \E base \in Bases : VirtualHosted(m.host, base) /\ n = NameUnder(m, base)
              ELSE \E i : EndsBucket(m, i) /\ n = NameInPath(m, i)
<1> DEFINE virtual == \E base \in Bases : VirtualHosted(m.host, base)
           names == IF virtual
                    THEN {NameUnder(m, base) : base \in {x \in Bases : VirtualHosted(m.host, x)}}
                    ELSE {NameInPath(m, i) : i \in {j \in 3 .. Len(m.path) :
                            m.path[j] = "/" /\ \A k \in 2 .. j - 1 : m.path[k] # "/"}}
<1>1. Spelled(m) = {n \in names : ValidName(n)}
  BY DEF Spelled, Bases, NameUnder, NameInPath, ValidName
<1>2. CASE virtual
  BY <1>1, <1>2
<1>3. CASE ~virtual
  BY <1>1, <1>3 DEF EndsBucket
<1> QED
  BY <1>2, <1>3

\* Nothing follows the end, and nothing stays nothing.
LEMMA AfterTheEnd ==
  /\ \A S : \A s \in Seq(S) : After(s, Len(s) + 1) = <<>>
  /\ Unescape(<<>>) = <<>>
<1>1. \A S : \A s \in Seq(S) : After(s, Len(s) + 1) = <<>>
  BY DEF After
<1>2. DOMAIN <<>> = {} /\ <<>> = [i \in {} |-> {}]
  OBVIOUS
<1>3. Unescape(<<>>) = <<>>
  BY <1>2 DEF Unescape
<1> QED
  BY <1>1, <1>3

\* What parseS3Path finds, by the first slash of the path after its own.
LEMMA ParsedPath ==
  ASSUME NEW m \in Messages
  PROVE  \/ /\ parseS3Path(m.path).kind \in {"invalid", "service", "bucket"}
            /\ \A i : EndsBucket(m, i) =>
                 \/ NameInPath(m, i)[1] = <<>> \/ NameInPath(m, i)[2] = <<>>
         \/ \E i : /\ EndsBucket(m, i)
                   /\ \A j : EndsBucket(m, j) => j = i
                   /\ NameInPath(m, i)[1] # <<>> /\ NameInPath(m, i)[2] # <<>>
                   /\ parseS3Path(m.path) = [kind |-> "object", bucket |-> NameInPath(m, i)[1],
                                             key |-> NameInPath(m, i)[2]]
<1> DEFINE path == m.path
           rest == Tail(path)
           n == Len(path)
           slashes == {i \in DOMAIN rest : rest[i] = "/"}
           cut == IF slashes = {} THEN Len(rest) + 1
                  ELSE CHOOSE i \in slashes : \A j \in slashes : i <= j
<1>1. path \in Seq(ToSet(path)) /\ path # <<>> /\ path[1] = "/"
  BY MessagesAssumption
<1>2. /\ n \in Nat \ {0} /\ Len(rest) = n - 1 /\ DOMAIN rest = 1 .. n - 1
      /\ \A i \in 1 .. n - 1 : rest[i] = path[i + 1]
  <2> HIDE DEF path
  <2>1. \A S : path \in Seq(S) /\ path # <<>> =>
          /\ n \in Nat \ {0} /\ Len(rest) = n - 1 /\ DOMAIN rest = 1 .. n - 1
          /\ \A i \in 1 .. n - 1 : rest[i] = path[i + 1]
    OBVIOUS
  <2> QED
    BY <1>1, <2>1
<1>3. parseS3Path(path) = IF cut = 1 /\ rest # <<>> THEN Invalid
                          ELSE Parsed(Unescape(SubSeq(rest, 1, cut - 1)), Unescape(After(rest, cut)))
  <2>1. parseS3Path(path) = Segments(rest)
    BY <1>1 DEF parseS3Path, TrimSlash
  <2> HIDE DEF rest
  <2> QED
    BY <2>1 DEF Segments
<1>4. CASE slashes = {}
  <2>1. \A i : ~EndsBucket(m, i)
    <3> SUFFICES ASSUME NEW i \in 3 .. n, path[i] = "/" PROVE FALSE
      BY DEF EndsBucket
    <3>1. i - 1 \in 1 .. n - 1 /\ rest[i - 1] = path[i]
      BY <1>2
    <3> QED
      BY <1>2, <1>4, <3>1
  <2>2. cut = n
    BY <1>2, <1>4
  <2>3. After(rest, cut) = <<>>
    <3>1. \E S : rest \in Seq(S)
      BY <1>1
    <3>2. cut = Len(rest) + 1
      BY <1>4
    <3> HIDE DEF cut, rest
    <3> QED
      BY <3>1, <3>2, AfterTheEnd
  <2>4. Unescape(After(rest, cut)) = <<>>
    BY <2>3, AfterTheEnd
  <2>5. parseS3Path(path).kind \in {"invalid", "service", "bucket"}
    BY <1>3, <2>4 DEF Invalid, Parsed
  <2> QED
    BY <2>1, <2>5
<1>5. CASE slashes # {}
  <2>1. slashes \in SUBSET Nat
    BY <1>2
  <2>2. cut \in slashes /\ \A j \in slashes : cut <= j
    <3> HIDE DEF slashes
    <3>1. \E i \in slashes : \A j \in slashes : i <= j
      BY <1>5, <2>1, LeastOf
    <3> QED
      BY <1>5, <3>1
  <2>3. cut \in 1 .. n - 1 /\ rest[cut] = "/"
    BY <1>2, <2>2
  <2> HIDE DEF cut
  <2>4. \A i : EndsBucket(m, i) <=> i = cut + 1 /\ cut # 1
    <3>1. ASSUME NEW i, EndsBucket(m, i) PROVE i = cut + 1 /\ cut # 1
      <4>1. i \in 3 .. n /\ path[i] = "/" /\ \A k \in 2 .. i - 1 : path[k] # "/"
        BY <3>1 DEF EndsBucket
      <4>2. i - 1 \in slashes
        BY <1>2, <4>1
      <4>3. cut <= i - 1
        BY <2>2, <4>2
      <4>4. cut + 1 \in 2 .. i /\ path[cut + 1] = "/"
        BY <1>2, <2>3, <4>1, <4>3
      <4>5. cut + 1 = i
        BY <2>3, <4>1, <4>4
      <4> QED
        BY <2>3, <4>1, <4>5
    <3>2. ASSUME cut # 1 PROVE EndsBucket(m, cut + 1)
      <4>1. cut + 1 \in 3 .. n /\ path[cut + 1] = "/"
        BY <1>2, <2>3, <3>2
      <4>2. ASSUME NEW k \in 2 .. cut, path[k] = "/" PROVE FALSE
        <5>1. k - 1 \in slashes
          BY <1>2, <2>3, <4>2
        <5> QED
          <6>1. cut <= k - 1
            BY <2>2, <5>1
          <6>2. cut \in Nat /\ k \in Nat /\ k <= cut
            BY <1>2, <2>3
          <6> QED
            BY <6>1, <6>2
      <4> QED
        BY <2>3, <4>1, <4>2 DEF EndsBucket
    <3> QED
      BY <3>1, <3>2
  <2>5. CASE cut = 1
    <3>1. rest # <<>>
      BY <1>2, <2>3
    <3>2. parseS3Path(path) = Invalid
      BY <1>3, <2>5, <3>1
    <3> QED
      BY <2>4, <2>5, <3>2 DEF Invalid
  <2>6. CASE cut # 1
    <3> DEFINE i == cut + 1
    <3>1. EndsBucket(m, i) /\ \A j : EndsBucket(m, j) => j = i
      BY <2>4, <2>6
    <3>2. SubSeq(rest, 1, cut - 1) = SubSeq(path, 2, i - 1) /\ After(rest, cut) = After(path, i)
      <4>1. cut \in 0 .. n - 1 /\ cut - 1 \in 0 .. n - 1 /\ (cut - 1) + 1 = i - 1
        BY <1>2, <2>3
      <4> HIDE DEF path
      <4> QED
        BY <1>1, <4>1, TailCuts
    <3>3. parseS3Path(path) = Parsed(NameInPath(m, i)[1], NameInPath(m, i)[2])
      BY <1>3, <2>6, <3>2 DEF NameInPath
    <3> HIDE DEF i
    <3> DEFINE b == NameInPath(m, i)[1]
               k == NameInPath(m, i)[2]
    <3>4. CASE b # <<>> /\ k # <<>>
      BY <3>1, <3>3, <3>4 DEF Parsed
    <3>5. CASE ~(b # <<>> /\ k # <<>>)
      <4>1. parseS3Path(path).kind \in {"service", "bucket"}
        BY <3>3, <3>5 DEF Parsed
      <4> QED
        BY <3>1, <3>5, <4>1
    <3> QED
      BY <3>4, <3>5
  <2> QED
    BY <2>5, <2>6
<1> QED
  BY <1>4, <1>5

\* The first configured host is the only one a message is under.
LEMMA ParsedTarget ==
  ASSUME NEW m \in Messages, settings \in Settings
  PROVE  LET bases == settings.virtualHosts IN
         IF \E base \in Bases : VirtualHosted(m.host, base)
         THEN \E i \in DOMAIN bases : /\ VirtualHosted(m.host, bases[i])
                /\ parseS3Target(m) = Parsed(NameUnder(m, bases[i])[1], NameUnder(m, bases[i])[2])
         ELSE parseS3Target(m) = parseS3Path(m.path)
<1> DEFINE bases == settings.virtualHosts
           matches == {i \in DOMAIN bases : VirtualHosted(m.host, bases[i])}
           first == CHOOSE i \in matches : \A j \in matches : i <= j
<1>1. (\E base \in Bases : VirtualHosted(m.host, base)) <=> matches # {}
  BY DEF Bases
<1>2. CASE matches = {}
  BY <1>1, <1>2 DEF parseS3Target
<1>3. CASE matches # {}
  <2>1. first \in matches
    <3>1. matches \in SUBSET Nat
      BY SettingsAssumption
    <3> HIDE DEF matches
    <3>2. \E i \in matches : \A j \in matches : i <= j
      BY <1>3, <3>1, LeastOf
    <3> QED
      BY <3>2
  <2>2. parseS3Target(m) =
          Parsed(SubSeq(m.host, 1, Len(m.host) - Len(bases[first]) - 1), Unescape(TrimSlash(m.path)))
    BY <1>3 DEF parseS3Target
  <2>3. TrimSlash(m.path) = Tail(m.path)
    BY MessagesAssumption DEF TrimSlash
  <2> HIDE DEF first
  <2>4. parseS3Target(m) = Parsed(NameUnder(m, bases[first])[1], NameUnder(m, bases[first])[2])
    BY <2>2, <2>3 DEF NameUnder
  <2> QED
    BY <1>1, <1>3, <2>1, <2>4
<1> QED
  BY <1>2, <1>3

\* The kinds of names.
LEMMA ParsedName ==
  ASSUME NEW b, NEW k
  PROVE  /\ Parsed(b, k).bucket = b /\ Parsed(b, k).key = k
         /\ Parsed(b, k).kind \in {"service", "bucket", "object"}
         /\ Parsed(b, k).kind = "object" <=> b # <<>> /\ k # <<>>
BY DEF Parsed

\* A valid name has a bucket and a key.
LEMMA ValidIsNotEmpty ==
  ASSUME NEW n, ValidName(n)
  PROVE  n[1] # <<>> /\ n[2] # <<>>
<1>1. Len(n[1]) \in MinBucket .. MaxBucket /\ Len(n[2]) \in 1 .. MaxKey
  BY DEF ValidName, validateBucketName, validateObjectKey
<1>2. Len(<<>>) = 0
  OBVIOUS
<1> QED
  BY <1>1, <1>2, LimitsAssumption

\* The target of a message, when it is an object with a valid name, is a name
\* the message spells.
LEMMA TargetIsSpelled ==
  ASSUME NEW m \in Messages, settings \in Settings,
         NEW t, t = parseS3Target(m), t.kind = "object",
         validateBucketName(t.bucket), validateObjectKey(t.key)
  PROVE  <<t.bucket, t.key>> \in Spelled(m)
<1> DEFINE n == <<t.bucket, t.key>>
<1>1. ValidName(n)
  BY DEF ValidName
<1>2. CASE \E base \in Bases : VirtualHosted(m.host, base)
  <2>1. PICK i \in DOMAIN settings.virtualHosts :
          /\ VirtualHosted(m.host, settings.virtualHosts[i])
          /\ t = Parsed(NameUnder(m, settings.virtualHosts[i])[1], NameUnder(m, settings.virtualHosts[i])[2])
    BY <1>2, ParsedTarget
  <2>2. PICK base : base = settings.virtualHosts[i]
    OBVIOUS
  <2>3. n = NameUnder(m, base)
    <3>1. t.bucket = NameUnder(m, base)[1] /\ t.key = NameUnder(m, base)[2]
      BY <2>1, <2>2, ParsedName
    <3>2. \A a, b, c : c = <<a, b>> => c = <<c[1], c[2]>>
      OBVIOUS
    <3>3. NameUnder(m, base) = <<NameUnder(m, base)[1], NameUnder(m, base)[2]>>
      BY <3>2 DEF NameUnder
    <3> QED
      BY <3>1, <3>3
  <2> QED
    BY <1>1, <1>2, <2>1, <2>2, <2>3, SpelledNames DEF Bases
<1>3. CASE ~\E base \in Bases : VirtualHosted(m.host, base)
  <2>1. t = parseS3Path(m.path)
    BY <1>3, ParsedTarget
  <2>2. PICK i : /\ EndsBucket(m, i)
                 /\ t = [kind |-> "object", bucket |-> NameInPath(m, i)[1], key |-> NameInPath(m, i)[2]]
    BY <2>1, ParsedPath
  <2>3. n = NameInPath(m, i)
    BY <2>2 DEF NameInPath
  <2> QED
    BY <1>1, <1>3, <2>2, <2>3, SpelledNames
<1> QED
  BY <1>2, <1>3

\* And where no host is under two of the configured ones, a name a message
\* spells is its target.
LEMMA SpelledIsTarget ==
  ASSUME NEW m \in Messages, settings \in Settings, HostsApart,
         NEW n \in Spelled(m)
  PROVE  /\ parseS3Target(m).kind = "object"
         /\ parseS3Target(m).bucket = n[1] /\ parseS3Target(m).key = n[2]
<1>1. ValidName(n) /\ n[1] # <<>> /\ n[2] # <<>>
  BY SpelledNames, ValidIsNotEmpty
<1>2. CASE \E base \in Bases : VirtualHosted(m.host, base)
  <2>1. PICK i \in DOMAIN settings.virtualHosts :
          /\ VirtualHosted(m.host, settings.virtualHosts[i])
          /\ parseS3Target(m) = Parsed(NameUnder(m, settings.virtualHosts[i])[1],
                                       NameUnder(m, settings.virtualHosts[i])[2])
    BY <1>2, ParsedTarget
  <2>2. PICK j \in DOMAIN settings.virtualHosts :
          VirtualHosted(m.host, settings.virtualHosts[j]) /\ n = NameUnder(m, settings.virtualHosts[j])
    BY <1>2, SpelledNames DEF Bases
  <2>3. settings.virtualHosts[i] = settings.virtualHosts[j]
    BY <2>1, <2>2 DEF HostsApart
  <2>4. parseS3Target(m) = Parsed(n[1], n[2])
    BY <2>1, <2>2, <2>3
  <2> QED
    BY <1>1, <2>4, ParsedName
<1>3. CASE ~\E base \in Bases : VirtualHosted(m.host, base)
  <2>1. PICK i : EndsBucket(m, i) /\ n = NameInPath(m, i)
    BY <1>3, SpelledNames
  <2>2. PICK j : /\ EndsBucket(m, j) /\ i = j
                 /\ parseS3Path(m.path) = [kind |-> "object", bucket |-> NameInPath(m, j)[1],
                                           key |-> NameInPath(m, j)[2]]
    BY <1>1, <2>1, ParsedPath
  <2>3. parseS3Target(m) = parseS3Path(m.path)
    BY <1>3, ParsedTarget
  <2> QED
    BY <2>1, <2>2, <2>3
<1> QED
  BY <1>2, <1>3

-----------------------------------------------------------------------------
(* Routes.                                                                 *)

ObjectHandlers == {"put", "get", "range", "delete", "initiate", "part", "complete", "abort"}

\* A message has one handler or is refused.
LEMMA HandlerNames == \A m : Handler(m) \in ObjectHandlers \cup {"refused"}
BY DEF Handler, ObjectHandlers

\* A message is of one tenant.
LEMMA OneTenant ==
  ASSUME NEW m, settings \in Settings
  PROVE  \A t, u \in authenticate(m) : t = u
BY SettingsAssumption DEF authenticate, Verify

\* A message that reaches a handler of objects is about an object it spells, and
\* its path is none of those the server keeps.
LEMMA RoutedToAnObject ==
  ASSUME NEW m \in Messages, settings \in Settings, Route(m) \in ObjectHandlers
  PROVE  /\ ~Reserved(Unescape(m.path)) /\ Route(m) = Handler(m)
         /\ Target(m) \in Asked(m) /\ Target(m).tenant \in authenticate(m)
<1> DEFINE t == parseS3Target(m)
           path == Unescape(m.path)
<1>1. /\ ~IsPrefix(pprofPrefix, path) /\ path \notin Probes /\ authenticate(m) # {}
      /\ ~IsPrefix(deltaAPIPrefix, path) /\ Route(m) = Dispatch(m, t)
  BY DEF Route, ObjectHandlers, Probes
<1>2. /\ t.kind = "object" /\ validateBucketName(t.bucket) /\ validateObjectKey(t.key)
      /\ Dispatch(m, t) = Handler(m)
  <2> HIDE DEF t
  <2> QED
    BY <1>1 DEF Dispatch, ObjectHandlers
<1>3. <<t.bucket, t.key>> \in Spelled(m)
  BY <1>2, TargetIsSpelled
<1>4. Target(m) \in {Object(i, t.bucket, t.key) : i \in authenticate(m)}
  BY <1>1 DEF Target
<1>5. PICK i \in authenticate(m) : Target(m) = Object(i, t.bucket, t.key)
  BY <1>4
<1>6. PICK n \in Spelled(m) : n = <<t.bucket, t.key>>
  BY <1>3
<1>7. Target(m) = Object(i, n[1], n[2])
  BY <1>5, <1>6
<1>8. Target(m) \in Asked(m)
  BY <1>7 DEF Asked
<1>9. Target(m).tenant \in authenticate(m)
  BY <1>5 DEF Object
<1> QED
  BY <1>1, <1>2, <1>8, <1>9 DEF Reserved

\* Only reserved paths go to the delta handlers.
LEMMA RoutedToDelta ==
  ASSUME NEW m, Route(m) = "delta"
  PROVE  Reserved(Unescape(m.path))
<1>1. \A u : Dispatch(m, u) # "delta"
  BY HandlerNames DEF Dispatch, ObjectHandlers
<1> QED
  BY <1>1 DEF Route, Reserved

\* Where no host is under two of the configured ones, a message about an
\* object reaches the handler of its method, for the object it spells.
LEMMA AskedIsRouted ==
  ASSUME NEW m \in Messages, settings \in Settings, HostsApart, AboutAnObject(m), NEW o \in Asked(m)
  PROVE  /\ o = Target(m)
         /\ m.method = "PUT" => Route(m) = "put"
         /\ m.method \in {"GET", "HEAD"} => Route(m) = IF m.range = "none" THEN "get" ELSE "range"
         /\ m.method = "DELETE" => Route(m) = "delete"
<1> DEFINE t == parseS3Target(m)
           path == Unescape(m.path)
<1>1. PICK i \in authenticate(m), n \in Spelled(m) : o = Object(i, n[1], n[2])
  BY DEF Asked
<1>2. t.kind = "object" /\ t.bucket = n[1] /\ t.key = n[2]
  BY SpelledIsTarget
<1>3. ValidName(n)
  BY SpelledNames
<1>4. \A j \in authenticate(m) : j = i
  BY OneTenant
<1>5. o = Target(m)
  <2>1. {Object(j, t.bucket, t.key) : j \in authenticate(m)} = {o}
    BY <1>1, <1>2, <1>4
  <2> QED
    BY <2>1 DEF Target
<1>6. Dispatch(m, t) = Handler(m)
  <2> HIDE DEF t
  <2> QED
    BY <1>2, <1>3 DEF Dispatch, ValidName
<1>7. ~IsPrefix(pprofPrefix, path) /\ path \notin Probes /\ ~IsPrefix(deltaAPIPrefix, path)
      /\ m.query \notin UploadIds /\ m.method \in {"PUT", "GET", "HEAD", "DELETE"}
  BY DEF AboutAnObject, Reserved
<1>8. Route(m) = Handler(m)
  <2>1. path # readyz /\ ~handleCORS(m) /\ authenticate(m) # {}
    BY <1>1, <1>7 DEF Probes, handleCORS
  <2> HIDE DEF t, path
  <2>2. Route(m) = Dispatch(m, t)
    BY <1>7, <2>1 DEF Route, t, path
  <2> QED
    BY <1>6, <2>2
<1>9. ~HasUploadId(m)
  BY <1>7 DEF HasUploadId
<1>10. /\ m.method = "PUT" => Handler(m) = "put"
       /\ m.method \in {"GET", "HEAD"} => Handler(m) = IF m.range = "none" THEN "get" ELSE "range"
       /\ m.method = "DELETE" => Handler(m) = "delete"
  BY <1>9 DEF Handler
<1> QED
  BY <1>5, <1>8, <1>10

-----------------------------------------------------------------------------
(* The invariant: a request is on the way its message was routed to, has   *)
(* touched nothing before its handler does, and has seen what is stored.   *)

IsFlight(f) ==
  f = [pc |-> f.pc, message |-> f.message, object |-> f.object, content |-> f.content,
       answer |-> f.answer, saw |-> f.saw, touched |-> f.touched]

RoutedOK(f) ==
  LET r == Route(f.message) IN
  /\ f.pc \in {"put", "storing"} => r = "put"
  /\ f.pc \in {"complete", "assembling", "publishing", "cleaning"} => r = "complete"
  /\ f.pc \in {"initiate", "creating"} => r = "initiate"
  /\ f.pc \in {"part", "receiving"} => r = "part"
  /\ f.pc \in {"range", "sized"} => r = "range"
  /\ f.pc \in {"get", "delete", "abort", "delta"} => r = f.pc
  /\ f.pc = "committed" => r \in {"put", "complete"}

HasStored(f) ==
  HostsApart /\ AboutAnObject(f.message) =>
    \A o \in Asked(f.message) : o \in f.touched /\ f.message.body \in f.saw

HasAnswered(f) == HostsApart /\ AboutAnObject(f.message) => AnswersWhatItDid(f)

(* The object of an upload is the one its first message asked for.         *)
UploadsOK ==
  \A id \in DOMAIN uploads : uploads[id].object \in Asked(uploads[id].message)

(* Uploads are not forgotten.                                              *)
UploadsStay ==
  \A id \in DOMAIN uploads : id \in DOMAIN uploads' /\ uploads'[id].message = uploads[id].message

FlightOK(f) ==
  /\ IsFlight(f)
  /\ f.pc # "idle" => f.message \in Messages
  /\ RoutedOK(f)
  /\ f.pc \notin {"committed", "cleaning", "sized", "answered"} => f.touched = {}
  /\ f.pc = "sized" => f.touched \subseteq {Target(f.message)}
  /\ f.pc = "publishing" => /\ f.object \in BegunFor(f.message.query)
                            /\ f.object.tenant \in authenticate(f.message)
  /\ f.pc \notin {"idle", "answered"} => Contents(stored, f.message) \subseteq f.saw
  /\ f.pc = "committed" => HasStored(f)
  /\ f.pc = "answered" => HasAnswered(f)
  /\ TouchesWhatItAsks(f)

GatewayInv ==
  /\ settings \in Settings
  /\ UploadsOK
  /\ flight = [c \in Senders |-> flight[c]]
  /\ \A c \in Senders : FlightOK(flight[c])

(* What AnswersWhatItDid says of one object, answer by answer.             *)
Explained(f, o, stopped) ==
  /\ f.answer = "ok" => /\ o \in f.touched /\ Result(f) \in f.saw
                        /\ Result(f) = NoContent <=> f.message.method = "DELETE"
  /\ f.answer = "notfound" => f.message.method \in {"GET", "HEAD"} /\ NoContent \in f.saw
  /\ f.answer = "refused" => \/ f.message.method = "PUT" /\ f.message.length # "fits" /\ f.touched = {}
                             \/ f.message.method \in {"GET", "HEAD"} /\ f.message.range = "bad"
  /\ f.answer = "unavailable" => f.touched = {} /\ stopped

\* An answer is about the objects its message asks for.
LEMMA ExplainedAnswers ==
  ASSUME NEW f
  PROVE  /\ AnswersWhatItDid(f) <=> \A o \in Asked(f.message) : Explained(f, o, draining)
         /\ AnswersWhatItDid(f)' <=> \A o \in Asked(f.message)' : Explained(f, o, draining')
<1>1. CASE f.answer \notin {"ok", "notfound", "refused", "unavailable"}
  BY <1>1 DEF AnswersWhatItDid, Explained
<1>2. CASE f.answer = "ok"
  BY <1>2 DEF AnswersWhatItDid, Explained, Result
<1>3. CASE f.answer = "notfound"
  BY <1>3 DEF AnswersWhatItDid, Explained
<1>4. CASE f.answer = "refused"
  BY <1>4 DEF AnswersWhatItDid, Explained
<1>5. CASE f.answer = "unavailable"
  BY <1>5 DEF AnswersWhatItDid, Explained
<1> QED
  BY <1>1, <1>2, <1>3, <1>4, <1>5

\* What a message is does not change while the settings do not.
LEMMA SameSettings ==
  ASSUME settings' = settings, NEW m
  PROVE  /\ authenticate(m)' = authenticate(m) /\ Asked(m)' = Asked(m) /\ Route(m)' = Route(m)
         /\ Target(m)' = Target(m)
         /\ \A store : Contents(store, m)' = Contents(store, m)
<1>1. authenticate(m)' = authenticate(m)
  BY DEF authenticate, Verify
<1>2. Spelled(m)' = Spelled(m)
  BY DEF Spelled
<1>3. Asked(m)' = Asked(m)
  BY <1>1, <1>2 DEF Asked
<1>4. parseS3Target(m)' = parseS3Target(m) /\ handleCORS(m)' = handleCORS(m)
  BY DEF parseS3Target, handleCORS
<1>5. Route(m)' = Route(m)
  BY <1>1, <1>4 DEF Route
<1>6. \A store : Contents(store, m)' = Contents(store, m)
  BY <1>3 DEF Contents
<1>7. Target(m)' = Target(m)
  BY <1>1, <1>4 DEF Target
<1> QED
  BY <1>1, <1>3, <1>5, <1>6, <1>7

\* What an upload was begun for stays so.
LEMMA SameUploads ==
  ASSUME settings' = settings, UploadsStay, NEW id
  PROVE  BegunFor(id) \subseteq BegunFor(id)'
<1> SUFFICES ASSUME NEW u \in {id} \cap DOMAIN uploads, NEW o \in Asked(uploads[u].message)
             PROVE  o \in BegunFor(id)'
  BY DEF BegunFor
<1>1. u \in {id} \cap DOMAIN uploads' /\ uploads'[u].message = uploads[u].message
  BY DEF UploadsStay
<1>2. PICK m : m = uploads[u].message
  OBVIOUS
<1>3. o \in Asked(m)'
  BY <1>2, SameSettings
<1>4. o \in Asked(uploads[u].message)'
  BY <1>1, <1>2, <1>3
<1> QED
  BY <1>1, <1>4 DEF BegunFor

\* What a request has done stays as it was while the settings do; what it has
\* seen must keep up with what is stored.
LEMMA FlightGoesOn ==
  ASSUME NEW f, NEW g, FlightOK(f), settings' = settings, draining => draining', UploadsStay,
         NEW more, g = [f EXCEPT !.saw = f.saw \cup more],
         f.pc \in {"idle", "answered"} => more = {},
         f.pc \notin {"idle", "answered"} => Contents(stored, f.message)' \subseteq f.saw \cup more
  PROVE  FlightOK(g)'
<1>1. /\ IsFlight(g) /\ g.pc = f.pc /\ g.message = f.message /\ g.object = f.object
      /\ g.content = f.content /\ g.answer = f.answer /\ g.touched = f.touched
      /\ g.saw = f.saw \cup more
  <2>1. IsFlight(f)
    BY DEF FlightOK
  <2> QED
    BY <2>1 DEF IsFlight
<1>2. PICK m : m = f.message
  OBVIOUS
<1>3. authenticate(m)' = authenticate(m) /\ Asked(m)' = Asked(m) /\ Route(m)' = Route(m)
  BY SameSettings
<1>4. g.pc # "idle" => m \in Messages
  BY <1>1, <1>2 DEF FlightOK
<1>5. RoutedOK(g)'
  BY <1>1, <1>2, <1>3 DEF FlightOK, RoutedOK
<1>6. g.pc \notin {"committed", "cleaning", "sized", "answered"} => g.touched = {}
  BY <1>1 DEF FlightOK
<1>11. BegunFor(m.query) \subseteq BegunFor(m.query)'
  BY SameUploads
<1>12. g.pc = "publishing" => g.object \in BegunFor(m.query)' /\ g.object.tenant \in authenticate(m)'
  BY <1>1, <1>2, <1>3, <1>11 DEF FlightOK
<1>13. g.pc = "sized" => g.touched \subseteq {Target(m)'}
  BY <1>1, <1>2, SameSettings DEF FlightOK
<1>7. g.pc \notin {"idle", "answered"} => Contents(stored, m)' \subseteq g.saw
  BY <1>1, <1>2
<1>8. g.pc = "committed" => HasStored(g)'
  BY <1>1, <1>2, <1>3 DEF FlightOK, HasStored, HostsApart, AboutAnObject, Reserved
<1>9. TouchesWhatItAsks(g)'
  <2>1. Handler(m)' = Handler(m) /\ Reserved(Unescape(m.path))' = Reserved(Unescape(m.path))
    BY DEF Handler, Reserved, HasUploadId
  <2> QED
    BY <1>1, <1>2, <1>3, <1>11, <2>1 DEF FlightOK, TouchesWhatItAsks
<1>10. g.pc = "answered" => HasAnswered(g)'
  <2> SUFFICES ASSUME g.pc = "answered", HostsApart, AboutAnObject(m), NEW o \in Asked(m)
               PROVE  Explained(g, o, draining')
    <3>1. \A o \in Asked(m)' : o \in Asked(m)
      BY <1>3
    <3>2. AboutAnObject(m)' = AboutAnObject(m)
      BY DEF AboutAnObject, Reserved
    <3> QED
      BY <1>1, <1>2, <3>1, <3>2, ExplainedAnswers DEF HasAnswered, HostsApart
  <2>1. Explained(f, o, draining)
    BY <1>1, <1>2, ExplainedAnswers DEF FlightOK, HasAnswered
  <2>2. g.saw = f.saw /\ Result(g) = Result(f)
    BY <1>1 DEF Result
  <2> QED
    BY <1>1, <1>2, <2>1, <2>2 DEF Explained
<1> QED
  BY <1>1, <1>2, <1>4, <1>5, <1>6, <1>7, <1>8, <1>9, <1>10, <1>12, <1>13
     DEF FlightOK, IsFlight

\* The objects of the uploads stay what they were begun for.
LEMMA SameUploadsOK ==
  ASSUME UploadsOK, UNCHANGED <<settings, uploads>>
  PROVE  UploadsOK' /\ UploadsStay
<1>1. ASSUME NEW id \in DOMAIN uploads' PROVE (uploads[id].object \in Asked(uploads[id].message))'
  <2>1. PICK m : m = uploads[id].message /\ uploads[id].object \in Asked(m)
    BY <1>1 DEF UploadsOK
  <2>2. uploads[id].object \in Asked(m)'
    BY <2>1, SameSettings
  <2> QED
    BY <2>1, <2>2
<1> QED
  BY <1>1 DEF UploadsOK, UploadsStay

\* One request moves on, and perhaps an upload with it.
LEMMA UploadAndFlightMove ==
  ASSUME GatewayInv, NEW c \in Senders, NEW g, FlightOK(g), flight' = [flight EXCEPT ![c] = g],
         UNCHANGED <<settings, draining, stored>>, UploadsOK', UploadsStay
  PROVE  GatewayInv'
<1>1. ASSUME NEW f, FlightOK(f) PROVE FlightOK(f)'
  <2>1. f = [f EXCEPT !.saw = f.saw \cup {}]
    BY <1>1 DEF FlightOK, IsFlight
  <2>2. f.pc \notin {"idle", "answered"} => Contents(stored, f.message)' \subseteq f.saw \cup {}
    BY <1>1, SameSettings DEF FlightOK, Contents
  <2> QED
    BY <1>1, <2>1, <2>2, FlightGoesOn
<1>2. ASSUME NEW d \in Senders, NEW f, f = flight'[d] PROVE FlightOK(f)'
  BY <1>1, <1>2 DEF GatewayInv
<1>3. \A d \in Senders : FlightOK(flight[d])'
  BY <1>2
<1> QED
  BY <1>3 DEF GatewayInv

\* One request moves on, and nothing else does.
LEMMA OneFlightMoves ==
  ASSUME GatewayInv, NEW c \in Senders, NEW g, FlightOK(g), flight' = [flight EXCEPT ![c] = g],
         UNCHANGED <<settings, draining, stored, uploads>>
  PROVE  GatewayInv'
<1>1. UploadsOK' /\ UploadsStay
  BY SameUploadsOK DEF GatewayInv
<1> QED
  BY <1>1, UploadAndFlightMove

\* A request is answered: nothing else of it changes.
LEMMA ReplyKeeps ==
  ASSUME GatewayInv, NEW c \in Senders, NEW answer, Reply(c, answer), NEW f, f = flight[c],
         f.pc # "idle",
         \A o \in Asked(f.message) : HostsApart /\ AboutAnObject(f.message) =>
           /\ answer # "ok"
           /\ answer = "notfound" => f.message.method \in {"GET", "HEAD"} /\ NoContent \in f.saw
           /\ answer = "refused" => f.message.method = "PUT" /\ f.message.length # "fits" /\ f.touched = {}
           /\ answer = "unavailable" => f.touched = {} /\ draining
  PROVE  GatewayInv'
<1>1. PICK g : g = Answered(f, answer)
  OBVIOUS
<1>2. FlightOK(f)
  BY DEF GatewayInv
<1>3. /\ IsFlight(g) /\ g.pc = "answered" /\ g.message = f.message /\ g.answer = answer
      /\ g.saw = f.saw /\ g.touched = f.touched
  BY <1>1, <1>2 DEF FlightOK, IsFlight, Answered
<1>4. HasAnswered(g)
  BY <1>3, ExplainedAnswers DEF HasAnswered, Explained
<1>5. RoutedOK(g) /\ TouchesWhatItAsks(g)
  BY <1>2, <1>3 DEF FlightOK, RoutedOK, TouchesWhatItAsks
<1>6. FlightOK(g)
  BY <1>2, <1>3, <1>4, <1>5 DEF FlightOK
<1>7. flight' = [flight EXCEPT ![c] = g] /\ UNCHANGED <<settings, draining, stored, uploads>>
  BY <1>1 DEF Reply
<1> QED
  BY <1>6, <1>7, OneFlightMoves

\* A request goes on to the next step of its handler.
LEMMA HandlerGoesOn ==
  ASSUME GatewayInv, NEW c \in Senders, NEW f, f = flight[c], NEW pc,
         pc \notin {"idle", "answered", "committed"}, f.pc \notin {"idle", "answered"},
         f.touched = {} \/ pc = "cleaning", pc # "publishing",
         \A g : g.pc = pc /\ g.message = f.message => RoutedOK(g),
         flight' = [flight EXCEPT ![c].pc = pc], UNCHANGED <<settings, draining, stored, uploads>>
  PROVE  GatewayInv'
<1>1. PICK g : g = [f EXCEPT !.pc = pc]
  OBVIOUS
<1>2. FlightOK(f)
  BY DEF GatewayInv
<1>3. IsFlight(g) /\ g.pc = pc /\ g.message = f.message /\ g.saw = f.saw /\ g.touched = f.touched
  BY <1>1, <1>2 DEF FlightOK, IsFlight
<1>4. RoutedOK(g) /\ TouchesWhatItAsks(g)
  BY <1>2, <1>3 DEF FlightOK, TouchesWhatItAsks
<1>5. FlightOK(g)
  BY <1>2, <1>3, <1>4 DEF FlightOK
<1>6. flight' = [flight EXCEPT ![c] = g]
  BY <1>1
<1> QED
  BY <1>5, <1>6, OneFlightMoves

\* Draining, a new request and each step of a handler keep the invariant.
LEMMA StartDrainKeeps == ASSUME GatewayInv, StartDrain PROVE GatewayInv'
<1>1. UNCHANGED <<settings, stored, flight, uploads>> /\ draining'
  BY DEF StartDrain
<1>4. UploadsOK' /\ UploadsStay
  BY <1>1, SameUploadsOK DEF GatewayInv
<1>2. ASSUME NEW f, FlightOK(f) PROVE FlightOK(f)'
  <2>1. f = [f EXCEPT !.saw = f.saw \cup {}]
    BY <1>2 DEF FlightOK, IsFlight
  <2>2. f.pc \notin {"idle", "answered"} => Contents(stored, f.message)' \subseteq f.saw \cup {}
    BY <1>1, <1>2, SameSettings DEF FlightOK, Contents
  <2> QED
    BY <1>1, <1>2, <1>4, <2>1, <2>2, FlightGoesOn
<1>3. ASSUME NEW d \in Senders, NEW f, f = flight[d] PROVE FlightOK(f)'
  BY <1>2, <1>3 DEF GatewayInv
<1> QED
  BY <1>1, <1>3, <1>4 DEF GatewayInv

\* A client sends a message.
LEMMA SendKeeps ==
  ASSUME GatewayInv, NEW c \in Senders, NEW m \in Messages, Send(c, m) PROVE GatewayInv'
<1>1. PICK g : g = Arrived(m)
  OBVIOUS
<1>2. IsFlight(g) /\ g.pc = "arrived" /\ g.message = m /\ g.touched = {} /\ g.saw = Contents(stored, m)
  BY <1>1 DEF Arrived, Quiet, IsFlight
<1>3. RoutedOK(g) /\ TouchesWhatItAsks(g)
  BY <1>2 DEF RoutedOK, TouchesWhatItAsks
<1>4. FlightOK(g)
  BY <1>2, <1>3 DEF FlightOK
<1>5. flight' = [flight EXCEPT ![c] = g] /\ UNCHANGED <<settings, draining, stored, uploads>>
  BY <1>1 DEF Send
<1> QED
  BY <1>4, <1>5, OneFlightMoves

\* What routing answers.
LEMMA Routes ==
  \A m : Route(m) \in {"ok", "refused", "notfound", "ready", "preflight", "delta"} \cup ObjectHandlers
<1>1. \A m, t : Dispatch(m, t) \in {"ok", "refused"} \cup ObjectHandlers
  BY HandlerNames DEF Dispatch
<1> QED
  BY <1>1 DEF Route

\* Routing.
LEMMA serveHTTPKeeps == ASSUME GatewayInv, NEW c \in Senders, serveHTTP(c) PROVE GatewayInv'
<1>1. PICK f, m, r : f = flight[c] /\ m = f.message /\ r = Route(m)
  OBVIOUS
<1>2. FlightOK(f) /\ f.pc = "arrived" /\ m \in Messages /\ settings \in Settings
  BY <1>1 DEF GatewayInv, serveHTTP, FlightOK
<1>3. \A o \in Asked(m) : HostsApart /\ AboutAnObject(m) => r \in ObjectHandlers
  BY <1>1, <1>2, AskedIsRouted DEF AboutAnObject, ObjectHandlers
<1>4. CASE r \in {"ok", "refused", "notfound"}
  <2>1. Reply(c, r)
    BY <1>1, <1>4 DEF serveHTTP
  <2> QED
    BY <1>1, <1>2, <1>3, <1>4, <2>1, ReplyKeeps DEF ObjectHandlers
<1>5. CASE r \in {"ready", "preflight"}
  <2>1. PICK a : Reply(c, a)
    BY <1>1, <1>5 DEF serveHTTP
  <2> QED
    BY <1>1, <1>2, <1>3, <1>5, <2>1, ReplyKeeps DEF ObjectHandlers
<1>6. CASE r \in {"delta"} \cup ObjectHandlers
  <2>1. flight' = [flight EXCEPT ![c].pc = r] /\ UNCHANGED <<settings, draining, stored, uploads>>
    BY <1>1, <1>6 DEF serveHTTP, ObjectHandlers
  <2>2. f.touched = {}
    BY <1>2 DEF FlightOK
  <2>3. \A g : g.pc = r /\ g.message = m => RoutedOK(g)
    BY <1>1, <1>6 DEF RoutedOK, ObjectHandlers
  <2>4. r \notin {"idle", "answered", "committed", "publishing"}
    BY <1>6 DEF ObjectHandlers
  <2> QED
    BY <1>1, <1>2, <2>1, <2>2, <2>3, <2>4, HandlerGoesOn
<1> QED
  BY <1>1, <1>4, <1>5, <1>6, Routes

\* What the handler says of the message it has been given.
LEMMA MethodOf ==
  ASSUME NEW m
  PROVE  /\ Handler(m) = "put" => m.method = "PUT" /\ ~HasUploadId(m)
         /\ Handler(m) \in {"get", "range"} => m.method \in {"GET", "HEAD"}
         /\ Handler(m) = "get" => m.range = "none"
         /\ Handler(m) = "range" => m.range # "none"
         /\ Handler(m) = "delete" => m.method = "DELETE" /\ ~HasUploadId(m)
         /\ Handler(m) = "initiate" => m.method = "POST"
         /\ Handler(m) \in {"part", "complete", "abort"} => HasUploadId(m)
BY DEF Handler

\* A request in a handler of objects, which asks for no other object than its
\* target, and for none if it is about an upload.
LEMMA InHandler ==
  ASSUME GatewayInv, NEW c \in Senders, NEW f, f = flight[c], NEW m, m = f.message,
         f.pc \notin {"idle", "arrived", "answered", "delta"}, Route(m) \in ObjectHandlers
  PROVE  /\ FlightOK(f) /\ m \in Messages /\ settings \in Settings /\ Route(m) = Handler(m)
         /\ ~Reserved(Unescape(m.path)) /\ Target(m) \in Asked(m)
         /\ Target(m).tenant \in authenticate(m)
         /\ \A o \in Asked(m) : HostsApart /\ AboutAnObject(m) =>
              o = Target(m) /\ Handler(m) \in {"put", "get", "range", "delete"}
<1>1. FlightOK(f) /\ m \in Messages /\ settings \in Settings
  BY DEF GatewayInv, FlightOK
<1>2. \A o \in Asked(m) : HostsApart /\ AboutAnObject(m) =>
        o = Target(m) /\ Route(m) \in {"put", "get", "range", "delete"}
  BY <1>1, AskedIsRouted DEF AboutAnObject
<1> QED
  BY <1>1, <1>2, RoutedToAnObject

\* An upload is admitted, or refused while draining.
LEMMA beginUploadKeeps == ASSUME GatewayInv, NEW c \in Senders, beginUpload(c) PROVE GatewayInv'
<1>1. PICK f, m : f = flight[c] /\ m = f.message
  OBVIOUS
<1>2. f.pc \in {"put", "initiate", "part", "complete"}
  BY <1>1 DEF beginUpload, Begun
<1>3. FlightOK(f) /\ f.touched = {} /\ Route(m) = f.pc
  BY <1>1, <1>2 DEF GatewayInv, FlightOK, RoutedOK
<1>4. /\ Route(m) = Handler(m)
      /\ \A o \in Asked(m) : HostsApart /\ AboutAnObject(m) => Handler(m) = "put" /\ m.method = "PUT"
  BY <1>1, <1>2, <1>3, InHandler, MethodOf DEF ObjectHandlers
<1>5. CASE draining
  <2>1. Reply(c, "unavailable")
    BY <1>5 DEF beginUpload
  <2> QED
    BY <1>1, <1>2, <1>3, <1>5, <2>1, ReplyKeeps
<1>6. CASE ~draining /\ m.length = "declared" /\ f.pc # "initiate"
  <2>1. Reply(c, "refused")
    BY <1>1, <1>6 DEF beginUpload
  <2> QED
    <3>1. m.length # "fits" /\ f.pc # "idle" /\ f.message = m
      BY <1>1, <1>2, <1>6
    <3>2. \A o \in Asked(m) : HostsApart /\ AboutAnObject(m) => m.method = "PUT"
      BY <1>4
    <3> QED
      BY <1>1, <1>3, <2>1, <3>1, <3>2, ReplyKeeps
<1>7. CASE ~draining /\ ~(m.length = "declared" /\ f.pc # "initiate")
  <2> DEFINE pc == Begun[f.pc]
  <2>1. flight' = [flight EXCEPT ![c].pc = pc] /\ UNCHANGED <<settings, draining, stored, uploads>>
    BY <1>1, <1>7 DEF beginUpload
  <2>2. pc = IF f.pc = "put" THEN "storing" ELSE IF f.pc = "initiate" THEN "creating"
             ELSE IF f.pc = "part" THEN "receiving" ELSE "assembling"
    BY <1>2 DEF Begun
  <2> HIDE DEF pc
  <2>3. \A g : g.pc = pc /\ g.message = m => RoutedOK(g)
    BY <1>2, <1>3, <2>2 DEF RoutedOK
  <2>4. pc \notin {"idle", "answered", "committed", "publishing"}
    BY <2>2
  <2>5. PICK q : q = pc
    OBVIOUS
  <2> QED
    BY <1>1, <1>2, <1>3, <2>1, <2>3, <2>4, <2>5, HandlerGoesOn
<1> QED
  BY <1>5, <1>6, <1>7

\* The objects change under a request of c, and all requests in progress see it.
LEMMA ChangeKeeps ==
  ASSUME GatewayInv, NEW c \in Senders, NEW o, NEW store, NEW h, Change(c, o, store, h),
         Underway(c), UNCHANGED uploads, NEW g,
         g = [Touching(h, o) EXCEPT !.saw = Touching(h, o).saw \cup Contents(store, Touching(h, o).message)],
         FlightOK(g)'
  PROVE  GatewayInv'
<1>1. settings' = settings /\ draining' = draining /\ stored' = store
  BY DEF Change
<1>2. flight'[c] = g
  BY DEF Change
<1>6. UploadsOK' /\ UploadsStay
  BY <1>1, SameUploadsOK DEF GatewayInv
<1>3. ASSUME NEW d \in Senders, d # c, NEW f, f = flight[d], NEW q, q = flight'[d] PROVE FlightOK(q)'
  <2>1. FlightOK(f)
    BY <1>3 DEF GatewayInv
  <2>2. q = IF f.pc \notin {"idle", "answered"} THEN [f EXCEPT !.saw = f.saw \cup Contents(store, f.message)] ELSE f
    BY <1>3 DEF Change, Underway
  <2>3. PICK m : m = f.message
    OBVIOUS
  <2>4. Contents(stored, m)' = Contents(store, m)
    BY <1>1, SameSettings DEF Contents
  <2>5. CASE f.pc \in {"idle", "answered"}
    <3>1. q = [f EXCEPT !.saw = f.saw \cup {}]
      BY <2>1, <2>2, <2>5 DEF FlightOK, IsFlight
    <3> QED
      BY <1>1, <1>6, <2>1, <2>5, <3>1, FlightGoesOn
  <2>6. CASE f.pc \notin {"idle", "answered"}
    <3>1. PICK more : more = Contents(store, m)
      OBVIOUS
    <3>2. q = [f EXCEPT !.saw = f.saw \cup more]
      BY <2>2, <2>3, <2>6, <3>1
    <3>3. Contents(stored, f.message)' \subseteq f.saw \cup more
      BY <2>3, <2>4, <3>1
    <3> QED
      BY <1>1, <1>6, <2>1, <2>6, <3>2, <3>3, FlightGoesOn
  <2> QED
    BY <2>5, <2>6
<1>4. ASSUME NEW d \in Senders, NEW q, q = flight'[d] PROVE FlightOK(q)'
  BY <1>2, <1>3, <1>4
<1>5. flight' = [d \in Senders |-> flight'[d]]
  BY DEF Change
<1> QED
  BY <1>1, <1>4, <1>5, <1>6 DEF GatewayInv

\* A body is committed to an object of the tenant: that of the message, or that
\* of the upload the message is about.
LEMMA CommitBodyKeeps ==
  ASSUME GatewayInv, NEW c \in Senders, NEW f, f = flight[c], NEW m, m = f.message, NEW o,
         \/ f.pc = "storing" /\ o = Target(m)
         \/ f.pc = "publishing" /\ o = f.object,
         CommitBody(c, o), UNCHANGED uploads
  PROVE  GatewayInv'
<1> DEFINE store == [x \in DOMAIN stored \cup {o} |-> IF x = o THEN m.body ELSE stored[x]]
           h == [f EXCEPT !.pc = "committed"]
<1>1. PICK g : g = [Touching(h, o) EXCEPT !.saw = Touching(h, o).saw \cup Contents(store, Touching(h, o).message)]
  OBVIOUS
<1>2. FlightOK(f) /\ f.touched = {} /\ Route(m) \in {"put", "complete"}
      /\ (f.pc = "publishing" => Route(m) = "complete") /\ (f.pc = "storing" => Route(m) = "put")
  BY DEF GatewayInv, FlightOK, RoutedOK
<1>3. /\ m \in Messages /\ settings \in Settings /\ Route(m) = Handler(m)
      /\ ~Reserved(Unescape(m.path)) /\ Target(m) \in Asked(m) /\ Target(m).tenant \in authenticate(m)
      /\ \A a \in Asked(m) : HostsApart /\ AboutAnObject(m) =>
              a = Target(m) /\ Handler(m) \in {"put", "get", "range", "delete"}
  BY <1>2, InHandler DEF ObjectHandlers
<1>4. Change(c, o, store, h) /\ settings' = settings /\ stored' = store /\ draining' = draining
  BY DEF CommitBody, Change
<1>5. /\ IsFlight(g) /\ g.pc = "committed" /\ g.message = m /\ g.touched = {o}
      /\ g.saw = f.saw \cup Contents(store, m)
  <2>1. IsFlight(f)
    BY <1>2 DEF FlightOK
  <2> HIDE DEF store
  <2>2. IsFlight(h) /\ h.pc = "committed" /\ h.message = m /\ h.touched = {} /\ h.saw = f.saw
    BY <1>2, <2>1 DEF IsFlight
  <2> HIDE DEF h
  <2>3. PICK t : t = Touching(h, o)
    OBVIOUS
  <2>4. IsFlight(t) /\ t.pc = "committed" /\ t.message = m /\ t.touched = {o} /\ t.saw = f.saw
    BY <2>2, <2>3 DEF Touching, IsFlight
  <2> QED
    BY <1>1, <2>3, <2>4 DEF IsFlight
<1>6. ASSUME NEW a \in Asked(m), HostsApart, AboutAnObject(m) PROVE a = o /\ m.body \in g.saw
  <2>1. o = Target(m)
    BY <1>2, <1>3, <1>6
  <2>2. m.body \in Contents(store, m)
    <3>1. o \in Asked(m) /\ (IF o \in DOMAIN store THEN store[o] ELSE NoContent) = m.body
      BY <1>3, <2>1
    <3> HIDE DEF store
    <3> QED
      BY <3>1 DEF Contents
  <2> QED
    BY <1>3, <1>5, <1>6, <2>1, <2>2
<1>7. /\ o.tenant \in authenticate(m)
      /\ IF Handler(m) = "complete" THEN o \in BegunFor(m.query) ELSE o \in Asked(m)
  <2>1. CASE f.pc = "storing"
    BY <1>2, <1>3, <2>1
  <2>2. CASE f.pc = "publishing"
    BY <1>2, <1>3, <2>2 DEF FlightOK
  <2> QED
    BY <2>1, <2>2
<1>8. authenticate(m)' = authenticate(m) /\ Asked(m)' = Asked(m) /\ Route(m)' = Route(m)
  BY <1>4, SameSettings
<1>9. RoutedOK(g)'
  BY <1>2, <1>5, <1>8 DEF RoutedOK
<1>10. TouchesWhatItAsks(g)'
  <2>1. BegunFor(m.query)' = BegunFor(m.query)
    <3>1. UploadsStay /\ uploads' = uploads
      BY DEF UploadsStay
    <3>2. \A u : Asked(uploads[u].message)' = Asked(uploads[u].message)
      BY <1>4, <3>1, SameSettings
    <3> QED
      BY <3>1, <3>2 DEF BegunFor
  <2>2. Handler(m)' = Handler(m) /\ Reserved(Unescape(m.path))' = Reserved(Unescape(m.path))
    BY DEF Handler, Reserved, HasUploadId
  <2> QED
    BY <1>3, <1>5, <1>7, <1>8, <2>1, <2>2 DEF TouchesWhatItAsks
<1>11. HasStored(g)'
  BY <1>5, <1>6, <1>8 DEF HasStored, AboutAnObject, Reserved, HostsApart
<1>12. Contents(stored, m)' \subseteq g.saw
  BY <1>4, <1>5, <1>8 DEF Contents
<1>13. FlightOK(g)'
  BY <1>3, <1>5, <1>9, <1>10, <1>11, <1>12 DEF FlightOK, IsFlight
<1> HIDE DEF store, h
<1> QED
  BY <1>1, <1>4, <1>13, ChangeKeeps DEF Underway

\* A request about an upload is about no object, as is the one that begins it.
LEMMA AboutAnUpload ==
  ASSUME GatewayInv, NEW c \in Senders, NEW f, f = flight[c],
         f.pc \in {"assembling", "publishing", "cleaning", "creating", "receiving", "abort"}
  PROVE  ~AboutAnObject(f.message) /\ f.pc # "idle"
<1>1. FlightOK(f)
  BY DEF GatewayInv
<1>2. Route(f.message) \in {"complete", "initiate", "part", "abort"}
  BY <1>1 DEF FlightOK, RoutedOK
<1>3. Handler(f.message) \in {"complete", "initiate", "part", "abort"}
  <2>1. f.message \in Messages
    BY <1>1 DEF FlightOK
  <2> QED
    BY <1>2, <2>1, RoutedToAnObject DEF ObjectHandlers, GatewayInv
<1> QED
  BY <1>3, MethodOf DEF AboutAnObject, HasUploadId

\* PUT of an object.
LEMMA putObjectKeeps == ASSUME GatewayInv, NEW c \in Senders, putObject(c) PROVE GatewayInv'
<1>1. PICK f, m : f = flight[c] /\ m = f.message
  OBVIOUS
<1>2. f.pc = "storing"
  BY <1>1 DEF putObject
<1>3. FlightOK(f) /\ Route(m) = "put" /\ f.touched = {}
  BY <1>1, <1>2 DEF GatewayInv, FlightOK, RoutedOK
<1>4. CASE m.length = "longer"
  <2>1. Reply(c, "refused")
    BY <1>1, <1>4 DEF putObject
  <2>2. Route(m) = Handler(m)
    BY <1>1, <1>2, <1>3, InHandler DEF ObjectHandlers
  <2>3. m.method = "PUT" /\ m.length # "fits" /\ f.pc # "idle"
    BY <1>2, <1>3, <1>4, <2>2, MethodOf
  <2> QED
    BY <1>1, <1>3, <2>1, <2>3, ReplyKeeps
<1>5. CASE m.length # "longer"
  <2>1. PICK o : o = Target(m)
    OBVIOUS
  <2>2. CommitBody(c, o) /\ UNCHANGED uploads
    BY <1>1, <1>5, <2>1 DEF putObject
  <2> QED
    BY <1>1, <1>2, <2>1, <2>2, CommitBodyKeeps
<1> QED
  BY <1>4, <1>5

\* The object of an upload in progress is the one its first message asked for,
\* of the tenant of the message.
LEMMA UploadWasBegun ==
  ASSUME UploadsOK, NEW f, NEW o \in UploadOf(f)
  PROVE  o \in BegunFor(f.message.query) /\ o.tenant \in authenticate(f.message)
BY DEF UploadOf, UploadsOK, BegunFor

\* The session of a completed upload is looked up.
LEMMA completeMultipartKeeps ==
  ASSUME GatewayInv, NEW c \in Senders, completeMultipart(c) PROVE GatewayInv'
<1>1. PICK f, m : f = flight[c] /\ m = f.message
  OBVIOUS
<1>2. f.pc = "assembling" /\ FlightOK(f)
  BY <1>1 DEF completeMultipart, GatewayInv
<1>3. ~AboutAnObject(m) /\ f.pc # "idle"
  BY <1>1, <1>2, AboutAnUpload
<1>4. CASE Reply(c, "notfound") \/ Reply(c, "refused")
  BY <1>1, <1>3, <1>4, ReplyKeeps
<1>5. ASSUME NEW o \in UploadOf(f), NEW g, g = [f EXCEPT !.pc = "publishing", !.object = o],
             flight' = [flight EXCEPT ![c] = g], UNCHANGED <<settings, draining, stored, uploads>>
      PROVE  GatewayInv'
  <2>1. /\ IsFlight(g) /\ g.pc = "publishing" /\ g.message = m /\ g.object = o
        /\ g.saw = f.saw /\ g.touched = f.touched
    BY <1>1, <1>2, <1>5 DEF FlightOK, IsFlight
  <2>2. o \in BegunFor(m.query) /\ o.tenant \in authenticate(m)
    BY <1>1, <1>5, UploadWasBegun DEF GatewayInv
  <2>3. RoutedOK(g) /\ TouchesWhatItAsks(g)
    BY <1>1, <1>2, <2>1 DEF FlightOK, RoutedOK, TouchesWhatItAsks
  <2>4. FlightOK(g)
    BY <1>1, <1>2, <2>1, <2>2, <2>3 DEF FlightOK
  <2> QED
    BY <1>5, <2>4, OneFlightMoves
<1> QED
  BY <1>1, <1>4, <1>5 DEF completeMultipart

\* The commit of a completed upload.
LEMMA PutAssembledKeeps ==
  ASSUME GatewayInv, NEW c \in Senders, PutAssembled(c) PROVE GatewayInv'
<1>1. PICK f, m, o : f = flight[c] /\ m = f.message /\ o = f.object
  OBVIOUS
<1>2. f.pc = "publishing" /\ CommitBody(c, o) /\ UNCHANGED uploads
  BY <1>1 DEF PutAssembled
<1> QED
  BY <1>1, <1>2, CommitBodyKeeps

\* The object is read back after its commit.
LEMMA RereadKeeps == ASSUME GatewayInv, NEW c \in Senders, Reread(c) PROVE GatewayInv'
<1>1. PICK f, m : f = flight[c] /\ m = f.message
  OBVIOUS
<1>2. f.pc = "committed" /\ FlightOK(f) /\ Route(m) \in {"put", "complete"} /\ HasStored(f)
      /\ m \in Messages
  BY <1>1 DEF Reread, GatewayInv, FlightOK, RoutedOK
<1>3. Route(m) = Handler(m)
      /\ \A o \in Asked(m) : HostsApart /\ AboutAnObject(m) =>
           o = Target(m) /\ Handler(m) \in {"put", "get", "range", "delete"}
  BY <1>1, <1>2, InHandler DEF ObjectHandlers
<1>4. CASE Reply(c, "failed")
  BY <1>1, <1>2, <1>4, ReplyKeeps
<1>5. CASE Reply(c, "ok")
  <2>1. PICK g : g = Answered(f, "ok")
    OBVIOUS
  <2>2. /\ IsFlight(g) /\ g.pc = "answered" /\ g.message = m /\ g.answer = "ok"
        /\ g.saw = f.saw /\ g.touched = f.touched
    BY <1>1, <1>2, <2>1 DEF FlightOK, IsFlight, Answered
  <2>3. HasAnswered(g)
    <3> SUFFICES ASSUME HostsApart, AboutAnObject(m), NEW o \in Asked(m) PROVE Explained(g, o, draining)
      BY <2>2, ExplainedAnswers DEF HasAnswered
    <3>1. m.method = "PUT" /\ m.body # NoContent
      BY <1>2, <1>3, MethodOf, MessagesAssumption
    <3>2. o \in g.touched /\ m.body \in g.saw
      BY <1>1, <1>2, <2>2 DEF HasStored
    <3> QED
      BY <2>2, <3>1, <3>2 DEF Explained, Result
  <2>4. RoutedOK(g) /\ TouchesWhatItAsks(g)
    BY <1>1, <1>2, <2>2 DEF FlightOK, RoutedOK, TouchesWhatItAsks
  <2>5. FlightOK(g)
    BY <1>2, <2>2, <2>3, <2>4 DEF FlightOK
  <2>6. flight' = [flight EXCEPT ![c] = g] /\ UNCHANGED <<settings, draining, stored, uploads>>
    BY <1>1, <1>5, <2>1 DEF Reply
  <2> QED
    BY <2>5, <2>6, OneFlightMoves
<1>6. CASE /\ HasUploadId(m) /\ flight' = [flight EXCEPT ![c].pc = "cleaning"]
           /\ UNCHANGED <<settings, draining, stored, uploads>>
  <2>1. Route(m) = "complete"
    BY <1>2, <1>3, <1>6, MethodOf
  <2>2. PICK pc : pc = "cleaning"
    OBVIOUS
  <2>3. \A g : g.pc = pc /\ g.message = f.message => RoutedOK(g)
    BY <1>1, <2>1, <2>2 DEF RoutedOK
  <2>4. flight' = [flight EXCEPT ![c].pc = pc] /\ UNCHANGED <<settings, draining, stored, uploads>>
    BY <1>6, <2>2
  <2>5. f.pc \notin {"idle", "answered"} /\ pc \notin {"idle", "answered", "committed", "publishing"}
    BY <1>2, <2>2
  <2> QED
    BY <1>1, <2>2, <2>3, <2>4, <2>5, HandlerGoesOn
<1> QED
  BY <1>1, <1>4, <1>5, <1>6 DEF Reread

\* PUT of a part.
LEMMA uploadPartKeeps == ASSUME GatewayInv, NEW c \in Senders, uploadPart(c) PROVE GatewayInv'
<1>1. PICK f : f = flight[c]
  OBVIOUS
<1>2. ~AboutAnObject(f.message) /\ f.pc # "idle"
  BY <1>1, AboutAnUpload DEF uploadPart
<1>3. PICK answer : Reply(c, answer)
  BY DEF uploadPart
<1> QED
  BY <1>1, <1>2, <1>3, ReplyKeeps

\* A handler fails.
LEMMA HandlerFailsKeeps == ASSUME GatewayInv, NEW c \in Senders, HandlerFails(c) PROVE GatewayInv'
<1>1. PICK f : f = flight[c]
  OBVIOUS
<1>2. f.pc # "idle" /\ Reply(c, "failed")
  BY <1>1 DEF HandlerFails
<1> QED
  BY <1>1, <1>2, ReplyKeeps

\* A request about an upload that has done what it is about is answered.
LEMMA UploadAnswered ==
  ASSUME GatewayInv, NEW c \in Senders, NEW f, f = flight[c],
         f.pc \in {"cleaning", "creating", "abort"}, NEW g, IsFlight(g), g.pc = "answered",
         g.message = f.message, TouchesWhatItAsks(g),
         flight' = [flight EXCEPT ![c] = g], UNCHANGED <<settings, draining, stored>>,
         UploadsOK', UploadsStay
  PROVE  GatewayInv'
<1>1. HasAnswered(g)
  BY AboutAnUpload DEF HasAnswered
<1>2. RoutedOK(g)
  BY DEF RoutedOK
<1>3. FlightOK(g)
  BY <1>1, <1>2 DEF FlightOK, GatewayInv
<1> QED
  BY <1>3, UploadAndFlightMove

\* The upload of a completed or aborted object is removed.
LEMMA RemoveUploadKeeps == ASSUME GatewayInv, NEW c \in Senders, RemoveUpload(c) PROVE GatewayInv'
<1>1. PICK f : f = flight[c]
  OBVIOUS
<1>2. f.pc \in {"abort", "cleaning"} /\ FlightOK(f)
  BY <1>1 DEF RemoveUpload, GatewayInv
<1>3. CASE UploadOf(f) = {}
  <2>1. PICK answer : Reply(c, answer)
    BY <1>1, <1>3 DEF RemoveUpload
  <2> QED
    BY <1>1, <1>2, <2>1, ReplyKeeps, AboutAnUpload
<1>4. CASE UploadOf(f) # {}
  <2>1. PICK g : g = Answered(f, "ok")
    OBVIOUS
  <2>2. IsFlight(g) /\ g.pc = "answered" /\ g.message = f.message /\ g.touched = f.touched
    BY <1>2, <2>1 DEF FlightOK, IsFlight, Answered
  <2>3. TouchesWhatItAsks(g)
    BY <1>2, <2>2 DEF FlightOK, TouchesWhatItAsks
  <2>4. flight' = [flight EXCEPT ![c] = g] /\ UNCHANGED <<settings, draining, stored>>
    BY <1>1, <1>4, <2>1 DEF RemoveUpload
  <2>5. UploadsOK' /\ UploadsStay
    <3>1. PICK q : uploads' = [uploads EXCEPT ![q].active = FALSE]
      BY <1>1, <1>4 DEF RemoveUpload
    <3>2. DOMAIN uploads' = DOMAIN uploads
      BY <3>1
    <3>3. ASSUME NEW id \in DOMAIN uploads
          PROVE  uploads'[id].object = uploads[id].object /\ uploads'[id].message = uploads[id].message
      BY <3>1, <3>3
    <3>4. ASSUME NEW id \in DOMAIN uploads PROVE (uploads[id].object \in Asked(uploads[id].message))'
      <4>1. PICK m : m = uploads[id].message /\ uploads[id].object \in Asked(m)
        BY <3>4 DEF UploadsOK, GatewayInv
      <4>2. uploads[id].object \in Asked(m)'
        BY <2>4, <4>1, SameSettings
      <4> QED
        BY <3>3, <4>1, <4>2
    <3> QED
      BY <3>2, <3>3, <3>4 DEF UploadsOK, UploadsStay
  <2> QED
    BY <1>1, <1>2, <2>2, <2>3, <2>4, <2>5, UploadAnswered
<1> QED
  BY <1>3, <1>4

\* POST ?uploads.
LEMMA initiateMultipartKeeps ==
  ASSUME GatewayInv, NEW c \in Senders, initiateMultipart(c) PROVE GatewayInv'
<1>1. PICK f, m, o : f = flight[c] /\ m = f.message /\ o = Target(m)
  OBVIOUS
<1>2. f.pc = "creating" /\ FlightOK(f) /\ f.touched = {} /\ Route(m) = "initiate"
  BY <1>1 DEF initiateMultipart, GatewayInv, FlightOK, RoutedOK
<1>3. /\ ~Reserved(Unescape(m.path)) /\ o \in Asked(m) /\ o.tenant \in authenticate(m)
      /\ Handler(m) = "initiate"
  BY <1>1, <1>2, InHandler DEF ObjectHandlers
<1>4. CASE Reply(c, "refused")
  BY <1>1, <1>2, <1>4, ReplyKeeps, AboutAnUpload
<1>5. ASSUME NEW id \in UploadIds \ DOMAIN uploads, NEW g, g = Answered(Touching(f, o), "ok"),
             uploads' = [u \in DOMAIN uploads \cup {id} |-> IF u = id THEN Upload(o, m) ELSE uploads[u]],
             flight' = [flight EXCEPT ![c] = g], UNCHANGED <<settings, draining, stored>>
      PROVE  GatewayInv'
  <2>1. IsFlight(g) /\ g.pc = "answered" /\ g.message = m /\ g.touched = {o}
    BY <1>1, <1>2, <1>5 DEF FlightOK, IsFlight, Answered, Touching
  <2>2. TouchesWhatItAsks(g)
    BY <1>3, <2>1 DEF TouchesWhatItAsks
  <2>3. DOMAIN uploads' = DOMAIN uploads \cup {id} /\ UploadsStay
    BY <1>5 DEF UploadsStay
  <2>4. UploadsOK'
    <3>1. ASSUME NEW u \in DOMAIN uploads' PROVE (uploads[u].object \in Asked(uploads[u].message))'
      <4>1. PICK up, n : up = uploads'[u] /\ n = up.message
        OBVIOUS
      <4>2. up.object \in Asked(n)
        <5>1. CASE u = id
          BY <1>3, <1>5, <2>3, <4>1, <5>1 DEF Upload
        <5>2. CASE u # id
          BY <1>5, <2>3, <3>1, <4>1, <5>2 DEF UploadsOK, GatewayInv
        <5> QED
          BY <5>1, <5>2
      <4>3. up.object \in Asked(n)'
        BY <1>5, <4>2, SameSettings
      <4> QED
        BY <4>1, <4>3
    <3> QED
      BY <3>1 DEF UploadsOK
  <2> QED
    BY <1>1, <1>2, <1>5, <2>1, <2>2, <2>3, <2>4, UploadAnswered
<1> QED
  BY <1>1, <1>4, <1>5 DEF initiateMultipart

\* A lookup answers what is stored, which the request has seen.
LEMMA LookupKeeps ==
  ASSUME GatewayInv, NEW c \in Senders, NEW f, f = flight[c], NEW m, m = f.message, NEW o,
         NEW absent \in {"notfound", "failed"}, NEW found \in {"ok", "refused"},
         Lookup(c, o, absent, found),
         f.pc \notin {"idle", "arrived", "answered", "committed", "cleaning"}, f.touched \subseteq {o},
         o.tenant \in authenticate(m),
         \/ Reserved(Unescape(m.path)) /\ <<o.bucket, o.key>> = m.about
         \/ /\ o = Target(m) /\ Route(m) \in {"get", "range"} /\ f.pc # "delta"
            /\ found = "refused" => m.range = "bad"
  PROVE  GatewayInv'
<1>1. PICK g : g = LET h == [Touching(f, o) EXCEPT !.content = ContentOf(o)]
                   IN  Answered(h, IF h.content = NoContent THEN absent ELSE found)
  OBVIOUS
<1>2. FlightOK(f) /\ m \in Messages /\ Contents(stored, m) \subseteq f.saw
  BY DEF GatewayInv, FlightOK
<1>3. /\ IsFlight(g) /\ g.pc = "answered" /\ g.message = m /\ g.touched = {o}
      /\ g.saw = f.saw /\ g.content = ContentOf(o)
      /\ g.answer = IF ContentOf(o) = NoContent THEN absent ELSE found
  <2>1. PICK h : h = [Touching(f, o) EXCEPT !.content = ContentOf(o)]
    OBVIOUS
  <2>2. IsFlight(h) /\ h.message = m /\ h.touched = {o} /\ h.saw = f.saw /\ h.content = ContentOf(o)
    BY <1>2, <2>1 DEF FlightOK, IsFlight, Touching
  <2>3. g = Answered(h, IF h.content = NoContent THEN absent ELSE found)
    BY <1>1, <2>1
  <2> QED
    BY <2>2, <2>3 DEF IsFlight, Answered
<1>4. TouchesWhatItAsks(g)
  <2>1. CASE Reserved(Unescape(m.path)) /\ <<o.bucket, o.key>> = m.about
    BY <1>3, <2>1 DEF TouchesWhatItAsks
  <2>2. CASE o = Target(m) /\ Route(m) \in {"get", "range"} /\ f.pc # "delta"
    <3>1. ~Reserved(Unescape(m.path)) /\ o \in Asked(m) /\ Handler(m) # "complete"
      BY <1>2, <2>2, InHandler DEF ObjectHandlers
    <3> QED
      BY <1>3, <3>1 DEF TouchesWhatItAsks
  <2> QED
    BY <2>1, <2>2
<1>5. HasAnswered(g)
  <2> SUFFICES ASSUME HostsApart, AboutAnObject(m), NEW a \in Asked(m) PROVE Explained(g, a, draining)
    BY <1>3, ExplainedAnswers DEF HasAnswered
  <2>1. /\ o = Target(m) /\ Route(m) \in {"get", "range"} /\ f.pc # "delta"
        /\ found = "refused" => m.range = "bad"
    BY DEF AboutAnObject
  <2>2. a = o /\ Route(m) = Handler(m)
    BY <1>2, <2>1, InHandler DEF ObjectHandlers
  <2>3. m.method \in {"GET", "HEAD"}
    BY <2>1, <2>2, MethodOf
  <2>4. ContentOf(o) \in g.saw
    BY <1>2, <1>3, <2>2 DEF Contents, ContentOf
  <2> QED
    BY <1>3, <2>1, <2>2, <2>3, <2>4 DEF Explained, Result
<1>6. RoutedOK(g)
  BY <1>3 DEF RoutedOK
<1>7. FlightOK(g)
  BY <1>2, <1>3, <1>4, <1>5, <1>6 DEF FlightOK
<1>8. flight' = [flight EXCEPT ![c] = g] /\ UNCHANGED <<settings, draining, stored, uploads>>
  BY <1>1 DEF Lookup
<1> QED
  BY <1>7, <1>8, OneFlightMoves

\* GET and HEAD.
LEMMA getObjectKeeps == ASSUME GatewayInv, NEW c \in Senders, getObject(c) PROVE GatewayInv'
<1>1. PICK f, m, o : f = flight[c] /\ m = f.message /\ o = Target(m)
  OBVIOUS
<1>2. f.pc = "get" /\ Route(m) = "get" /\ f.touched = {} /\ Lookup(c, o, "notfound", "ok")
  BY <1>1 DEF getObject, GatewayInv, FlightOK, RoutedOK
<1>3. o.tenant \in authenticate(m)
  BY <1>1, <1>2, InHandler DEF ObjectHandlers
<1> QED
  BY <1>1, <1>2, <1>3, LookupKeeps

\* The row is read for a range.
LEMMA StatForRangeKeeps == ASSUME GatewayInv, NEW c \in Senders, StatForRange(c) PROVE GatewayInv'
<1>1. PICK f, m, o : f = flight[c] /\ m = f.message /\ o = Target(m)
  OBVIOUS
<1>2. f.pc = "range" /\ Route(m) = "range" /\ f.touched = {} /\ FlightOK(f) /\ m \in Messages
  BY <1>1 DEF StatForRange, GatewayInv, FlightOK, RoutedOK
<1>3. /\ o.tenant \in authenticate(m) /\ Route(m) = Handler(m)
      /\ o \in Asked(m) /\ ~Reserved(Unescape(m.path))
  BY <1>1, <1>2, InHandler DEF ObjectHandlers
<1>4. CASE m.range = "bad" /\ Lookup(c, o, "notfound", "refused")
  BY <1>1, <1>2, <1>3, <1>4, LookupKeeps
<1>5. CASE Lookup(c, o, "notfound", "ok")
  BY <1>1, <1>2, <1>3, <1>5, LookupKeeps
<1>6. ASSUME NEW g, g = [Touching(f, o) EXCEPT !.pc = "sized"], flight' = [flight EXCEPT ![c] = g],
             UNCHANGED <<settings, draining, stored, uploads>>
      PROVE  GatewayInv'
  <2>1. IsFlight(g) /\ g.pc = "sized" /\ g.message = m /\ g.saw = f.saw /\ g.touched = {o}
    BY <1>1, <1>2, <1>6 DEF FlightOK, IsFlight, Touching
  <2>2. RoutedOK(g) /\ TouchesWhatItAsks(g)
    BY <1>2, <1>3, <2>1 DEF RoutedOK, TouchesWhatItAsks
  <2>3. FlightOK(g)
    BY <1>1, <1>2, <2>1, <2>2 DEF FlightOK
  <2> QED
    BY <1>6, <2>3, OneFlightMoves
<1> QED
  BY <1>1, <1>4, <1>5, <1>6 DEF StatForRange

\* The range is opened.
LEMMA OpenRangeKeeps == ASSUME GatewayInv, NEW c \in Senders, OpenRange(c) PROVE GatewayInv'
<1>1. PICK f, m, o : f = flight[c] /\ m = f.message /\ o = Target(m)
  OBVIOUS
<1>2. f.pc = "sized" /\ Route(m) = "range" /\ Lookup(c, o, "failed", "ok") /\ f.touched \subseteq {o}
  BY <1>1 DEF OpenRange, GatewayInv, FlightOK, RoutedOK
<1>3. o.tenant \in authenticate(m)
  BY <1>1, <1>2, InHandler DEF ObjectHandlers
<1> QED
  BY <1>1, <1>2, <1>3, LookupKeeps

\* A request of the delta protocol.
LEMMA deltaRouteKeeps == ASSUME GatewayInv, NEW c \in Senders, deltaRoute(c) PROVE GatewayInv'
<1>1. PICK f, m : f = flight[c] /\ m = f.message
  OBVIOUS
<1>2. f.pc = "delta" /\ Route(m) = "delta" /\ m \in Messages /\ f.touched = {}
  BY <1>1 DEF deltaRoute, GatewayInv, FlightOK, RoutedOK
<1>3. Reserved(Unescape(m.path))
  BY <1>2, RoutedToDelta
<1>4. CASE \E answer : Reply(c, answer)
  BY <1>1, <1>2, <1>3, <1>4, ReplyKeeps DEF AboutAnObject
<1>5. ASSUME NEW t \in authenticate(m), NEW found \in {"ok", "refused"},
             NEW o, o = Object(t, m.about[1], m.about[2]), Lookup(c, o, "notfound", found)
      PROVE  GatewayInv'
  <2>1. o.tenant \in authenticate(m) /\ <<o.bucket, o.key>> = m.about
    BY <1>2, <1>5, MessagesAssumption DEF Object
  <2> QED
    BY <1>1, <1>2, <1>3, <1>5, <2>1, LookupKeeps
<1> QED
  BY <1>1, <1>4, <1>5 DEF deltaRoute

\* DELETE.
LEMMA deleteObjectKeeps == ASSUME GatewayInv, NEW c \in Senders, deleteObject(c) PROVE GatewayInv'
<1>1. PICK f, m, o : f = flight[c] /\ m = f.message /\ o = Target(m)
  OBVIOUS
<1> DEFINE store == [x \in DOMAIN stored \ {o} |-> stored[x]]
           h == Answered(f, "ok")
<1>2. f.pc = "delete" /\ Change(c, o, store, h) /\ UNCHANGED uploads
  BY <1>1 DEF deleteObject
<1>3. FlightOK(f) /\ f.touched = {} /\ Route(m) = "delete"
  BY <1>1, <1>2 DEF GatewayInv, FlightOK, RoutedOK
<1>4. /\ m \in Messages /\ Route(m) = Handler(m) /\ ~Reserved(Unescape(m.path))
      /\ o \in Asked(m) /\ o.tenant \in authenticate(m)
      /\ \A a \in Asked(m) : HostsApart /\ AboutAnObject(m) => a = o
  BY <1>1, <1>2, <1>3, InHandler DEF ObjectHandlers
<1>5. m.method = "DELETE"
  BY <1>3, <1>4, MethodOf
<1>6. PICK g : g = [Touching(h, o) EXCEPT !.saw = Touching(h, o).saw \cup Contents(store, Touching(h, o).message)]
  OBVIOUS
<1>7. /\ IsFlight(g) /\ g.pc = "answered" /\ g.message = m /\ g.touched = {o} /\ g.answer = "ok"
      /\ g.saw = f.saw \cup Contents(store, m)
  <2>1. IsFlight(f)
    BY <1>3 DEF FlightOK
  <2> HIDE DEF store
  <2>2. IsFlight(h) /\ h.pc = "answered" /\ h.answer = "ok" /\ h.message = m /\ h.touched = {} /\ h.saw = f.saw
    <3>1. PICK q : q = Answered(f, "ok")
      OBVIOUS
    <3>2. /\ IsFlight(q) /\ q.pc = "answered" /\ q.answer = "ok" /\ q.message = f.message
          /\ q.touched = f.touched /\ q.saw = f.saw
      BY <2>1, <3>1 DEF IsFlight, Answered
    <3>3. f.message = m /\ f.touched = {}
      BY <1>1, <1>3
    <3> QED
      BY <3>1, <3>2, <3>3
  <2> HIDE DEF h
  <2>3. PICK t : t = Touching(h, o)
    OBVIOUS
  <2>4. /\ IsFlight(t) /\ t.pc = "answered" /\ t.answer = "ok" /\ t.message = m
        /\ t.touched = {o} /\ t.saw = f.saw
    BY <2>2, <2>3 DEF Touching, IsFlight
  <2> QED
    BY <1>6, <2>3, <2>4 DEF IsFlight
<1>8. NoContent \in g.saw
  <2>1. (IF o \in DOMAIN store THEN store[o] ELSE NoContent) = NoContent
    OBVIOUS
  <2> HIDE DEF store
  <2> QED
    BY <1>4, <1>7, <2>1 DEF Contents
<1>9. settings' = settings /\ stored' = store /\ draining' = draining
  BY <1>2 DEF Change
<1>10. authenticate(m)' = authenticate(m) /\ Asked(m)' = Asked(m) /\ Route(m)' = Route(m)
  BY <1>9, SameSettings
<1>11. TouchesWhatItAsks(g)'
  <2>1. Handler(m)' = Handler(m) /\ Reserved(Unescape(m.path))' = Reserved(Unescape(m.path))
    BY DEF Handler, Reserved, HasUploadId
  <2> QED
    BY <1>3, <1>4, <1>7, <1>10, <2>1 DEF TouchesWhatItAsks
<1>12. HasAnswered(g)'
  <2> SUFFICES ASSUME HostsApart, AboutAnObject(m), NEW a \in Asked(m) PROVE Explained(g, a, draining')
    <3>1. \A a \in Asked(m)' : a \in Asked(m)
      BY <1>10
    <3>2. AboutAnObject(m)' = AboutAnObject(m)
      BY DEF AboutAnObject, Reserved
    <3> QED
      BY <1>7, <3>1, <3>2, ExplainedAnswers DEF HasAnswered, HostsApart
  <2>1. a = o
    BY <1>4
  <2> QED
    BY <1>5, <1>7, <1>8, <2>1 DEF Explained, Result
<1>13. FlightOK(g)'
  BY <1>4, <1>7, <1>11, <1>12 DEF FlightOK, IsFlight, RoutedOK
<1> HIDE DEF store, h
<1> QED
  BY <1>1, <1>2, <1>6, <1>13, ChangeKeeps DEF Underway

\* Before any message.
LEMMA GatewayInitInv == GatewayInit => GatewayInv
<1> SUFFICES ASSUME GatewayInit PROVE GatewayInv
  OBVIOUS
<1>1. settings \in Settings /\ flight = [c \in Senders |-> Quiet] /\ UploadsOK
  BY DEF GatewayInit, Starts, UploadsOK
<1>2. /\ Quiet.pc = "idle" /\ Quiet.touched = {}
      /\ IsFlight(Quiet)
  BY DEF Quiet, IsFlight
<1>3. FlightOK(Quiet)
  BY <1>2 DEF FlightOK, RoutedOK, TouchesWhatItAsks
<1> QED
  BY <1>1, <1>3 DEF GatewayInv

\* Every step keeps the invariant of the gateway.
LEMMA GatewayNextInv == GatewayInv /\ [GatewayNext]_gatewayVars => GatewayInv'
<1> SUFFICES ASSUME GatewayInv, [GatewayNext]_gatewayVars PROVE GatewayInv'
  OBVIOUS
<1>1. CASE StartDrain
  BY <1>1, StartDrainKeeps
<1>2. ASSUME NEW c \in Senders, \E m \in Messages : Send(c, m) PROVE GatewayInv'
  BY <1>2, SendKeeps
<1>3. ASSUME NEW c \in Senders, serveHTTP(c) \/ beginUpload(c) \/ HandlerFails(c) PROVE GatewayInv'
  BY <1>3, serveHTTPKeeps, beginUploadKeeps, HandlerFailsKeeps
<1>4. ASSUME NEW c \in Senders, putObject(c) \/ completeMultipart(c) \/ Reread(c) PROVE GatewayInv'
  BY <1>4, putObjectKeeps, completeMultipartKeeps, RereadKeeps
<1>9. ASSUME NEW c \in Senders, PutAssembled(c) PROVE GatewayInv'
  BY <1>9, PutAssembledKeeps
<1>5. ASSUME NEW c \in Senders, initiateMultipart(c) \/ uploadPart(c) \/ RemoveUpload(c) PROVE GatewayInv'
  BY <1>5, initiateMultipartKeeps, uploadPartKeeps, RemoveUploadKeeps
<1>6. ASSUME NEW c \in Senders, getObject(c) \/ StatForRange(c) \/ OpenRange(c) PROVE GatewayInv'
  BY <1>6, getObjectKeeps, StatForRangeKeeps, OpenRangeKeeps
<1>7. ASSUME NEW c \in Senders, deltaRoute(c) \/ deleteObject(c) PROVE GatewayInv'
  BY <1>7, deltaRouteKeeps, deleteObjectKeeps
<1>8. CASE UNCHANGED gatewayVars
  <2>1. UNCHANGED <<settings, stored, flight, draining, uploads>>
    BY <1>8 DEF gatewayVars
  <2>4. UploadsOK' /\ UploadsStay
    BY <2>1, SameUploadsOK DEF GatewayInv
  <2>2. ASSUME NEW f, FlightOK(f) PROVE FlightOK(f)'
    <3>1. f = [f EXCEPT !.saw = f.saw \cup {}]
      BY <2>2 DEF FlightOK, IsFlight
    <3>2. f.pc \notin {"idle", "answered"} => Contents(stored, f.message)' \subseteq f.saw \cup {}
      BY <2>1, <2>2, SameSettings DEF FlightOK, Contents
    <3> QED
      BY <2>1, <2>2, <2>4, <3>1, <3>2, FlightGoesOn
  <2>3. ASSUME NEW d \in Senders, NEW f, f = flight[d] PROVE FlightOK(f)'
    BY <2>2, <2>3 DEF GatewayInv
  <2> QED
    BY <2>1, <2>3, <2>4 DEF GatewayInv
<1> QED
  BY <1>1, <1>2, <1>3, <1>4, <1>5, <1>6, <1>7, <1>8, <1>9 DEF GatewayNext

\* Every request is on the way its message was routed to and has done what it
\* may have done there.
THEOREM GatewayInvariance == GatewaySpec => []GatewayInv
BY GatewayInitInv, GatewayNextInv, PTL DEF GatewaySpec

\* Whatever the configuration, a request reads and changes no object but the one
\* it names, or, when it completes an upload, the one the upload was begun for, of
\* the tenant it was authenticated for.  (serveHTTP, parseS3Target, authenticate,
\* completeMultipart.)
THEOREM RequestsTouchWhatTheyAsk ==
  GatewaySpec => [](\A c \in Senders : TouchesWhatItAsks(flight[c]))
<1>1. GatewayInv => \A c \in Senders : TouchesWhatItAsks(flight[c])
  BY DEF GatewayInv, FlightOK
<1> QED
  BY <1>1, GatewayInvariance, PTL

\* Where the configured hosts are apart, a request is also answered with what has
\* become of its object, whatever other requests did meanwhile.
THEOREM RequestsAreAnswered == ASSUME HostsApart PROVE GatewaySpec => []RequestsDoWhatTheyAsk
<1>1. GatewayInv => RequestsDoWhatTheyAsk
  BY DEF GatewayInv, FlightOK, HasAnswered, RequestsDoWhatTheyAsk
<1> QED
  BY <1>1, GatewayInvariance, PTL

-----------------------------------------------------------------------------
(* The chunker.                                                            *)

Bytes == DOMAIN Gear

(* s is what follows the first from bytes of the whole.                    *)
Follows(s, whole, from) ==
  from + Len(s) <= Len(whole) /\ s = SubSeq(whole, from + 1, from + Len(s))

\* A piece of a sequence.
LEMMA PieceOfSequence ==
  ASSUME NEW w \in Seq(Bytes), NEW a \in Nat, NEW b \in Nat, a <= b, b <= Len(w)
  PROVE  /\ SubSeq(w, a + 1, b) \in Seq(Bytes) /\ Len(SubSeq(w, a + 1, b)) = b - a
         /\ \A i \in 1 .. b - a : SubSeq(w, a + 1, b)[i] = w[a + i]
<1>1. Len(w) \in Nat
  OBVIOUS
<1>2. a + 1 \in Nat /\ b \in Nat
  OBVIOUS
<1>3. Len(SubSeq(w, a + 1, b)) = b - a
  BY <1>1
<1>4. \A i \in a + 1 .. b : w[i] \in Bytes
  BY <1>1
<1>5. SubSeq(w, a + 1, b) \in Seq(Bytes)
  BY <1>1, <1>4
<1>6. \A i \in 1 .. b - a : SubSeq(w, a + 1, b)[i] = w[a + i]
  BY <1>1
<1> QED
  BY <1>3, <1>5, <1>6

\* What follows, element by element.
LEMMA FollowsPointwise ==
  ASSUME NEW w \in Seq(Bytes), NEW s \in Seq(Bytes), NEW a \in Nat
  PROVE  Follows(s, w, a) <=> a + Len(s) <= Len(w) /\ \A i \in 1 .. Len(s) : s[i] = w[a + i]
<1>1. Len(s) \in Nat /\ Len(w) \in Nat
  OBVIOUS
<1> DEFINE t == SubSeq(w, a + 1, a + Len(s))
<1>2. CASE ~(a + Len(s) <= Len(w))
  BY <1>2 DEF Follows
<1>3. CASE a + Len(s) <= Len(w)
  <2>1. t \in Seq(Bytes) /\ Len(t) = Len(s) /\ \A i \in 1 .. Len(s) : t[i] = w[a + i]
    <3>1. PICK b : b = a + Len(s)
      OBVIOUS
    <3>2. b \in Nat /\ a <= b /\ b <= Len(w) /\ b - a = Len(s)
      BY <1>1, <1>3, <3>1
    <3> QED
      BY <3>1, <3>2, PieceOfSequence
  <2> HIDE DEF t
  <2>2. s = t <=> \A i \in 1 .. Len(s) : s[i] = w[a + i]
    <3>1. \A u, v : u \in Seq(Bytes) /\ v \in Seq(Bytes) /\ Len(u) = Len(v) /\ (\A i \in 1 .. Len(u) : u[i] = v[i]) => u = v
      OBVIOUS
    <3> QED
      BY <2>1, <3>1
  <2> QED
    BY <1>3, <2>2 DEF Follows, t
<1> QED
  BY <1>2, <1>3

\* A piece of the whole follows what is before it.
LEMMA PieceFollows ==
  ASSUME NEW w \in Seq(Bytes), NEW a \in Nat, NEW b \in Nat, a <= b, b <= Len(w),
         NEW s, s = SubSeq(w, a + 1, b)
  PROVE  s \in Seq(Bytes) /\ Len(s) = b - a /\ Follows(s, w, a)
<1>1. s \in Seq(Bytes) /\ Len(s) = b - a /\ a + (b - a) = b
  BY PieceOfSequence
<1> QED
  BY <1>1 DEF Follows

\* Two pieces, one behind the other.
LEMMA FollowsOn ==
  ASSUME NEW w \in Seq(Bytes), NEW s \in Seq(Bytes), NEW t \in Seq(Bytes), NEW a \in Nat,
         Follows(s, w, a), Follows(t, w, a + Len(s))
  PROVE  s \o t \in Seq(Bytes) /\ Len(s \o t) = Len(s) + Len(t) /\ Follows(s \o t, w, a)
<1>1. Len(s) \in Nat /\ Len(t) \in Nat /\ Len(w) \in Nat /\ a + Len(s) \in Nat
  OBVIOUS
<1>2. PICK u : u = s \o t
  OBVIOUS
<1>3. u \in Seq(Bytes) /\ Len(u) = Len(s) + Len(t)
      /\ \A i \in 1 .. Len(u) : u[i] = IF i <= Len(s) THEN s[i] ELSE t[i - Len(s)]
  BY <1>2
<1>4. a + Len(s) + Len(t) <= Len(w)
      /\ (\A i \in 1 .. Len(s) : s[i] = w[a + i])
      /\ \A i \in 1 .. Len(t) : t[i] = w[a + Len(s) + i]
  BY <1>1, FollowsPointwise
<1>5. ASSUME NEW i \in 1 .. Len(u) PROVE u[i] = w[a + i]
  <2>1. CASE i <= Len(s)
    BY <1>1, <1>3, <1>4, <2>1
  <2>2. CASE ~(i <= Len(s))
    <3>1. i - Len(s) \in 1 .. Len(t) /\ a + Len(s) + (i - Len(s)) = a + i
      BY <1>1, <1>3, <2>2
    <3> QED
      BY <1>3, <1>4, <2>2, <3>1
  <2> QED
    BY <2>1, <2>2
<1>6. a + Len(u) <= Len(w)
  BY <1>1, <1>3, <1>4
<1>7. Follows(u, w, a)
  BY <1>3, <1>5, <1>6, FollowsPointwise
<1> QED
  BY <1>2, <1>3, <1>7

(* The beginning and the rest of a piece.                                  *)
First(s, n) == SubSeq(s, 1, n)

Rest(s, n) == SubSeq(s, n + 1, Len(s))

\* The first bytes of what follows.
LEMMA FollowsAtFirst ==
  ASSUME NEW w \in Seq(Bytes), NEW s \in Seq(Bytes), NEW a \in Nat, Follows(s, w, a),
         NEW n \in Nat, n <= Len(s)
  PROVE  First(s, n) \in Seq(Bytes) /\ Len(First(s, n)) = n /\ Follows(First(s, n), w, a)
<1>0. PICK z, t : z = 0 /\ t = First(s, n)
  OBVIOUS
<1>1. Len(s) \in Nat /\ Len(w) \in Nat /\ n \in Nat /\ n <= Len(s)
      /\ a + Len(s) <= Len(w) /\ \A i \in 1 .. Len(s) : s[i] = w[a + i]
  BY FollowsPointwise
<1>2. t \in Seq(Bytes) /\ Len(t) = n /\ \A i \in 1 .. n : t[i] = s[i]
  <2>1. z \in Nat /\ n \in Nat /\ z <= n /\ n - z = n /\ \A i \in 1 .. n : z + i = i
    BY <1>0, <1>1
  <2>3. t = SubSeq(s, z + 1, n)
    BY <1>0 DEF First
  <2>2. t \in Seq(Bytes) /\ Len(t) = n - z /\ \A i \in 1 .. n - z : t[i] = s[z + i]
    BY <1>1, <2>1, <2>3, PieceOfSequence
  <2> QED
    BY <2>1, <2>2
<1>4. Follows(t, w, a)
  <2>1. a + n <= Len(w) /\ \A i \in 1 .. n : t[i] = w[a + i]
    BY <1>1, <1>2
  <2> QED
    BY <1>2, <2>1, FollowsPointwise
<1> QED
  BY <1>0, <1>2, <1>4

\* What comes after them.
LEMMA FollowsAfterwards ==
  ASSUME NEW w \in Seq(Bytes), NEW s \in Seq(Bytes), NEW a \in Nat, Follows(s, w, a),
         NEW n \in Nat, n <= Len(s)
  PROVE  /\ Rest(s, n) \in Seq(Bytes) /\ Len(Rest(s, n)) = Len(s) - n
         /\ Follows(Rest(s, n), w, a + n)
<1>0. PICK u : u = Rest(s, n)
  OBVIOUS
<1>1. Len(s) \in Nat /\ Len(w) \in Nat /\ n \in Nat /\ n <= Len(s)
      /\ a + Len(s) <= Len(w) /\ \A i \in 1 .. Len(s) : s[i] = w[a + i]
  BY FollowsPointwise
<1>3. u \in Seq(Bytes) /\ Len(u) = Len(s) - n /\ \A i \in 1 .. Len(s) - n : u[i] = s[n + i]
  BY <1>0, <1>1, PieceOfSequence DEF Rest
<1>5. Follows(u, w, a + n)
  <2>1. a + n \in Nat /\ a + n + Len(u) <= Len(w)
    <3>1. Len(u) = Len(s) - n
      BY <1>3
    <3>2. PICK x, y, z : x = Len(s) /\ y = Len(w) /\ z = Len(u)
      OBVIOUS
    <3>3. x \in Nat /\ y \in Nat /\ n \in Nat /\ a + x <= y /\ z = x - n
      BY <1>1, <3>1, <3>2
    <3>4. a + n \in Nat /\ a + n + z <= y
      BY <3>3
    <3> QED
      BY <3>2, <3>4
  <2>2. ASSUME NEW i \in 1 .. Len(u) PROVE u[i] = w[a + n + i]
    <3>1. n + i \in 1 .. Len(s) /\ a + (n + i) = a + n + i
      BY <1>1, <1>3
    <3> QED
      BY <1>1, <1>3, <3>1
  <2> QED
    BY <1>3, <2>1, <2>2, FollowsPointwise
<1> QED
  BY <1>0, <1>3, <1>5

\* A byte goes from one piece to the one before it.
LEMMA FollowsByByte ==
  ASSUME NEW w \in Seq(Bytes), NEW s \in Seq(Bytes), NEW t \in Seq(Bytes), NEW a \in Nat,
         Follows(s, w, a), Follows(t, w, a + Len(s)), t # <<>>
  PROVE  /\ Head(t) \in Bytes
         /\ Append(s, Head(t)) \in Seq(Bytes) /\ Len(Append(s, Head(t))) = Len(s) + 1
         /\ Follows(Append(s, Head(t)), w, a)
         /\ Tail(t) \in Seq(Bytes) /\ Len(Tail(t)) = Len(t) - 1 /\ Follows(Tail(t), w, a + Len(s) + 1)
<1>1. Len(s) \in Nat /\ Len(t) \in Nat \ {0} /\ Len(w) \in Nat /\ a + Len(s) \in Nat /\ a + Len(s) + 1 \in Nat
  OBVIOUS
<1>2. PICK u, v : u = Append(s, Head(t)) /\ v = Tail(t)
  OBVIOUS
<1>3. Head(t) \in Bytes /\ Head(t) = t[1]
  BY <1>1
<1>4. u \in Seq(Bytes) /\ Len(u) = Len(s) + 1 /\ u[Len(s) + 1] = t[1] /\ \A i \in 1 .. Len(s) : u[i] = s[i]
  BY <1>1, <1>2, <1>3
<1>5. v \in Seq(Bytes) /\ Len(v) = Len(t) - 1 /\ \A i \in 1 .. Len(t) - 1 : v[i] = t[i + 1]
  BY <1>1, <1>2
<1>6. a + Len(s) + Len(t) <= Len(w)
      /\ (\A i \in 1 .. Len(s) : s[i] = w[a + i])
      /\ \A i \in 1 .. Len(t) : t[i] = w[a + Len(s) + i]
  BY <1>1, FollowsPointwise
<1>7. Follows(u, w, a)
  <2>1. ASSUME NEW i \in 1 .. Len(u) PROVE u[i] = w[a + i]
    <3>1. CASE i = Len(s) + 1
      <4>1. t[1] = w[a + Len(s) + 1] /\ a + i = a + Len(s) + 1
        BY <1>1, <1>6, <3>1
      <4> QED
        BY <1>4, <3>1, <4>1
    <3>2. CASE i # Len(s) + 1
      BY <1>1, <1>4, <1>6, <3>2
    <3> QED
      BY <3>1, <3>2
  <2>2. a + Len(u) <= Len(w)
    BY <1>1, <1>4, <1>6
  <2> QED
    BY <1>4, <2>1, <2>2, FollowsPointwise
<1>8. Follows(v, w, a + Len(s) + 1)
  <2>1. a + Len(s) + 1 + Len(v) <= Len(w)
    BY <1>1, <1>5, <1>6
  <2>2. ASSUME NEW i \in 1 .. Len(v) PROVE v[i] = w[a + Len(s) + 1 + i]
    <3>1. i + 1 \in 1 .. Len(t) /\ a + Len(s) + (i + 1) = a + Len(s) + 1 + i
      BY <1>1, <1>5
    <3> QED
      BY <1>5, <1>6, <3>1
  <2> QED
    BY <1>1, <1>5, <2>1, <2>2, FollowsPointwise
<1> QED
  BY <1>2, <1>3, <1>4, <1>5, <1>7, <1>8

(* The chunks are the body from its start, up to end.                      *)
ChunkRecords == [Offset : Nat, Data : Seq(Bytes)]

EndOf(chunk) == chunk.Offset + Len(chunk.Data)

Cover(cs, body, end) ==
  /\ cs \in Seq(ChunkRecords)
  /\ \A i \in DOMAIN cs :
       /\ Follows(cs[i].Data, body, cs[i].Offset)
       /\ cs[i].Offset = IF i = 1 THEN 0 ELSE EndOf(cs[i - 1])
  /\ end = IF cs = <<>> THEN 0 ELSE EndOf(cs[Len(cs)])

\* The fields of a chunk.
LEMMA ChunkBounds ==
  ASSUME NEW chunk \in ChunkRecords
  PROVE  /\ chunk.Offset \in Nat /\ chunk.Data \in Seq(Bytes) /\ Len(chunk.Data) \in Nat
         /\ EndOf(chunk) \in Nat
<1>1. chunk.Offset \in Nat /\ chunk.Data \in Seq(Bytes)
  BY DEF ChunkRecords
<1>2. Len(chunk.Data) \in Nat
  BY <1>1
<1> QED
  BY <1>1, <1>2 DEF EndOf

\* Laid end to end, chunks that cover the body up to end are that piece of it.
LEMMA FlatChunks ==
  ASSUME NEW body \in Seq(Bytes), NEW cs, NEW end, Cover(cs, body, end)
  PROVE  /\ end \in 0 .. Len(body)
         /\ FlattenSeq([i \in DOMAIN cs |-> cs[i].Data]) = SubSeq(body, 1, end)
<1> DEFINE n == Len(cs)
           data == [i \in DOMAIN cs |-> cs[i].Data]
           F(g) == [i \in 1 .. n |-> IF i = 1 THEN data[i] ELSE g[i - 1] \o data[i]]
           flat == [i \in 1 .. n |-> SubSeq(body, 1, EndOf(cs[i]))]
<1>1. cs \in Seq(ChunkRecords) /\ n \in Nat /\ DOMAIN cs = 1 .. n /\ Len(body) \in Nat
  <2>1. cs \in Seq(ChunkRecords)
    BY DEF Cover
  <2> QED
    BY <2>1
<1>2. \A i \in 1 .. n : cs[i] \in ChunkRecords /\ Follows(cs[i].Data, body, cs[i].Offset)
        /\ cs[i].Offset = IF i = 1 THEN 0 ELSE EndOf(cs[i - 1])
  <2>1. \A i \in 1 .. n : cs[i] \in ChunkRecords
    BY <1>1
  <2> QED
    BY <1>1, <2>1 DEF Cover
<1>3. ASSUME NEW i \in 1 .. n
      PROVE  /\ EndOf(cs[i]) \in 0 .. Len(body) /\ cs[i].Offset \in Nat /\ cs[i].Data \in Seq(Bytes)
             /\ Len(SubSeq(body, 1, EndOf(cs[i]))) = EndOf(cs[i])
             /\ SubSeq(body, 1, EndOf(cs[i])) \in Seq(Bytes)
             /\ Follows(SubSeq(body, 1, EndOf(cs[i])), body, 0)
  <2>1. cs[i].Offset \in Nat /\ cs[i].Data \in Seq(Bytes) /\ EndOf(cs[i]) \in Nat
    BY <1>2, ChunkBounds
  <2>2. EndOf(cs[i]) <= Len(body)
    BY <1>2 DEF Follows, EndOf
  <2>3. PICK b, z, s : b = EndOf(cs[i]) /\ z = 0 /\ s = SubSeq(body, z + 1, b)
    OBVIOUS
  <2>4. s = SubSeq(body, 1, b)
    BY <2>3
  <2>5. z \in Nat /\ b \in Nat /\ z <= b /\ b <= Len(body) /\ b - z = b
    BY <2>1, <2>2, <2>3
  <2>6. s \in Seq(Bytes) /\ Len(s) = b - z /\ Follows(s, body, z)
    BY <2>3, <2>5, PieceFollows
  <2> QED
    BY <1>1, <2>1, <2>2, <2>3, <2>4, <2>6
<1>4. CASE n = 0
  <2>1. cs = <<>>
    BY <1>1, <1>4
  <2>2. data = <<>> /\ Len(data) = 0
    BY <1>1, <1>4
  <2>3. end = 0
    BY <2>1 DEF Cover
  <2>4. SubSeq(body, 1, 0) = <<>>
    BY <1>1
  <2> QED
    BY <1>1, <2>2, <2>3, <2>4 DEF FlattenSeq
<1>5. CASE n # 0
  <2>1. end = EndOf(cs[n]) /\ n \in 1 .. n
    BY <1>1, <1>5 DEF Cover
  <2>2. DOMAIN data = 1 .. n /\ Len(data) = n /\ \A i \in 1 .. n : data[i] = cs[i].Data
    <3>1. \A f, m : m \in Nat /\ f = [i \in 1 .. m |-> f[i]] => Len(f) = m
      OBVIOUS
    <3>2. data = [i \in 1 .. n |-> data[i]]
      BY <1>1
    <3> HIDE DEF data
    <3>3. Len(data) = n
      BY <1>1, <3>1, <3>2
    <3> QED
      BY <1>1, <3>2, <3>3 DEF data
  <2> HIDE DEF data
  <2>3. flat = F(flat)
    <3>1. ASSUME NEW i \in 1 .. n PROVE flat[i] = IF i = 1 THEN data[i] ELSE flat[i - 1] \o data[i]
      <4>1. flat[i] = SubSeq(body, 1, EndOf(cs[i]))
        OBVIOUS
      <4>2. CASE i = 1
        <5>1. cs[1].Offset = 0
          BY <1>2, <4>2
        <5>2. cs[1].Data = SubSeq(body, 1, EndOf(cs[1]))
          <6>1. PICK s : s = cs[1].Data
            OBVIOUS
          <6>2. Follows(s, body, 0) /\ EndOf(cs[1]) = 0 + Len(s) /\ s \in Seq(Bytes)
            BY <1>2, <1>3, <4>2, <5>1, <6>1 DEF EndOf
          <6>3. s = SubSeq(body, 0 + 1, 0 + Len(s)) /\ 0 + 1 = 1
            BY <6>2 DEF Follows
          <6> QED
            BY <6>1, <6>2, <6>3
        <5> QED
          BY <2>2, <4>1, <4>2, <5>2
      <4>3. CASE i # 1
        <5>1. i - 1 \in 1 .. n
          BY <1>1, <4>3
        <5>2. PICK s, t, e : /\ s = SubSeq(body, 1, EndOf(cs[i - 1])) /\ t = cs[i].Data
                             /\ e = EndOf(cs[i])
          OBVIOUS
        <5>3. s \in Seq(Bytes) /\ t \in Seq(Bytes) /\ Follows(s, body, 0) /\ Len(s) = EndOf(cs[i - 1])
          BY <1>3, <5>1, <5>2
        <5>4. Follows(t, body, 0 + Len(s)) /\ Len(s) + Len(t) = e
          <6>1. cs[i].Offset = Len(s) /\ Follows(t, body, cs[i].Offset)
            BY <1>2, <4>3, <5>2, <5>3
          <6>2. Len(s) \in Nat
            BY <5>3
          <6>3. 0 + Len(s) = Len(s)
            BY <6>2
          <6> QED
            BY <5>2, <6>1, <6>3 DEF EndOf
        <5>5. Follows(s \o t, body, 0) /\ Len(s \o t) = Len(s) + Len(t)
          <6>1. PICK z : z = 0
            OBVIOUS
          <6>2. z \in Nat /\ Follows(s, body, z) /\ Follows(t, body, z + Len(s))
            BY <5>3, <5>4, <6>1
          <6>3. Follows(s \o t, body, z) /\ Len(s \o t) = Len(s) + Len(t)
            BY <5>3, <6>2, FollowsOn
          <6> QED
            BY <6>1, <6>3
        <5>6. s \o t = SubSeq(body, 1, e)
          <6>1. PICK u : u = s \o t
            OBVIOUS
          <6>2. Follows(u, body, 0) /\ Len(u) = e
            BY <5>4, <5>5, <6>1
          <6>3. u = SubSeq(body, 0 + 1, 0 + e) /\ e \in Nat
            BY <1>3, <5>2, <6>2 DEF Follows
          <6>4. 0 + 1 = 1 /\ 0 + e = e
            BY <6>3
          <6> QED
            BY <6>1, <6>3, <6>4
        <5>7. flat[i - 1] = s
          BY <5>1, <5>2
        <5> QED
          BY <2>2, <4>1, <4>3, <5>2, <5>6, <5>7
      <4> QED
        BY <4>2, <4>3
    <3> QED
      BY <3>1
  <2>4. PICK f : f = flat
    OBVIOUS
  <2>5. f = F(f) /\ f[n] = SubSeq(body, 1, end)
    BY <2>1, <2>3, <2>4
  <2>6. PICK g : g = CHOOSE h : h = F(h)
    OBVIOUS
  <2>7. g = F(g)
    BY <2>5, <2>6
  <2>10. \A i \in 1 .. n : /\ g[i] = IF i = 1 THEN data[i] ELSE g[i - 1] \o data[i]
                           /\ f[i] = IF i = 1 THEN data[i] ELSE f[i - 1] \o data[i]
    <3>1. \A h : h = F(h) => \A i \in 1 .. n : h[i] = IF i = 1 THEN data[i] ELSE h[i - 1] \o data[i]
      OBVIOUS
    <3> HIDE DEF F
    <3> QED
      BY <2>5, <2>7, <3>1
  <2>8. g[n] = f[n]
    <3> DEFINE S == {i \in Nat : i \in 1 .. n => g[i] = f[i]}
    <3>1. 0 \in S
      OBVIOUS
    <3>2. ASSUME NEW i \in Nat, i \in S PROVE i + 1 \in S
      <4> SUFFICES ASSUME i + 1 \in 1 .. n PROVE g[i + 1] = f[i + 1]
        OBVIOUS
      <4>1. /\ g[i + 1] = IF i + 1 = 1 THEN data[i + 1] ELSE g[i + 1 - 1] \o data[i + 1]
            /\ f[i + 1] = IF i + 1 = 1 THEN data[i + 1] ELSE f[i + 1 - 1] \o data[i + 1]
        BY <2>10
      <4>2. i + 1 - 1 = i
        OBVIOUS
      <4>3. CASE i = 0
        BY <4>1, <4>3
      <4>4. CASE i # 0
        <5>1. i \in 1 .. n
          BY <1>1, <4>4
        <5>2. g[i] = f[i]
          BY <3>2, <5>1
        <5> QED
          BY <4>1, <4>2, <5>2
      <4> QED
        BY <4>3, <4>4
    <3> HIDE DEF S
    <3>3. Nat \subseteq S
      BY <3>1, <3>2, SetInduction
    <3> QED
      BY <1>1, <2>1, <3>3 DEF S
  <2>9. FlattenSeq(data) = g[n]
    BY <1>5, <2>2, <2>6 DEF FlattenSeq
  <2> QED
    BY <1>3, <2>1, <2>5, <2>8, <2>9 DEF data
<1> QED
  BY <1>4, <1>5

(* The hash of a piece, byte by byte.                                      *)
Roll(h, byte) == (2 * h + Gear[byte]) % HashSize

Hashed(h, s) == h = [i \in 0 .. Len(s) |-> IF i = 0 THEN 0 ELSE Roll(h[i - 1], s[i])]

\* Every piece has its hashes,
LEMMA HashesExist ==
  ASSUME NEW s \in Seq(Bytes)
  PROVE  \E h : Hashed(h, s)
<1> DEFINE S == {n \in Nat : \A t \in Seq(Bytes) : Len(t) = n => \E h : Hashed(h, t)}
<1>1. 0 \in S
  <2> SUFFICES ASSUME NEW t \in Seq(Bytes), Len(t) = 0 PROVE \E h : Hashed(h, t)
    OBVIOUS
  <2>1. PICK h : h = [i \in 0 .. 0 |-> 0]
    OBVIOUS
  <2>2. \A i \in 0 .. 0 : i = 0
    OBVIOUS
  <2>3. h = [i \in 0 .. Len(t) |-> IF i = 0 THEN 0 ELSE Roll(h[i - 1], t[i])]
    BY <2>1, <2>2
  <2> QED
    BY <2>3 DEF Hashed
<1>2. ASSUME NEW n \in Nat, n \in S PROVE n + 1 \in S
  <2> SUFFICES ASSUME NEW t \in Seq(Bytes), Len(t) = n + 1 PROVE \E h : Hashed(h, t)
    OBVIOUS
  <2>1. PICK u : u = SubSeq(t, 1, n)
    OBVIOUS
  <2>2. u \in Seq(Bytes) /\ Len(u) = n /\ \A i \in 1 .. n : u[i] = t[i]
    <3>1. SubSeq(t, 0 + 1, n) = u
      BY <2>1
    <3>2. 0 \in Nat /\ 0 <= n /\ n <= Len(t) /\ n - 0 = n /\ \A i \in 1 .. n : 0 + i = i
      OBVIOUS
    <3> QED
      BY <3>1, <3>2, PieceOfSequence
  <2>3. PICK g : Hashed(g, u)
    BY <1>2, <2>2
  <2>4. PICK h : h = [i \in 0 .. n + 1 |-> IF i = n + 1 THEN Roll(g[n], t[n + 1]) ELSE g[i]]
    OBVIOUS
  <2>5. \A i \in 0 .. n : g[i] = IF i = 0 THEN 0 ELSE Roll(g[i - 1], u[i])
    BY <2>2, <2>3 DEF Hashed
  <2>6. ASSUME NEW i \in 0 .. n + 1 PROVE h[i] = IF i = 0 THEN 0 ELSE Roll(h[i - 1], t[i])
    <3>1. CASE i = n + 1
      <4>1. h[i] = Roll(g[n], t[n + 1]) /\ h[n] = g[n] /\ i - 1 = n /\ i # 0
        BY <2>4, <3>1
      <4> QED
        BY <3>1, <4>1
    <3>2. CASE i # n + 1
      <4>1. i \in 0 .. n /\ h[i] = g[i]
        BY <2>4, <3>2
      <4>2. CASE i = 0
        BY <2>5, <4>1, <4>2
      <4>3. CASE i # 0
        <5>1. i \in 1 .. n /\ i - 1 \in 0 .. n + 1 /\ i - 1 # n + 1
          BY <4>1, <4>3
        <5>2. h[i - 1] = g[i - 1]
          BY <2>4, <5>1
        <5> QED
          BY <2>2, <2>5, <4>1, <4>3, <5>1, <5>2
      <4> QED
        BY <4>2, <4>3
    <3> QED
      BY <3>1, <3>2
  <2>7. h = [i \in 0 .. n + 1 |-> h[i]]
    BY <2>4
  <2>8. h = [i \in 0 .. n + 1 |-> IF i = 0 THEN 0 ELSE Roll(h[i - 1], t[i])]
    BY <2>6, <2>7
  <2> QED
    BY <2>8 DEF Hashed
<1> HIDE DEF S
<1>3. Nat \subseteq S
  BY <1>1, <1>2, SetInduction
<1>4. Len(s) \in S
  BY <1>3
<1> QED
  BY <1>4 DEF S

\* and pieces that begin alike are hashed alike.
LEMMA HashesAgree ==
  ASSUME NEW s \in Seq(Bytes), NEW t \in Seq(Bytes), NEW g, NEW h, Hashed(g, s), Hashed(h, t),
         Len(s) <= Len(t), \A i \in 1 .. Len(s) : s[i] = t[i]
  PROVE  \A n \in 0 .. Len(s) : g[n] = h[n]
<1> DEFINE S == {n \in Nat : n <= Len(s) => g[n] = h[n]}
<1>1. Len(s) \in Nat /\ Len(t) \in Nat
  OBVIOUS
<1>2. \A i \in 0 .. Len(s) : /\ g[i] = IF i = 0 THEN 0 ELSE Roll(g[i - 1], s[i])
                            /\ h[i] = IF i = 0 THEN 0 ELSE Roll(h[i - 1], t[i])
  <2>1. \A i \in 0 .. Len(s) : g[i] = IF i = 0 THEN 0 ELSE Roll(g[i - 1], s[i])
    BY DEF Hashed
  <2>2. \A i \in 0 .. Len(t) : h[i] = IF i = 0 THEN 0 ELSE Roll(h[i - 1], t[i])
    BY DEF Hashed
  <2> QED
    BY <1>1, <2>1, <2>2
<1>3. 0 \in S
  <2>1. 0 \in 0 .. Len(s)
    BY <1>1
  <2>2. g[0] = 0 /\ h[0] = 0
    BY <1>2, <2>1
  <2> QED
    BY <2>2
<1>4. ASSUME NEW n \in Nat, n \in S PROVE n + 1 \in S
  <2> SUFFICES ASSUME n + 1 <= Len(s) PROVE g[n + 1] = h[n + 1]
    OBVIOUS
  <2>1. n + 1 \in 0 .. Len(s) /\ n + 1 \in 1 .. Len(s) /\ n + 1 # 0 /\ n + 1 - 1 = n /\ n <= Len(s)
    BY <1>1
  <2>2. g[n] = h[n]
    BY <1>4, <2>1
  <2>3. g[n + 1] = Roll(g[n], s[n + 1]) /\ h[n + 1] = Roll(h[n], t[n + 1])
    BY <1>2, <2>1
  <2> QED
    BY <2>1, <2>2, <2>3
<1> HIDE DEF S
<1>5. Nat \subseteq S
  BY <1>3, <1>4, SetInduction
<1> QED
  BY <1>1, <1>5 DEF S

\* A hash is the last one of a function over the prefixes.
LEMMA HashIsLast ==
  ASSUME NEW s \in Seq(Bytes)
  PROVE  \E h : Hashed(h, s) /\ HashOf(s) = h[Len(s)]
<1>1. PICK g : Hashed(g, s)
  BY HashesExist
<1> DEFINE h == CHOOSE h : h = [i \in 0 .. Len(s) |-> IF i = 0 THEN 0 ELSE (2 * h[i - 1] + Gear[s[i]]) % HashSize]
<1>2. g = [i \in 0 .. Len(s) |-> IF i = 0 THEN 0 ELSE (2 * g[i - 1] + Gear[s[i]]) % HashSize]
  BY <1>1 DEF Hashed, Roll
<1>3. h = [i \in 0 .. Len(s) |-> IF i = 0 THEN 0 ELSE (2 * h[i - 1] + Gear[s[i]]) % HashSize]
  BY <1>2
<1>4. HashOf(s) = h[Len(s)]
  BY DEF HashOf
<1> HIDE DEF h
<1>5. Hashed(h, s)
  BY <1>3 DEF Hashed, Roll
<1> QED
  BY <1>4, <1>5

\* The hash the engine carries on is that of the chunk so far.
LEMMA HashGoesOn ==
  /\ HashOf(<<>>) = 0
  /\ \A s \in Seq(Bytes), byte \in Bytes : HashOf(Append(s, byte)) = Roll(HashOf(s), byte)
<1>1. HashOf(<<>>) = 0
  <2>1. <<>> \in Seq(Bytes) /\ Len(<<>>) = 0
    OBVIOUS
  <2>2. PICK h : Hashed(h, <<>>) /\ HashOf(<<>>) = h[0]
    BY <2>1, HashIsLast
  <2>3. \A i \in 0 .. 0 : h[i] = IF i = 0 THEN 0 ELSE Roll(h[i - 1], <<>>[i])
    BY <2>1, <2>2 DEF Hashed
  <2> QED
    BY <2>2, <2>3
<1>2. ASSUME NEW s \in Seq(Bytes), NEW byte \in Bytes PROVE HashOf(Append(s, byte)) = Roll(HashOf(s), byte)
  <2>1. PICK t : t = Append(s, byte)
    OBVIOUS
  <2>2. /\ t \in Seq(Bytes) /\ Len(s) \in Nat /\ Len(t) = Len(s) + 1 /\ t[Len(s) + 1] = byte
        /\ \A i \in 1 .. Len(s) : s[i] = t[i]
    BY <2>1
  <2>3. PICK g : Hashed(g, s) /\ HashOf(s) = g[Len(s)]
    BY HashIsLast
  <2>4. PICK h : Hashed(h, t) /\ HashOf(t) = h[Len(t)]
    BY <2>2, HashIsLast
  <2>5. g[Len(s)] = h[Len(s)]
    <3>1. Len(s) <= Len(t) /\ Len(s) \in 0 .. Len(s)
      BY <2>2
    <3> QED
      BY <2>2, <2>3, <2>4, <3>1, HashesAgree
  <2>6. \A i \in 0 .. Len(t) : h[i] = IF i = 0 THEN 0 ELSE Roll(h[i - 1], t[i])
    BY <2>4 DEF Hashed
  <2>7. h[Len(s) + 1] = Roll(h[Len(s)], byte)
    <3>1. Len(s) + 1 \in 0 .. Len(t) /\ Len(s) + 1 # 0 /\ Len(s) + 1 - 1 = Len(s)
      BY <2>2
    <3> QED
      BY <2>2, <2>6, <3>1
  <2> QED
    BY <2>1, <2>2, <2>3, <2>4, <2>5, <2>7
<1> QED
  BY <1>1, <1>2

(* A splitter's sizes are in order.  What holds of the chunks so far: one  *)
(* at most for a small body; otherwise none is empty or too large, and one *)
(* below the minimum ends the body; the built-in engine ends each, but the *)
(* last, where its bytes say so, and no earlier.                           *)
SplitterOK(sp) ==
  /\ {sp.MinSize, sp.MaxSize} \subseteq Nat \ {0} /\ sp.MinSize <= sp.MaxSize
  /\ sp.SmallFileThreshold \in Nat
  /\ sp.Engine \in {"builtin", "fastcdc"}

SmallBody(sp, body) == Len(body) <= sp.SmallFileThreshold

Cut(sp, s) == Len(s) >= sp.MaxSize \/ HashOf(s) % nextPowerOfTwo(sp.AvgSize) = 0

Uncut(sp, s, upTo) == \A n \in sp.MinSize .. upTo : ~Cut(sp, SubSeq(s, 1, n))

Sized(sp, body, cs, i) ==
  LET size == Len(cs[i].Data)
  IN  /\ size <= sp.MaxSize /\ size # 0
      /\ size < sp.MinSize => i = Len(cs) /\ EndOf(cs[i]) = Len(body)

CutByContent(sp, cs, i) ==
  /\ Uncut(sp, cs[i].Data, Len(cs[i].Data) - 1)
  /\ i < Len(cs) => Cut(sp, cs[i].Data)

ChunksOK(sp, body, cs) ==
  /\ ~SmallBody(sp, body) => \A i \in DOMAIN cs : Sized(sp, body, cs, i)
  /\ ~SmallBody(sp, body) /\ sp.Engine = "builtin" => \A i \in DOMAIN cs : CutByContent(sp, cs, i)
  /\ SmallBody(sp, body) /\ sp.SmallFileThreshold > 0 => Len(cs) <= 1

(* Where the unfinished body is.  The engines read on from the prefix.     *)
Pieces3 == {prefix, buffer, current} \subseteq Seq(Bytes)

InPrefix ==
  /\ chunks = <<>> /\ buffer = <<>> /\ current = <<>> /\ offset = 0 /\ hash = 0
  /\ Pieces3 /\ Follows(prefix, input, 0) /\ read = Len(prefix)

InEngine ==
  /\ Pieces3 /\ offset \in Nat /\ Cover(chunks, input, offset)
  /\ Follows(current, input, offset)
  /\ Follows(buffer, input, offset + Len(current))
  /\ Follows(prefix, input, offset + Len(current) + Len(buffer))
  /\ read = offset + Len(current) + Len(buffer) + Len(prefix)
  /\ splitter.SmallFileThreshold > 0 => ~SmallBody(splitter, input)

InBuiltin ==
  /\ splitter.Engine = "builtin"
  /\ hash = HashOf(current) /\ Len(current) < splitter.MaxSize
  /\ Uncut(splitter, current, Len(current))
  /\ \A i \in DOMAIN chunks : Cut(splitter, chunks[i].Data)
  /\ phase = "flush" => prefix = <<>> /\ read = Len(input)

InFastCDC == splitter.Engine = "fastcdc" /\ buffer = <<>> /\ current = <<>>

StreamInv ==
  /\ SplitterOK(splitter) /\ input \in Seq(Bytes)
  /\ phase \in {"prefix", "builtin", "fastcdc", "flush", "done", "failed"}
  /\ ChunksOK(splitter, input, chunks)
  /\ \E end : /\ Cover(chunks, input, end)
              /\ phase = "done" => end = Len(input) /\ chunks # <<>>
  /\ phase = "prefix" => InPrefix
  /\ phase \in {"builtin", "flush", "fastcdc"} => InEngine
  /\ phase \in {"builtin", "flush"} => InBuiltin
  /\ phase = "fastcdc" => InFastCDC

\* New answers sizes in order.
LEMMA NewIsInOrder == ASSUME NEW options \in OptionSets PROVE SplitterOK(New(options))
<1>1. \A x, y \in Nat \ {0} : Larger(x, y) \in Nat \ {0} /\ x <= Larger(x, y)
  BY DEF Larger
<1>2. \A x \in Int, y \in Nat \ {0} : OrDefault(x, y) \in Nat \ {0}
  BY DEF OrDefault
<1> DEFINE min == OrDefault(options.MinSize, Defaults.MinSize)
           avg == Larger(min, OrDefault(options.AvgSize, Defaults.AvgSize))
           max == Larger(avg, OrDefault(options.MaxSize, Defaults.MaxSize))
<1>3. {options.MinSize, options.AvgSize, options.MaxSize, options.SmallFileThreshold} \subseteq Int
      /\ {Defaults.MinSize, Defaults.AvgSize, Defaults.MaxSize} \subseteq Nat \ {0}
      /\ Defaults.SmallFileThreshold \in Nat
  BY SizesAssumption
<1>4. min \in Nat \ {0}
  BY <1>2, <1>3
<1>5. avg \in Nat \ {0} /\ min <= avg
  <2>1. OrDefault(options.AvgSize, Defaults.AvgSize) \in Nat \ {0}
    BY <1>2, <1>3
  <2> HIDE DEF min
  <2> QED
    BY <1>1, <1>4, <2>1
<1>6. max \in Nat \ {0} /\ avg <= max
  <2>1. OrDefault(options.MaxSize, Defaults.MaxSize) \in Nat \ {0}
    BY <1>2, <1>3
  <2> HIDE DEF avg
  <2> QED
    BY <1>1, <1>5, <2>1
<1>7. /\ New(options).MinSize = min /\ New(options).MaxSize = max
      /\ New(options).SmallFileThreshold = IF options.SmallFileThreshold < 0
                                           THEN Defaults.SmallFileThreshold ELSE options.SmallFileThreshold
      /\ New(options).Engine \in {"builtin", "fastcdc"}
  BY DEF New
<1> HIDE DEF min, avg, max
<1> QED
  BY <1>3, <1>4, <1>5, <1>6, <1>7 DEF SplitterOK

OneMore(cs, end, s) == Append(cs, [Offset |-> end, Data |-> s])

\* One more chunk behind those that cover the body so far.
LEMMA CoverGoesOn ==
  ASSUME NEW body \in Seq(Bytes), NEW cs, NEW end \in Nat, Cover(cs, body, end),
         NEW s \in Seq(Bytes), Follows(s, body, end)
  PROVE  /\ Cover(OneMore(cs, end, s), body, end + Len(s))
         /\ Len(cs) \in Nat /\ Len(OneMore(cs, end, s)) = Len(cs) + 1
         /\ DOMAIN OneMore(cs, end, s) = 1 .. Len(cs) + 1 /\ DOMAIN cs = 1 .. Len(cs)
         /\ OneMore(cs, end, s)[Len(cs) + 1] = [Offset |-> end, Data |-> s]
         /\ \A i \in 1 .. Len(cs) : OneMore(cs, end, s)[i] = cs[i]
<1>0. PICK more, chunk : more = OneMore(cs, end, s) /\ chunk = [Offset |-> end, Data |-> s]
  OBVIOUS
<1>2. more = Append(cs, chunk)
  BY <1>0 DEF OneMore
<1>1. cs \in Seq(ChunkRecords) /\ Len(cs) \in Nat /\ DOMAIN cs = 1 .. Len(cs)
  <2>1. cs \in Seq(ChunkRecords)
    BY DEF Cover
  <2> QED
    BY <2>1
<1>3. chunk \in ChunkRecords /\ chunk.Offset = end /\ chunk.Data = s /\ EndOf(chunk) = end + Len(s)
  BY <1>0 DEF ChunkRecords, EndOf
<1>4. /\ more \in Seq(ChunkRecords) /\ Len(more) = Len(cs) + 1 /\ DOMAIN more = 1 .. Len(cs) + 1
      /\ more[Len(cs) + 1] = chunk /\ \A i \in 1 .. Len(cs) : more[i] = cs[i]
  BY <1>1, <1>2, <1>3
<1>5. ASSUME NEW i \in 1 .. Len(cs) + 1
      PROVE  /\ Follows(more[i].Data, body, more[i].Offset)
             /\ more[i].Offset = IF i = 1 THEN 0 ELSE EndOf(more[i - 1])
  <2>1. CASE i = Len(cs) + 1
    <3>1. Follows(more[i].Data, body, more[i].Offset)
      BY <1>3, <1>4, <2>1
    <3>2. CASE Len(cs) = 0
      <4>1. cs = <<>> /\ i = 1
        BY <1>1, <2>1, <3>2
      <4>2. end = 0
        BY <4>1 DEF Cover
      <4> QED
        BY <1>3, <1>4, <2>1, <3>1, <4>1, <4>2
    <3>3. CASE Len(cs) # 0
      <4>1. cs # <<>> /\ i # 1 /\ i - 1 = Len(cs) /\ Len(cs) \in 1 .. Len(cs)
        BY <1>1, <2>1, <3>3
      <4>2. end = EndOf(cs[Len(cs)])
        BY <4>1 DEF Cover
      <4> QED
        BY <1>3, <1>4, <2>1, <3>1, <4>1, <4>2
    <3> QED
      BY <3>2, <3>3
  <2>2. CASE i # Len(cs) + 1
    <3>1. i \in 1 .. Len(cs) /\ (i # 1 => i - 1 \in 1 .. Len(cs))
      BY <1>1, <2>2
    <3>2. more[i] = cs[i] /\ (i # 1 => more[i - 1] = cs[i - 1])
      BY <1>4, <3>1
    <3> QED
      BY <1>1, <3>1, <3>2 DEF Cover
  <2> QED
    BY <2>1, <2>2
<1>6. more # <<>> /\ more[Len(more)] = chunk
  BY <1>1, <1>4
<1>7. Cover(more, body, end + Len(s))
  BY <1>3, <1>4, <1>5, <1>6 DEF Cover
<1> QED
  BY <1>0, <1>1, <1>4, <1>7

\* One more chunk leaves what holds of the chunks so far.
LEMMA ChunksGoOn ==
  ASSUME NEW sp, SplitterOK(sp), NEW body \in Seq(Bytes), NEW cs, NEW end \in Nat,
         Cover(cs, body, end), ChunksOK(sp, body, cs), NEW s \in Seq(Bytes), Follows(s, body, end),
         NEW more, more = OneMore(cs, end, s),
         sp.SmallFileThreshold > 0 => ~SmallBody(sp, body),
         cs = <<>> \/ end < Len(body),
         Len(s) <= sp.MaxSize, Len(s) # 0 \/ body = <<>>,
         Len(s) < sp.MinSize => end + Len(s) = Len(body),
         sp.Engine = "builtin" =>
           Uncut(sp, s, Len(s) - 1) /\ \A i \in DOMAIN cs : Cut(sp, cs[i].Data)
  PROVE  ChunksOK(sp, body, more)
<1>1. /\ Len(cs) \in Nat /\ Len(more) = Len(cs) + 1
      /\ DOMAIN more = 1 .. Len(cs) + 1 /\ DOMAIN cs = 1 .. Len(cs)
      /\ more[Len(cs) + 1] = [Offset |-> end, Data |-> s]
      /\ \A i \in 1 .. Len(cs) : more[i] = cs[i]
  BY CoverGoesOn
<1>2. more[Len(cs) + 1].Data = s /\ EndOf(more[Len(cs) + 1]) = end + Len(s)
  BY <1>1 DEF EndOf
<1>3. Len(s) \in Nat /\ Len(body) \in Nat /\ sp.MinSize \in Nat /\ sp.SmallFileThreshold \in Nat
  BY DEF SplitterOK
<1>4. ASSUME ~SmallBody(sp, body), NEW i \in DOMAIN more PROVE Sized(sp, body, more, i)
  <2>1. body # <<>>
    BY <1>3, <1>4 DEF SmallBody
  <2>2. CASE i = Len(cs) + 1
    BY <1>1, <1>2, <2>1, <2>2 DEF Sized
  <2>3. CASE i # Len(cs) + 1
    <3>1. i \in 1 .. Len(cs) /\ i \in DOMAIN cs /\ more[i] = cs[i] /\ cs # <<>>
      BY <1>1, <2>3
    <3>2. Sized(sp, body, cs, i)
      BY <1>4, <3>1 DEF ChunksOK
    <3>3. end = EndOf(cs[Len(cs)]) /\ end < Len(body)
      BY <3>1 DEF Cover
    <3>4. ~(Len(cs[i].Data) < sp.MinSize)
      <4>1. ASSUME Len(cs[i].Data) < sp.MinSize PROVE FALSE
        <5>1. i = Len(cs) /\ EndOf(cs[i]) = Len(body)
          BY <3>2, <4>1 DEF Sized
        <5> QED
          BY <1>3, <3>3, <5>1
      <4> QED
        BY <4>1
    <3> QED
      BY <3>1, <3>2, <3>4 DEF Sized
  <2> QED
    BY <2>2, <2>3
<1>5. ASSUME ~SmallBody(sp, body), sp.Engine = "builtin", NEW i \in DOMAIN more
      PROVE  CutByContent(sp, more, i)
  <2>1. CASE i = Len(cs) + 1
    <3>1. ~(i < Len(more))
      BY <1>1, <2>1
    <3> QED
      BY <1>2, <1>5, <2>1, <3>1 DEF CutByContent
  <2>2. CASE i # Len(cs) + 1
    <3>1. i \in DOMAIN cs /\ more[i] = cs[i]
      BY <1>1, <2>2
    <3>2. CutByContent(sp, cs, i) /\ Cut(sp, cs[i].Data)
      BY <1>5, <3>1 DEF ChunksOK
    <3> QED
      BY <3>1, <3>2 DEF CutByContent
  <2> QED
    BY <2>1, <2>2
<1>6. SmallBody(sp, body) /\ sp.SmallFileThreshold > 0 => Len(more) <= 1
  OBVIOUS
<1> QED
  BY <1>4, <1>5, <1>6 DEF ChunksOK

\* What the reader has left follows what it has given.
LEMMA LeftFollows ==
  ASSUME input \in Seq(Bytes), read \in Nat, read <= Len(input)
  PROVE  Left \in Seq(Bytes) /\ Len(Left) = Len(input) - read /\ Follows(Left, input, read)
<1>1. PICK w, a, b, s : w = input /\ a = read /\ b = Len(input) /\ s = Left
  OBVIOUS
<1>2. /\ w \in Seq(Bytes) /\ a \in Nat /\ b \in Nat /\ a <= b /\ b <= Len(w)
      /\ s = SubSeq(w, a + 1, b)
  BY <1>1 DEF Left
<1>3. s \in Seq(Bytes) /\ Len(s) = b - a /\ Follows(s, w, a)
  BY <1>2, PieceFollows
<1> QED
  BY <1>1, <1>3

\* A Read gives what follows the bytes read before, and EOF behind the last.
LEMMA ReadsFollow ==
  ASSUME StreamInv, read \in Nat, read <= Len(input), NEW answer \in Answers
  PROVE  /\ answer.bytes \in Seq(Bytes) /\ Follows(answer.bytes, input, read)
         /\ answer.eof \in BOOLEAN /\ (answer.eof => read + Len(answer.bytes) = Len(input))
<1>1. input \in Seq(Bytes) /\ Len(input) \in Nat
  BY DEF StreamInv
<1>2. Left \in Seq(Bytes) /\ Len(Left) = Len(input) - read /\ Follows(Left, input, read)
  BY <1>1, LeftFollows
<1>3. PICK n \in 0 .. Len(Left) : answer.bytes = SubSeq(Left, 1, n)
  BY DEF Answers
<1>4. answer.eof \in BOOLEAN /\ (answer.eof => Len(answer.bytes) = Len(Left))
  BY DEF Answers
<1>5. answer.bytes \in Seq(Bytes) /\ Len(answer.bytes) = n /\ Follows(answer.bytes, input, read)
  <2>1. Len(Left) \in Nat
    BY <1>2
  <2>2. n \in Nat /\ n <= Len(Left)
    BY <2>1
  <2>3. answer.bytes = First(Left, n)
    BY <1>3 DEF First
  <2> QED
    BY <1>1, <1>2, <2>2, <2>3, FollowsAtFirst
<1>6. answer.eof => read + Len(answer.bytes) = Len(input)
  BY <1>1, <1>2, <1>4
<1> QED
  BY <1>4, <1>5, <1>6

\* No chunks cover nothing.
LEMMA NoChunks ==
  ASSUME NEW sp, SplitterOK(sp), NEW body \in Seq(Bytes)
  PROVE  Cover(<<>>, body, 0) /\ ChunksOK(sp, body, <<>>)
<1>1. <<>> \in Seq(ChunkRecords) /\ DOMAIN <<>> = {} /\ Len(<<>>) <= 1
  OBVIOUS
<1> QED
  BY <1>1 DEF Cover, ChunksOK

\* Nothing follows at any place.
LEMMA NothingFollows ==
  ASSUME NEW body \in Seq(Bytes), NEW at \in Nat, at <= Len(body)
  PROVE  <<>> \in Seq(Bytes) /\ Len(<<>>) = 0 /\ Follows(<<>>, body, at)
<1>1. PICK s : s = <<>>
  OBVIOUS
<1>2. s \in Seq(Bytes) /\ Len(s) = 0 /\ 1 .. Len(s) = {}
  BY <1>1
<1>3. at + Len(s) <= Len(body)
  BY <1>2
<1>4. Follows(s, body, at)
  BY <1>2, <1>3, FollowsPointwise
<1> QED
  BY <1>1, <1>2, <1>4

\* A read into the prefix that decides what the body becomes.
LEMMA ReadPrefixKeeps == ASSUME StreamInv, ReadPrefix PROVE StreamInv'
<1>1. /\ SplitterOK(splitter) /\ input \in Seq(Bytes) /\ Len(input) \in Nat /\ phase = "prefix"
      /\ splitter.SmallFileThreshold \in Nat
  <2>1. SplitterOK(splitter) /\ input \in Seq(Bytes) /\ phase = "prefix"
    BY DEF StreamInv, ReadPrefix
  <2> QED
    BY <2>1 DEF SplitterOK
<1>2. /\ chunks = <<>> /\ buffer = <<>> /\ current = <<>> /\ offset = 0 /\ hash = 0
      /\ prefix \in Seq(Bytes) /\ Follows(prefix, input, 0) /\ read = Len(prefix)
  BY <1>1 DEF StreamInv, InPrefix, Pieces3
<1>3. UNCHANGED <<splitter, input, buffer, current, hash, offset>>
  BY DEF ReadPrefix
<1>4. read \in Nat /\ read <= Len(input)
  <2>1. Len(prefix) \in Nat
    BY <1>2
  <2>2. 0 + Len(prefix) <= Len(input)
    BY <1>2 DEF Follows
  <2> QED
    BY <1>1, <1>2, <2>1, <2>2
<1>5. PICK answer \in Answers :
        LET all == prefix \o answer.bytes
        IN  /\ read' = read + Len(answer.bytes)
            /\ prefix' = all
            /\ \/ Len(all) > splitter.SmallFileThreshold /\ phase' = splitter.Engine /\ UNCHANGED chunks
               \/ /\ Len(all) <= splitter.SmallFileThreshold /\ answer.eof
                  /\ phase' = "done"
                  /\ chunks' = Append(chunks, [Offset |-> 0, Data |-> all])
               \/ /\ Len(all) <= splitter.SmallFileThreshold /\ ~answer.eof
                  /\ UNCHANGED <<phase, chunks>>
  BY DEF ReadPrefix, Emit
<1>6. /\ answer.bytes \in Seq(Bytes) /\ Follows(answer.bytes, input, read)
      /\ (answer.eof => read + Len(answer.bytes) = Len(input))
  BY <1>4, ReadsFollow
<1>7. PICK all : all = prefix \o answer.bytes
  OBVIOUS
<1>8. all \in Seq(Bytes) /\ Len(all) = read' /\ Follows(all, input, 0) /\ Len(all) <= Len(input) /\ Len(all) \in Nat
  <2>1. PICK w, s, t, z : w = input /\ s = prefix /\ t = answer.bytes /\ z = 0
    OBVIOUS
  <2>2. /\ w \in Seq(Bytes) /\ s \in Seq(Bytes) /\ t \in Seq(Bytes) /\ z \in Nat
        /\ Follows(s, w, z) /\ Follows(t, w, z + Len(s))
    <3>1. z + Len(s) = read
      BY <1>2, <1>4, <2>1
    <3> QED
      BY <1>1, <1>2, <1>6, <2>1, <3>1
  <2>3. s \o t \in Seq(Bytes) /\ Len(s \o t) = Len(s) + Len(t) /\ Follows(s \o t, w, z)
    BY <2>2, FollowsOn
  <2>4. all \in Seq(Bytes) /\ Follows(all, input, 0) /\ Len(all) = read'
    BY <1>2, <1>5, <1>7, <2>1, <2>3
  <2>5. Len(all) \in Nat /\ 0 + Len(all) <= Len(input)
    BY <2>4 DEF Follows
  <2> QED
    BY <2>4, <2>5
<1>9. Cover(<<>>, input, 0) /\ ChunksOK(splitter, input, <<>>)
  BY <1>1, NoChunks
<1>10. CASE Len(all) > splitter.SmallFileThreshold /\ phase' = splitter.Engine /\ UNCHANGED chunks
  <2>1. ~SmallBody(splitter, input)
    BY <1>1, <1>8, <1>10 DEF SmallBody
  <2>2. <<>> \in Seq(Bytes) /\ Len(<<>>) = 0 /\ Follows(<<>>, input, 0)
    <3>1. PICK z : z = 0
      OBVIOUS
    <3>2. z \in Nat /\ z <= Len(input)
      BY <1>1, <3>1
    <3> QED
      BY <1>1, <3>1, <3>2, NothingFollows
  <2>3. Pieces3'
    BY <1>2, <1>3, <1>5, <1>7, <1>8, <2>2 DEF Pieces3
  <2>4. InEngine'
    <3>1. 0 + Len(<<>>) = 0 /\ 0 + Len(<<>>) + Len(<<>>) = 0
      OBVIOUS
    <3>2. /\ chunks' = <<>> /\ buffer' = <<>> /\ current' = <<>> /\ offset' = 0 /\ input' = input
          /\ splitter' = splitter /\ prefix' = all /\ read' = Len(all)
      BY <1>2, <1>3, <1>5, <1>7, <1>8, <1>10
    <3>3. read' = 0 + Len(<<>>) + Len(<<>>) + Len(prefix')
      BY <1>8, <3>1, <3>2
    <3> QED
      BY <1>8, <1>9, <2>1, <2>2, <2>3, <3>1, <3>2, <3>3 DEF InEngine
  <2>5. splitter.Engine \in {"builtin", "fastcdc"} /\ splitter.MaxSize \in Nat \ {0} /\ splitter.MinSize \in Nat \ {0}
    BY <1>1 DEF SplitterOK
  <2>6. ASSUME splitter.Engine = "builtin" PROVE InBuiltin'
    <3>1. HashOf(<<>>) = 0
      BY HashGoesOn
    <3>2. Uncut(splitter, <<>>, 0)
      <4>1. splitter.MinSize .. 0 = {}
        BY <2>5
      <4> QED
        BY <4>1 DEF Uncut
    <3>3. DOMAIN <<>> = {} /\ Len(<<>>) < splitter.MaxSize
      BY <2>5
    <3>4. phase' # "flush"
      BY <1>10, <2>6
    <3> QED
      BY <1>2, <1>3, <1>10, <2>2, <2>6, <3>1, <3>2, <3>3, <3>4 DEF InBuiltin
  <2>7. ASSUME splitter.Engine = "fastcdc" PROVE InFastCDC'
    BY <1>2, <1>3, <2>7 DEF InFastCDC
  <2> QED
    BY <1>1, <1>2, <1>3, <1>9, <1>10, <2>4, <2>5, <2>6, <2>7 DEF StreamInv
<1>11. CASE /\ Len(all) <= splitter.SmallFileThreshold /\ answer.eof
            /\ phase' = "done"
            /\ chunks' = Append(chunks, [Offset |-> 0, Data |-> all])
  <2>1. Len(all) = Len(input)
    BY <1>5, <1>6, <1>8, <1>11
  <2>2. SmallBody(splitter, input)
    BY <1>11, <2>1 DEF SmallBody
  <2>3. Cover(chunks', input, Len(input)) /\ Len(chunks') = 1 /\ chunks' # <<>>
    <3>1. PICK w, z, s, cs, more : w = input /\ z = 0 /\ s = all /\ cs = <<>> /\ more = chunks'
      OBVIOUS
    <3>2. /\ w \in Seq(Bytes) /\ z \in Nat /\ Cover(cs, w, z) /\ s \in Seq(Bytes) /\ Follows(s, w, z)
          /\ more = OneMore(cs, z, s)
      BY <1>1, <1>2, <1>8, <1>9, <1>11, <3>1 DEF OneMore
    <3>3. Cover(more, w, z + Len(s)) /\ Len(more) = Len(cs) + 1
      BY <3>2, CoverGoesOn
    <3>4. z + Len(s) = Len(input) /\ Len(cs) + 1 = 1
      BY <1>1, <2>1, <3>1
    <3> QED
      BY <3>1, <3>3, <3>4
  <2>4. ChunksOK(splitter, input, chunks')
    BY <2>2, <2>3 DEF ChunksOK
  <2> QED
    BY <1>1, <1>3, <1>11, <2>3, <2>4 DEF StreamInv
<1>12. CASE Len(all) <= splitter.SmallFileThreshold /\ ~answer.eof /\ UNCHANGED <<phase, chunks>>
  <2>1. Pieces3' /\ InPrefix'
    <3>1. prefix' = all /\ <<>> \in Seq(Bytes)
      BY <1>5, <1>7
    <3> QED
      BY <1>2, <1>3, <1>8, <1>12, <3>1 DEF Pieces3, InPrefix
  <2> QED
    BY <1>1, <1>2, <1>3, <1>9, <1>12, <2>1 DEF StreamInv
<1> QED
  BY <1>5, <1>7, <1>10, <1>11, <1>12

\* What is known while an engine cuts.
LEMMA InsideTheEngine ==
  ASSUME StreamInv, phase \in {"builtin", "flush", "fastcdc"}
  PROVE  /\ input \in Seq(Bytes) /\ Len(input) \in Nat
         /\ prefix \in Seq(Bytes) /\ Len(prefix) \in Nat
         /\ buffer \in Seq(Bytes) /\ Len(buffer) \in Nat
         /\ current \in Seq(Bytes) /\ Len(current) \in Nat
         /\ offset \in Nat /\ read \in Nat /\ read <= Len(input)
         /\ SplitterOK(splitter)
         /\ splitter.MinSize \in Nat \ {0} /\ splitter.MaxSize \in Nat \ {0}
         /\ splitter.MinSize <= splitter.MaxSize
         /\ InEngine
<1>1. SplitterOK(splitter) /\ input \in Seq(Bytes) /\ InEngine
  BY DEF StreamInv
<1>2. /\ prefix \in Seq(Bytes) /\ buffer \in Seq(Bytes) /\ current \in Seq(Bytes) /\ offset \in Nat
      /\ read = offset + Len(current) + Len(buffer) + Len(prefix)
      /\ offset + Len(current) + Len(buffer) + Len(prefix) <= Len(input)
  BY <1>1 DEF InEngine, Pieces3, Follows
<1>3. Len(input) \in Nat /\ Len(prefix) \in Nat /\ Len(buffer) \in Nat /\ Len(current) \in Nat
  BY <1>1, <1>2
<1>4. read \in Nat /\ read <= Len(input)
  <2>1. \A x, y, z, o \in Nat : o + x + y + z \in Nat
    OBVIOUS
  <2>2. offset + Len(current) + Len(buffer) + Len(prefix) \in Nat
    BY <1>2, <1>3, <2>1
  <2> QED
    BY <1>2, <2>2
<1> QED
  BY <1>1, <1>2, <1>3, <1>4 DEF SplitterOK

\* A read from the body.
LEMMA ReadBufferKeeps == ASSUME StreamInv, ReadBuffer PROVE StreamInv'
<1>1. phase = "builtin" /\ buffer = <<>> /\ UNCHANGED <<splitter, input, current, hash, offset, chunks>>
  BY DEF ReadBuffer
<1>2. /\ input \in Seq(Bytes) /\ Len(input) \in Nat
      /\ prefix \in Seq(Bytes) /\ Len(prefix) \in Nat
      /\ current \in Seq(Bytes) /\ Len(current) \in Nat
      /\ offset \in Nat /\ read \in Nat /\ read <= Len(input) /\ InEngine
  BY <1>1, InsideTheEngine
<1>3. PICK a : a = offset + Len(current)
  OBVIOUS
<1>4. a \in Nat /\ Len(buffer) = 0 /\ a + Len(buffer) = a
  BY <1>1, <1>2, <1>3
<1>5. Follows(prefix, input, a) /\ read = a + Len(prefix)
  BY <1>2, <1>3, <1>4 DEF InEngine
<1>6. /\ buffer' \in Seq(Bytes) /\ prefix' \in Seq(Bytes)
      /\ Follows(buffer', input, a) /\ Follows(prefix', input, a + Len(buffer'))
      /\ read' = a + Len(buffer') + Len(prefix')
      /\ phase' \in {"builtin", "flush"} /\ (phase' = "flush" => prefix' = <<>> /\ read' = Len(input))
  <2>1. CASE /\ UNCHANGED <<read, phase>>
             /\ \E n \in 1 .. Len(prefix) : /\ buffer' = SubSeq(prefix, 1, n)
                                            /\ prefix' = SubSeq(prefix, n + 1, Len(prefix))
    <3>1. PICK n \in 1 .. Len(prefix) : /\ buffer' = SubSeq(prefix, 1, n)
                                        /\ prefix' = SubSeq(prefix, n + 1, Len(prefix))
      BY <2>1
    <3>2. buffer' = First(prefix, n) /\ prefix' = Rest(prefix, n)
      BY <3>1 DEF First, Rest
    <3>3. n \in Nat /\ n <= Len(prefix)
      BY <1>2
    <3>4. PICK t, u : t = First(prefix, n) /\ u = Rest(prefix, n)
      OBVIOUS
    <3>5. t \in Seq(Bytes) /\ Len(t) = n /\ Follows(t, input, a)
      BY <1>2, <1>4, <1>5, <3>3, <3>4, FollowsAtFirst
    <3>6. u \in Seq(Bytes) /\ Len(u) = Len(prefix) - n /\ Follows(u, input, a + n)
      BY <1>2, <1>4, <1>5, <3>3, <3>4, FollowsAfterwards
    <3>7. a + n + (Len(prefix) - n) = read
      BY <1>2, <1>4, <1>5, <3>3
    <3> QED
      BY <1>1, <2>1, <3>2, <3>4, <3>5, <3>6, <3>7
  <2>2. CASE /\ prefix = <<>> /\ UNCHANGED prefix
             /\ \E answer \in Answers : /\ read' = read + Len(answer.bytes)
                                        /\ buffer' = answer.bytes
                                        /\ phase' = IF answer.eof THEN "flush" ELSE phase
    <3>1. PICK answer \in Answers : /\ read' = read + Len(answer.bytes)
                                    /\ buffer' = answer.bytes
                                    /\ phase' = IF answer.eof THEN "flush" ELSE phase
      BY <2>2
    <3>2. /\ answer.bytes \in Seq(Bytes) /\ Follows(answer.bytes, input, read)
          /\ (answer.eof => read + Len(answer.bytes) = Len(input))
      BY <1>2, ReadsFollow
    <3>3. read = a /\ Len(prefix) = 0
      BY <1>4, <1>5, <2>2
    <3>4. Len(buffer') \in Nat /\ a + Len(buffer') \in Nat /\ a + Len(buffer') <= Len(input)
      <4>1. Len(answer.bytes) \in Nat /\ a + Len(answer.bytes) <= Len(input)
        BY <3>2, <3>3 DEF Follows
      <4> QED
        BY <1>4, <3>1, <4>1
    <3>5. Follows(<<>>, input, a + Len(buffer'))
      <4>1. PICK e : e = a + Len(buffer')
        OBVIOUS
      <4>2. e \in Nat /\ e <= Len(input)
        BY <3>4, <4>1
      <4> QED
        BY <1>2, <4>1, <4>2, NothingFollows
    <3>6. a + Len(buffer') + 0 = a + Len(buffer')
      BY <3>4
    <3> QED
      BY <1>1, <1>2, <2>2, <3>1, <3>2, <3>3, <3>5, <3>6
  <2> QED
    BY <2>1, <2>2 DEF ReadBuffer
<1>7. InEngine'
  BY <1>1, <1>2, <1>3, <1>6 DEF InEngine, Pieces3
<1>8. InBuiltin'
  <2>1. InBuiltin
    BY <1>1 DEF StreamInv
  <2> QED
    BY <1>1, <1>6, <2>1 DEF InBuiltin
<1>9. \E end : Cover(chunks, input, end)
  BY DEF StreamInv
<1> QED
  BY <1>1, <1>2, <1>6, <1>7, <1>8, <1>9 DEF StreamInv

\* A chunk that is not to be cut after a byte goes on.
LEMMA UncutGoesOn ==
  ASSUME NEW sp, SplitterOK(sp), NEW s \in Seq(Bytes), NEW byte \in Bytes, Uncut(sp, s, Len(s))
  PROVE  /\ Uncut(sp, Append(s, byte), Len(s))
         /\ ~Cut(sp, Append(s, byte)) => Uncut(sp, Append(s, byte), Len(s) + 1)
<1>1. PICK t : t = Append(s, byte)
  OBVIOUS
<1>2. /\ Len(s) \in Nat /\ t \in Seq(Bytes) /\ Len(t) = Len(s) + 1 /\ \A i \in 1 .. Len(s) : t[i] = s[i]
      /\ sp.MinSize \in Nat \ {0}
  BY <1>1 DEF SplitterOK
<1>3. \A n \in Nat : n <= Len(s) => SubSeq(t, 1, n) = SubSeq(s, 1, n)
  <2> SUFFICES ASSUME NEW n \in Nat, n <= Len(s) PROVE SubSeq(t, 1, n) = SubSeq(s, 1, n)
    OBVIOUS
  <2>1. PICK z, u, v : z = 0 /\ u = SubSeq(t, z + 1, n) /\ v = SubSeq(s, z + 1, n)
    OBVIOUS
  <2>2. z \in Nat /\ z <= n /\ n <= Len(s) /\ n <= Len(t) /\ n - z = n /\ \A i \in 1 .. n : z + i = i
    BY <1>2, <2>1
  <2>3. u \in Seq(Bytes) /\ Len(u) = n - z /\ \A i \in 1 .. n - z : u[i] = t[z + i]
    BY <1>2, <2>1, <2>2, PieceOfSequence
  <2>4. v \in Seq(Bytes) /\ Len(v) = n - z /\ \A i \in 1 .. n - z : v[i] = s[z + i]
    BY <1>2, <2>1, <2>2, PieceOfSequence
  <2>5. Len(u) = Len(v) /\ \A i \in 1 .. Len(u) : u[i] = v[i]
    <3>1. \A i \in 1 .. n : i \in 1 .. Len(s)
      BY <1>2
    <3> QED
      BY <1>2, <2>2, <2>3, <2>4, <3>1
  <2>6. u = v
    BY <2>3, <2>4, <2>5
  <2> QED
    BY <2>1, <2>6
<1>4. \A n \in sp.MinSize .. Len(s) : ~Cut(sp, SubSeq(t, 1, n))
  <2> SUFFICES ASSUME NEW n \in sp.MinSize .. Len(s) PROVE ~Cut(sp, SubSeq(t, 1, n))
    OBVIOUS
  <2>1. n \in Nat /\ n <= Len(s)
    BY <1>2
  <2>2. SubSeq(t, 1, n) = SubSeq(s, 1, n)
    BY <1>3, <2>1
  <2> QED
    BY <2>2 DEF Uncut
<1>5. ASSUME ~Cut(sp, t), NEW n \in sp.MinSize .. Len(s) + 1 PROVE ~Cut(sp, SubSeq(t, 1, n))
  <2>1. CASE n = Len(s) + 1
    <3>1. SubSeq(t, 1, n) = t
      BY <1>2, <2>1
    <3> QED
      BY <1>5, <3>1
  <2>2. CASE n # Len(s) + 1
    <3>1. n \in sp.MinSize .. Len(s)
      BY <1>2, <2>2
    <3> QED
      BY <1>4, <3>1
  <2> QED
    BY <2>1, <2>2
<1> QED
  BY <1>1, <1>4, <1>5 DEF Uncut

\* A byte goes into the chunk, which may be cut after it.
LEMMA WriteByteKeeps == ASSUME StreamInv, WriteByte PROVE StreamInv'
<1>1. PICK byte, data, rest, rolled :
        /\ byte = Head(buffer) /\ data = Append(current, byte) /\ rest = Tail(buffer)
        /\ rolled = Roll(hash, byte)
  OBVIOUS
<1>2. /\ phase \in {"builtin", "flush"} /\ buffer # <<>>
      /\ UNCHANGED <<splitter, input, read, phase, prefix>> /\ buffer' = rest
      /\ \/ /\ Len(data) >= splitter.MinSize
            /\ Len(data) >= splitter.MaxSize \/ Masked(rolled) = 0
            /\ chunks' = Append(chunks, [Offset |-> offset, Data |-> data])
            /\ offset' = offset + Len(data) /\ current' = <<>> /\ hash' = 0
         \/ /\ \/ Len(data) < splitter.MinSize
               \/ Len(data) < splitter.MaxSize /\ Masked(rolled) # 0
            /\ current' = data /\ hash' = rolled /\ UNCHANGED <<offset, chunks>>
  BY <1>1 DEF WriteByte, EmitCurrent, Emit, Roll
<1>3. /\ input \in Seq(Bytes) /\ Len(input) \in Nat
      /\ prefix \in Seq(Bytes) /\ Len(prefix) \in Nat
      /\ buffer \in Seq(Bytes) /\ Len(buffer) \in Nat
      /\ current \in Seq(Bytes) /\ Len(current) \in Nat
      /\ offset \in Nat /\ read \in Nat /\ read <= Len(input) /\ SplitterOK(splitter)
      /\ splitter.MinSize \in Nat \ {0} /\ splitter.MaxSize \in Nat \ {0}
      /\ splitter.MinSize <= splitter.MaxSize /\ InEngine
  BY <1>2, InsideTheEngine
<1>4. InBuiltin /\ ChunksOK(splitter, input, chunks)
  BY <1>2 DEF StreamInv
<1>5. /\ byte \in Bytes /\ data \in Seq(Bytes) /\ Len(data) = Len(current) + 1 /\ Follows(data, input, offset)
      /\ rest \in Seq(Bytes) /\ Len(rest) = Len(buffer) - 1
      /\ Follows(rest, input, offset + Len(current) + 1)
  <2>1. Follows(current, input, offset) /\ Follows(buffer, input, offset + Len(current))
    BY <1>3 DEF InEngine
  <2> QED
    BY <1>1, <1>2, <1>3, <2>1, FollowsByByte
<1>6. /\ Len(data) \in Nat /\ Len(rest) \in Nat /\ Len(buffer) = Len(rest) + 1
      /\ offset + Len(data) \in Nat /\ offset + Len(data) <= Len(input) /\ offset < Len(input)
      /\ offset + Len(current) + 1 = offset + Len(data)
      /\ offset + Len(current) + Len(buffer) = offset + Len(data) + Len(rest)
  <2>1. Len(rest) \in Nat /\ Len(data) \in Nat
    BY <1>5
  <2>2. offset + Len(data) <= Len(input)
    BY <1>5 DEF Follows
  <2> QED
    BY <1>3, <1>5, <2>1, <2>2
<1>7. rolled = HashOf(data)
  BY <1>1, <1>3, <1>4, <1>5, HashGoesOn DEF InBuiltin
<1>8. Uncut(splitter, data, Len(current)) /\ (~Cut(splitter, data) => Uncut(splitter, data, Len(data)))
  <2>1. Uncut(splitter, current, Len(current))
    BY <1>4 DEF InBuiltin
  <2> QED
    BY <1>1, <1>3, <1>5, <2>1, UncutGoesOn
<1>9. /\ Follows(prefix, input, offset + Len(data) + Len(rest))
      /\ read = offset + Len(data) + Len(rest) + Len(prefix)
      /\ Follows(rest, input, offset + Len(data))
  <2>1. /\ Follows(prefix, input, offset + Len(current) + Len(buffer))
        /\ read = offset + Len(current) + Len(buffer) + Len(prefix)
    BY <1>3 DEF InEngine
  <2> QED
    BY <1>5, <1>6, <2>1
<1>10. CASE /\ Len(data) >= splitter.MinSize
            /\ Len(data) >= splitter.MaxSize \/ Masked(rolled) = 0
            /\ chunks' = Append(chunks, [Offset |-> offset, Data |-> data])
            /\ offset' = offset + Len(data) /\ current' = <<>> /\ hash' = 0
  <2>1. Cut(splitter, data)
    BY <1>7, <1>10 DEF Cut, Masked
  <2>2. PICK chunk, more, cs, end : /\ chunk = [Offset |-> offset, Data |-> data] /\ more = chunks'
                                    /\ cs = chunks /\ end = offset
    OBVIOUS
  <2>3. chunk = [Offset |-> end, Data |-> data] /\ more = OneMore(cs, end, data) /\ end \in Nat
    BY <1>3, <1>10, <2>2 DEF OneMore
  <2>4. Cover(cs, input, end) /\ Follows(data, input, end)
    BY <1>3, <1>5, <2>2 DEF InEngine
  <2>5. /\ Cover(more, input, end + Len(data)) /\ Len(cs) \in Nat /\ Len(more) = Len(cs) + 1
        /\ DOMAIN more = 1 .. Len(cs) + 1 /\ DOMAIN cs = 1 .. Len(cs)
        /\ more[Len(cs) + 1] = chunk /\ \A i \in 1 .. Len(cs) : more[i] = cs[i]
    <3>1. /\ input \in Seq(Bytes) /\ end \in Nat /\ Cover(cs, input, end)
          /\ data \in Seq(Bytes) /\ Follows(data, input, end)
      BY <1>3, <1>5, <2>3, <2>4
    <3>2. /\ Cover(OneMore(cs, end, data), input, end + Len(data))
          /\ Len(cs) \in Nat /\ Len(OneMore(cs, end, data)) = Len(cs) + 1
          /\ DOMAIN OneMore(cs, end, data) = 1 .. Len(cs) + 1 /\ DOMAIN cs = 1 .. Len(cs)
          /\ OneMore(cs, end, data)[Len(cs) + 1] = [Offset |-> end, Data |-> data]
          /\ \A i \in 1 .. Len(cs) : OneMore(cs, end, data)[i] = cs[i]
      BY <3>1, CoverGoesOn
    <3> QED
      BY <2>3, <3>2
  <2>6. \A i \in DOMAIN cs : Cut(splitter, cs[i].Data)
    BY <1>4, <2>2 DEF InBuiltin
  <2>7. ChunksOK(splitter, input, more)
    <3>1. Len(data) <= splitter.MaxSize /\ Len(data) # 0 /\ ~(Len(data) < splitter.MinSize)
      <4>1. Len(current) < splitter.MaxSize
        BY <1>4 DEF InBuiltin
      <4> QED
        BY <1>3, <1>5, <1>6, <1>10, <4>1
    <3>2. Uncut(splitter, data, Len(data) - 1)
      <4>1. Len(data) - 1 = Len(current)
        BY <1>3, <1>5
      <4> QED
        BY <1>8, <4>1
    <3>3. splitter.SmallFileThreshold > 0 => ~SmallBody(splitter, input)
      BY <1>3 DEF InEngine
    <3>4. end < Len(input) /\ ChunksOK(splitter, input, cs)
      BY <1>4, <1>6, <2>2
    <3> QED
      BY <1>3, <1>5, <2>3, <2>4, <2>6, <3>1, <3>2, <3>3, <3>4, ChunksGoOn
  <2>8. \A i \in DOMAIN more : Cut(splitter, more[i].Data)
    <3> SUFFICES ASSUME NEW i \in DOMAIN more PROVE Cut(splitter, more[i].Data)
      OBVIOUS
    <3>1. CASE i = Len(cs) + 1
      BY <2>1, <2>3, <2>5, <3>1
    <3>2. CASE i # Len(cs) + 1
      BY <2>5, <2>6, <3>2
    <3> QED
      BY <3>1, <3>2
  <2>9. <<>> \in Seq(Bytes) /\ Len(<<>>) = 0 /\ Follows(<<>>, input, offset')
    <3>1. offset' \in Nat /\ offset' <= Len(input)
      BY <1>6, <1>10
    <3>2. PICK e : e = offset'
      OBVIOUS
    <3> QED
      BY <1>3, <3>1, <3>2, NothingFollows
  <2>10. offset' + Len(<<>>) = offset + Len(data)
    BY <1>6, <1>10, <2>9
  <2>11. InEngine'
    <3>1. Pieces3' /\ offset' \in Nat /\ Cover(chunks', input', offset')
      BY <1>2, <1>3, <1>5, <1>6, <1>10, <2>2, <2>5, <2>9 DEF Pieces3
    <3>2. /\ Follows(current', input', offset') /\ Follows(buffer', input', offset' + Len(current'))
          /\ Follows(prefix', input', offset' + Len(current') + Len(buffer'))
          /\ read' = offset' + Len(current') + Len(buffer') + Len(prefix')
      BY <1>2, <1>9, <1>10, <2>9, <2>10
    <3> QED
      BY <1>2, <1>3, <3>1, <3>2 DEF InEngine
  <2>12. InBuiltin'
    <3>1. HashOf(<<>>) = 0
      BY HashGoesOn
    <3>2. Uncut(splitter, <<>>, 0)
      <4>1. splitter.MinSize .. 0 = {}
        BY <1>3
      <4> QED
        BY <4>1 DEF Uncut
    <3>3. Len(<<>>) < splitter.MaxSize
      BY <1>3, <2>9
    <3> QED
      BY <1>2, <1>4, <1>10, <2>2, <2>8, <2>9, <3>1, <3>2, <3>3 DEF InBuiltin
  <2> QED
    BY <1>2, <1>3, <2>2, <2>5, <2>7, <2>11, <2>12 DEF StreamInv
<1>11. CASE /\ \/ Len(data) < splitter.MinSize
               \/ Len(data) < splitter.MaxSize /\ Masked(rolled) # 0
            /\ current' = data /\ hash' = rolled /\ UNCHANGED <<offset, chunks>>
  <2>1. Len(data) < splitter.MaxSize
    BY <1>3, <1>6, <1>11
  <2>2. Uncut(splitter, data, Len(data))
    <3>1. CASE Len(data) < splitter.MinSize
      <4>1. splitter.MinSize .. Len(data) = {}
        BY <1>3, <1>6, <3>1
      <4> QED
        BY <4>1 DEF Uncut
    <3>2. CASE Masked(rolled) # 0
      <4>1. ~Cut(splitter, data)
        BY <1>3, <1>6, <1>7, <2>1, <3>2 DEF Cut, Masked
      <4> QED
        BY <1>8, <4>1
    <3> QED
      BY <1>11, <3>1, <3>2
  <2>3. InEngine'
    <3>1. Pieces3' /\ offset' \in Nat /\ Cover(chunks', input', offset')
      BY <1>2, <1>3, <1>5, <1>11 DEF Pieces3, InEngine
    <3>2. /\ Follows(current', input', offset') /\ Follows(buffer', input', offset' + Len(current'))
          /\ Follows(prefix', input', offset' + Len(current') + Len(buffer'))
          /\ read' = offset' + Len(current') + Len(buffer') + Len(prefix')
      BY <1>2, <1>5, <1>9, <1>11
    <3> QED
      BY <1>2, <1>3, <3>1, <3>2 DEF InEngine
  <2>4. InBuiltin'
    BY <1>2, <1>4, <1>7, <1>11, <2>1, <2>2 DEF InBuiltin
  <2>5. \E end : Cover(chunks, input, end)
    BY DEF StreamInv
  <2> QED
    BY <1>2, <1>3, <1>4, <1>11, <2>3, <2>4, <2>5 DEF StreamInv
<1> QED
  BY <1>2, <1>10, <1>11

\* The last chunk.
LEMMA FlushKeeps == ASSUME StreamInv, Flush PROVE StreamInv'
<1>1. /\ phase = "flush" /\ buffer = <<>> /\ phase' = "done" /\ UNCHANGED <<splitter, input>>
      /\ IF current = <<>> /\ chunks # <<>> THEN UNCHANGED chunks ELSE chunks' = OneMore(chunks, offset, current)
  BY DEF Flush, Emit, OneMore
<1>2. /\ input \in Seq(Bytes) /\ Len(input) \in Nat
      /\ current \in Seq(Bytes) /\ Len(current) \in Nat
      /\ offset \in Nat /\ SplitterOK(splitter)
      /\ splitter.MinSize \in Nat \ {0} /\ splitter.MaxSize \in Nat \ {0} /\ InEngine
  BY <1>1, InsideTheEngine
<1>3. InBuiltin /\ ChunksOK(splitter, input, chunks)
  BY <1>1 DEF StreamInv
<1>4. offset + Len(current) = Len(input)
  <2>1. /\ prefix = <<>> /\ read = Len(input) /\ Len(<<>>) = 0
        /\ read = offset + Len(current) + Len(buffer) + Len(prefix)
    BY <1>1, <1>2, <1>3 DEF InEngine, InBuiltin
  <2> QED
    BY <1>1, <1>2, <2>1
<1>5. PICK cs, end : cs = chunks /\ end = offset
  OBVIOUS
<1>6. end \in Nat /\ Cover(cs, input, end) /\ Follows(current, input, end) /\ end + Len(current) = Len(input)
  BY <1>2, <1>4, <1>5 DEF InEngine
<1>7. CASE current = <<>> /\ chunks # <<>> /\ UNCHANGED chunks
  <2>1. end = Len(input)
    <3>1. Len(current) = 0
      BY <1>7
    <3> QED
      BY <1>2, <1>4, <1>5, <3>1
  <2> QED
    BY <1>1, <1>2, <1>3, <1>5, <1>6, <1>7, <2>1 DEF StreamInv
<1>8. CASE (current # <<>> \/ chunks = <<>>) /\ chunks' = OneMore(chunks, offset, current)
  <2>1. PICK more : more = OneMore(cs, end, current)
    OBVIOUS
  <2>2. Cover(more, input, Len(input)) /\ more # <<>>
    <3>1. Cover(more, input, end + Len(current)) /\ Len(cs) \in Nat /\ Len(more) = Len(cs) + 1
      <4>1. input \in Seq(Bytes) /\ current \in Seq(Bytes)
        BY <1>2
      <4>2. end \in Nat /\ Cover(cs, input, end) /\ Follows(current, input, end)
        BY <1>6
      <4>3. /\ Cover(OneMore(cs, end, current), input, end + Len(current))
            /\ Len(cs) \in Nat /\ Len(OneMore(cs, end, current)) = Len(cs) + 1
        BY <4>1, <4>2, CoverGoesOn
      <4> QED
        BY <2>1, <4>3
    <3>2. Len(more) # 0
      BY <3>1
    <3> QED
      BY <1>6, <3>1, <3>2
  <2>3. ChunksOK(splitter, input, more)
    <3>1. cs = <<>> \/ end < Len(input)
      <4>1. current # <<>> => Len(current) # 0
        BY <1>2
      <4> QED
        BY <1>2, <1>4, <1>5, <1>8, <4>1
    <3>2. Len(current) # 0 \/ input = <<>>
      <4>1. ASSUME Len(current) = 0 PROVE input = <<>>
        <5>1. current = <<>>
          BY <1>2, <4>1
        <5>2. end = 0
          BY <1>5, <1>6, <1>8, <5>1 DEF Cover
        <5>3. Len(input) = 0
          BY <1>4, <1>5, <4>1, <5>2
        <5> QED
          BY <1>2, <5>3
      <4> QED
        BY <4>1
    <3>3. Len(current) <= splitter.MaxSize
      BY <1>2, <1>3 DEF InBuiltin
    <3>4. Uncut(splitter, current, Len(current) - 1)
      <4>1. splitter.MinSize .. Len(current) - 1 \subseteq splitter.MinSize .. Len(current)
        BY <1>2
      <4> QED
        BY <1>3, <4>1 DEF InBuiltin, Uncut
    <3>5. \A i \in DOMAIN cs : Cut(splitter, cs[i].Data)
      BY <1>3, <1>5 DEF InBuiltin
    <3>6. (splitter.SmallFileThreshold > 0 => ~SmallBody(splitter, input)) /\ ChunksOK(splitter, input, cs)
      BY <1>2, <1>3, <1>5 DEF InEngine
    <3> QED
      BY <1>2, <1>6, <2>1, <3>1, <3>2, <3>3, <3>4, <3>5, <3>6, ChunksGoOn
  <2> QED
    BY <1>1, <1>2, <1>5, <1>8, <2>1, <2>2, <2>3 DEF StreamInv
<1> QED
  BY <1>1, <1>7, <1>8

\* A chunk of the library.
LEMMA NextFastCDCKeeps == ASSUME StreamInv, NextFastCDC PROVE StreamInv'
<1>1. phase = "fastcdc" /\ UNCHANGED <<splitter, input, phase, buffer, current, hash>>
  BY DEF NextFastCDC
<1>2. /\ input \in Seq(Bytes) /\ Len(input) \in Nat
      /\ prefix \in Seq(Bytes) /\ Len(prefix) \in Nat
      /\ offset \in Nat /\ read \in Nat /\ read <= Len(input) /\ SplitterOK(splitter)
      /\ splitter.MinSize \in Nat \ {0} /\ splitter.MaxSize \in Nat \ {0} /\ InEngine
  BY <1>1, InsideTheEngine
<1>3. InFastCDC /\ ChunksOK(splitter, input, chunks)
  BY <1>1 DEF StreamInv
<1>4. /\ buffer = <<>> /\ current = <<>> /\ Len(<<>>) = 0 /\ <<>> \in Seq(Bytes)
      /\ Follows(prefix, input, offset) /\ read = offset + Len(prefix)
  <2>1. buffer = <<>> /\ current = <<>> /\ Len(<<>>) = 0 /\ <<>> \in Seq(Bytes)
    BY <1>3 DEF InFastCDC
  <2>2. offset + Len(<<>>) + Len(<<>>) = offset
    BY <1>2, <2>1
  <2> QED
    BY <1>2, <2>1, <2>2 DEF InEngine
<1>5. PICK left : left = prefix \o Left
  OBVIOUS
<1>6. left \in Seq(Bytes) /\ Len(left) = Len(input) - offset /\ Len(left) \in Nat /\ Follows(left, input, offset)
  <2>1. Left \in Seq(Bytes) /\ Len(Left) = Len(input) - read /\ Follows(Left, input, offset + Len(prefix))
    BY <1>2, <1>4, LeftFollows
  <2>2. /\ prefix \o Left \in Seq(Bytes) /\ Len(prefix \o Left) = Len(prefix) + Len(Left)
        /\ Follows(prefix \o Left, input, offset)
    BY <1>2, <1>4, <2>1, FollowsOn
  <2>3. Len(prefix) + (Len(input) - read) = Len(input) - offset
    BY <1>2, <1>4
  <2> QED
    BY <1>5, <2>1, <2>2, <2>3
<1>7. PICK n \in 1 .. Len(left) :
        /\ n <= splitter.MaxSize
        /\ n >= splitter.MinSize \/ n = Len(left)
        /\ chunks' = OneMore(chunks, offset, First(left, n))
        /\ offset' = offset + n
        /\ prefix' = Rest(prefix, n)
        /\ read' = read + Larger(0, n - Len(prefix))
  BY <1>5 DEF NextFastCDC, Emit, OneMore, First, Rest
<1>8. n \in Nat /\ n # 0 /\ n <= Len(left) /\ offset + n \in Nat /\ offset + n <= Len(input) /\ offset < Len(input)
  BY <1>2, <1>6
<1>9. PICK data : data = First(left, n)
  OBVIOUS
<1>10. data \in Seq(Bytes) /\ Len(data) = n /\ Follows(data, input, offset)
  BY <1>2, <1>6, <1>8, <1>9, FollowsAtFirst
<1>11. prefix' \in Seq(Bytes) /\ Follows(prefix', input, offset + n) /\ read' = offset + n + Len(prefix')
  <2>1. CASE n <= Len(prefix)
    <3>1. PICK u : u = Rest(prefix, n)
      OBVIOUS
    <3>2. u \in Seq(Bytes) /\ Len(u) = Len(prefix) - n /\ Follows(u, input, offset + n)
      BY <1>2, <1>4, <1>8, <2>1, <3>1, FollowsAfterwards
    <3>3. Larger(0, n - Len(prefix)) = 0
      BY <1>2, <1>8, <2>1 DEF Larger
    <3>4. read + 0 = offset + n + (Len(prefix) - n)
      BY <1>2, <1>4, <1>8
    <3> QED
      BY <1>7, <3>1, <3>2, <3>3, <3>4
  <2>2. CASE ~(n <= Len(prefix))
    <3>1. prefix' = <<>>
      BY <1>2, <1>7, <1>8, <2>2 DEF Rest
    <3>2. Larger(0, n - Len(prefix)) = n - Len(prefix)
      BY <1>2, <1>8, <2>2 DEF Larger
    <3>3. read' = offset + n + 0
      BY <1>2, <1>4, <1>7, <1>8, <3>2
    <3>4. Follows(<<>>, input, offset + n)
      <4>1. PICK e : e = offset + n
        OBVIOUS
      <4> QED
        BY <1>2, <1>8, <4>1, NothingFollows
    <3> QED
      BY <1>4, <3>1, <3>3, <3>4
  <2> QED
    BY <2>1, <2>2
<1>12. PICK cs, end, more : cs = chunks /\ end = offset /\ more = OneMore(cs, end, data)
  OBVIOUS
<1>13. end \in Nat /\ Cover(cs, input, end) /\ Follows(data, input, end) /\ chunks' = more /\ offset' = end + Len(data)
  BY <1>2, <1>7, <1>9, <1>10, <1>12 DEF InEngine
<1>14. Cover(more, input, end + Len(data))
  BY <1>2, <1>10, <1>12, <1>13, CoverGoesOn
<1>15. ChunksOK(splitter, input, more)
  <2>1. (splitter.SmallFileThreshold > 0 => ~SmallBody(splitter, input)) /\ ChunksOK(splitter, input, cs)
    BY <1>2, <1>3, <1>12 DEF InEngine
  <2>2. Len(data) < splitter.MinSize => end + Len(data) = Len(input)
    BY <1>2, <1>6, <1>7, <1>8, <1>10, <1>12
  <2>3. splitter.Engine # "builtin"
    BY <1>3 DEF InFastCDC
  <2>4. Len(data) <= splitter.MaxSize /\ Len(data) # 0 /\ end < Len(input)
    BY <1>7, <1>8, <1>10, <1>12
  <2> QED
    BY <1>2, <1>10, <1>12, <1>13, <2>1, <2>2, <2>3, <2>4, ChunksGoOn
<1>16. InEngine'
  <2>1. Pieces3' /\ offset' \in Nat /\ Cover(chunks', input', offset')
    BY <1>1, <1>4, <1>7, <1>8, <1>11, <1>13, <1>14 DEF Pieces3
  <2>2. Follows(<<>>, input, offset')
    <3>1. offset' \in Nat /\ offset' <= Len(input)
      BY <1>7, <1>8
    <3>2. PICK e : e = offset'
      OBVIOUS
    <3> QED
      BY <1>2, <3>1, <3>2, NothingFollows
  <2>3. offset' + Len(<<>>) = offset' /\ offset' = offset + n
    BY <1>4, <1>7, <1>8
  <2> QED
    BY <1>1, <1>2, <1>4, <1>11, <2>1, <2>2, <2>3 DEF InEngine
<1>17. InFastCDC'
  BY <1>1, <1>3 DEF InFastCDC
<1> QED
  BY <1>1, <1>2, <1>13, <1>14, <1>15, <1>16, <1>17 DEF StreamInv

\* The library is done.
LEMMA EndFastCDCKeeps == ASSUME StreamInv, EndFastCDC PROVE StreamInv'
<1>1. /\ phase = "fastcdc" /\ phase' = "done" /\ UNCHANGED <<splitter, input>> /\ prefix \o Left = <<>>
      /\ IF chunks = <<>> THEN chunks' = OneMore(<<>>, 0, <<>>) ELSE UNCHANGED chunks
  BY DEF EndFastCDC, Emit, OneMore
<1>2. /\ input \in Seq(Bytes) /\ Len(input) \in Nat
      /\ prefix \in Seq(Bytes) /\ Len(prefix) \in Nat
      /\ offset \in Nat /\ read \in Nat /\ read <= Len(input) /\ SplitterOK(splitter)
      /\ splitter.MaxSize \in Nat \ {0} /\ InEngine
  BY <1>1, InsideTheEngine
<1>3. InFastCDC /\ ChunksOK(splitter, input, chunks)
  BY <1>1 DEF StreamInv
<1>4. offset = Len(input)
  <2>1. Left \in Seq(Bytes) /\ Len(Left) = Len(input) - read
    BY <1>2, LeftFollows
  <2>2. Len(prefix \o Left) = Len(prefix) + Len(Left) /\ Len(<<>>) = 0
    BY <1>2, <2>1
  <2>3. read = offset + Len(<<>>) + Len(<<>>) + Len(prefix)
    BY <1>2, <1>3 DEF InEngine, InFastCDC
  <2> QED
    BY <1>1, <1>2, <2>1, <2>2, <2>3
<1>5. Cover(chunks, input, Len(input))
  BY <1>2, <1>4 DEF InEngine
<1>6. CASE chunks # <<>> /\ UNCHANGED chunks
  BY <1>1, <1>2, <1>3, <1>5, <1>6 DEF StreamInv
<1>7. CASE chunks = <<>> /\ chunks' = OneMore(<<>>, 0, <<>>)
  <2>1. Len(input) = 0 /\ input = <<>>
    BY <1>2, <1>5, <1>7 DEF Cover
  <2>2. PICK z, s, cs, more : z = 0 /\ s = <<>> /\ cs = <<>> /\ more = OneMore(cs, z, s)
    OBVIOUS
  <2>3. z \in Nat /\ s \in Seq(Bytes) /\ Len(s) = 0 /\ Cover(cs, input, z) /\ ChunksOK(splitter, input, cs)
    BY <1>3, <1>5, <1>7, <2>1, <2>2
  <2>4. Follows(s, input, z)
    <3>1. z <= Len(input)
      BY <2>1, <2>2
    <3> QED
      BY <1>2, <2>2, <2>3, <3>1, NothingFollows
  <2>5. Cover(more, input, z + Len(s)) /\ Len(cs) \in Nat /\ Len(more) = Len(cs) + 1
    <3>1. input \in Seq(Bytes) /\ s \in Seq(Bytes)
      BY <1>2, <2>3
    <3>2. z \in Nat /\ Cover(cs, input, z) /\ Follows(s, input, z)
      BY <2>3, <2>4
    <3>3. /\ Cover(OneMore(cs, z, s), input, z + Len(s))
          /\ Len(cs) \in Nat /\ Len(OneMore(cs, z, s)) = Len(cs) + 1
      BY <3>1, <3>2, CoverGoesOn
    <3> QED
      BY <2>2, <3>3
  <2>6. more # <<>> /\ z + Len(s) = Len(input)
    <3>1. Len(more) # 0
      BY <2>5
    <3> QED
      BY <2>1, <2>2, <2>3, <3>1
  <2>7. ChunksOK(splitter, input, more)
    <3>1. splitter.SmallFileThreshold > 0 => ~SmallBody(splitter, input)
      BY <1>2 DEF InEngine
    <3>2. splitter.Engine # "builtin"
      BY <1>3 DEF InFastCDC
    <3>3. Len(s) <= splitter.MaxSize
      BY <1>2, <2>3
    <3> QED
      BY <1>2, <2>1, <2>2, <2>3, <2>4, <2>6, <3>1, <3>2, <3>3, ChunksGoOn
  <2>8. chunks' = more
    BY <1>7, <2>2
  <2> QED
    BY <1>1, <1>2, <2>5, <2>6, <2>7, <2>8 DEF StreamInv
<1> QED
  BY <1>1, <1>6, <1>7

\* The reader or the consumer fails.
LEMMA FailKeeps == ASSUME StreamInv, Fail PROVE StreamInv'
<1>1. phase' = "failed" /\ UNCHANGED <<splitter, input, chunks>>
  BY DEF Fail
<1>2. /\ SplitterOK(splitter) /\ input \in Seq(Bytes) /\ ChunksOK(splitter, input, chunks)
      /\ \E end : Cover(chunks, input, end)
  BY DEF StreamInv
<1> QED
  BY <1>1, <1>2 DEF StreamInv

\* Before the first byte.
LEMMA StreamInitInv == StreamInit => StreamInv
<1> SUFFICES ASSUME StreamInit PROVE StreamInv
  OBVIOUS
<1>1. SplitterOK(splitter)
  <2>1. PICK options \in OptionSets : splitter = New(options)
    BY DEF StreamInit
  <2> QED
    BY <2>1, NewIsInOrder
<1>2. input \in Seq(Bytes) /\ Len(input) \in Nat
  <2>1. input \in Seq(Bytes)
    BY InputsAssumption DEF StreamInit, Bytes
  <2> QED
    BY <2>1
<1>3. /\ phase = IF splitter.SmallFileThreshold > 0 THEN "prefix" ELSE splitter.Engine
      /\ read = 0 /\ hash = 0 /\ offset = 0
      /\ prefix = <<>> /\ buffer = <<>> /\ current = <<>> /\ chunks = <<>>
  BY DEF StreamInit
<1>4. Cover(<<>>, input, 0) /\ ChunksOK(splitter, input, <<>>)
  BY <1>1, <1>2, NoChunks
<1>5. <<>> \in Seq(Bytes) /\ Len(<<>>) = 0 /\ Follows(<<>>, input, 0) /\ DOMAIN <<>> = {}
  <2>1. PICK z : z = 0
    OBVIOUS
  <2>2. z \in Nat /\ z <= Len(input)
    BY <1>2, <2>1
  <2>3. DOMAIN <<>> = {}
    OBVIOUS
  <2> QED
    BY <1>2, <2>1, <2>2, <2>3, NothingFollows
<1>6. Pieces3
  BY <1>3, <1>5 DEF Pieces3
<1>7. InPrefix
  BY <1>3, <1>5, <1>6 DEF InPrefix
<1>8. splitter.Engine \in {"builtin", "fastcdc"} /\ splitter.MaxSize \in Nat \ {0} /\ splitter.MinSize \in Nat \ {0}
  BY <1>1 DEF SplitterOK
<1>9. phase # "prefix" => InEngine
  <2>1. 0 + Len(<<>>) = 0 /\ 0 + Len(<<>>) + Len(<<>>) = 0 /\ 0 + Len(<<>>) + Len(<<>>) + Len(<<>>) = 0
    BY <1>5
  <2>2. phase # "prefix" => ~(splitter.SmallFileThreshold > 0)
    BY <1>3
  <2> QED
    BY <1>3, <1>4, <1>5, <1>6, <2>1, <2>2 DEF InEngine
<1>10. phase = "builtin" => InBuiltin
  <2>1. HashOf(<<>>) = 0
    BY HashGoesOn
  <2>2. Uncut(splitter, <<>>, 0)
    <3>1. splitter.MinSize .. 0 = {}
      BY <1>8
    <3> QED
      BY <3>1 DEF Uncut
  <2>3. Len(<<>>) < splitter.MaxSize
    BY <1>5, <1>8
  <2> QED
    BY <1>3, <1>5, <2>1, <2>2, <2>3 DEF InBuiltin
<1>11. phase = "fastcdc" => InFastCDC
  BY <1>3 DEF InFastCDC
<1> QED
  BY <1>1, <1>2, <1>3, <1>4, <1>7, <1>8, <1>9, <1>10, <1>11 DEF StreamInv

\* Every step keeps the invariant of the stream.
LEMMA StreamNextInv == ASSUME StreamInv, [StreamNext]_streamVars PROVE StreamInv'
<1>1. ASSUME UNCHANGED streamVars PROVE StreamInv'
  BY <1>1 DEF streamVars, StreamInv, InPrefix, InEngine, InBuiltin, InFastCDC, Pieces3
<1> QED
  BY <1>1, ReadPrefixKeeps, ReadBufferKeeps, WriteByteKeeps, FlushKeeps, NextFastCDCKeeps,
     EndFastCDCKeeps, FailKeeps DEF StreamNext

\* The invariant of the stream holds throughout.
THEOREM StreamInvariance == StreamSpec => []StreamInv
<1>1. StreamInit => StreamInv
  BY StreamInitInv
<1>2. StreamInv /\ [StreamNext]_streamVars => StreamInv'
  BY StreamNextInv
<1> QED
  BY <1>1, <1>2, PTL DEF StreamSpec

\* However a body arrives, its chunks are the body.
THEOREM ChunksAreWholeBodies == StreamSpec => []ChunksAreTheBody
<1>1. ASSUME StreamInv PROVE ChunksAreTheBody
  <2>1. /\ SplitterOK(splitter) /\ input \in Seq(Bytes) /\ Len(input) \in Nat
        /\ ChunksOK(splitter, input, chunks)
    <3>1. SplitterOK(splitter) /\ input \in Seq(Bytes) /\ ChunksOK(splitter, input, chunks)
      BY <1>1 DEF StreamInv
    <3> QED
      BY <3>1
  <2>2. PICK end : Cover(chunks, input, end) /\ (phase = "done" => end = Len(input) /\ chunks # <<>>)
    BY <1>1 DEF StreamInv
  <2>3. end \in 0 .. Len(input) /\ Content = SubSeq(input, 1, end)
    BY <2>1, <2>2, FlatChunks DEF Content
  <2>4. IsPrefix(Content, input)
    BY <2>1, <2>3 DEF IsPrefix
  <2>5. end = Len(input) => Content = input
    BY <2>1, <2>3
  <2>6. ASSUME NEW i \in DOMAIN chunks
        PROVE SubSeq(input, chunks[i].Offset + 1, chunks[i].Offset + Len(chunks[i].Data)) = chunks[i].Data
    BY <2>2 DEF Cover, Follows
  <2>7. Small <=> SmallBody(splitter, input)
    BY DEF Small, SmallBody
  <2>8. ASSUME ~Small, NEW i \in DOMAIN chunks
        PROVE LET size == Len(chunks[i].Data)
              IN  /\ size <= splitter.MaxSize
                  /\ size < splitter.MinSize => i = Len(chunks) /\ Content = input
                  /\ size = 0 => input = <<>>
    <3>1. Sized(splitter, input, chunks, i)
      BY <2>1, <2>7, <2>8 DEF ChunksOK
    <3>2. i = Len(chunks) /\ EndOf(chunks[i]) = Len(input) => end = Len(input)
      <4>1. chunks # <<>>
        OBVIOUS
      <4> QED
        BY <2>2, <4>1 DEF Cover
    <3> QED
      BY <2>5, <3>1, <3>2 DEF Sized
  <2> QED
    BY <2>1, <2>2, <2>4, <2>5, <2>6, <2>7, <2>8 DEF ChunksAreTheBody, ChunksOK
<1> QED
  BY <1>1, StreamInvariance, PTL

\* Where the built-in engine cuts depends on the bytes of the chunk alone.
THEOREM CutsAreByContent == StreamSpec => []CutsDependOnContent
<1>1. ASSUME StreamInv PROVE CutsDependOnContent
  <2>1. ChunksOK(splitter, input, chunks)
    BY <1>1 DEF StreamInv
  <2>2. \A data : IsCut(data) <=> Cut(splitter, data)
    BY DEF IsCut, Cut, Masked
  <2>3. Small <=> SmallBody(splitter, input)
    BY DEF Small, SmallBody
  <2> QED
    BY <2>1, <2>2, <2>3 DEF CutsDependOnContent, ChunksOK, CutByContent, Uncut
<1> QED
  BY <1>1, StreamInvariance, PTL
===============================================================================
