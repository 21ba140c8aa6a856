-------------------------- MODULE ClockRedraw_proofs --------------------------
(***************************************************************************)
(* Proofs about ClockRedraw, for every font, every place and scale of the  *)
(* clock and every terminal.  The loops that add up the columns of the     *)
(* glyphs are recursive functions; each is shown to compute the same       *)
(* offsets, by induction on a set of numbers.                              *)
(***************************************************************************)
EXTENDS ClockRedraw, WellFoundedInduction, SequenceTheorems, TLAPS

-----------------------------------------------------------------------------
(* Induction.                                                              *)
LEMMA LeastElement ==
    ASSUME NEW T, T \subseteq Nat, T # {}
    PROVE  \E x \in T : \A y \in T : x <= y
<1>1. PICK x \in T : \A y \in T : ~(<<y, x>> \in OpToRel(<, Nat))
  BY NatLessThanWellFounded, WFMin
<1>2. ASSUME NEW y \in T
      PROVE  x <= y
  <2>1. ~(<<y, x>> \in OpToRel(<, Nat))
    BY <1>1
  <2>2. y \in Nat /\ x \in Nat
    OBVIOUS
  <2>3. ~(y < x)
    <3> SUFFICES ASSUME y < x
                 PROVE  FALSE
      OBVIOUS
    <3> DEFINE p == <<y, x>>
    <3>1. p \in Nat \X Nat /\ p[1] = y /\ p[2] = x
      BY <2>2
    <3> HIDE DEF p
    <3>2. p \in {ss \in Nat \X Nat : ss[1] < ss[2]}
      BY <3>1
    <3> QED
      BY <2>1, <3>2 DEF p, OpToRel
  <2> QED
    BY <2>2, <2>3
<1> QED
  BY <1>2

LEMMA Induction ==
    ASSUME NEW n \in Nat, NEW S, 0 \in S,
           \A k \in 0 .. n - 1 : k \in S => k + 1 \in S
    PROVE  \A k \in 0 .. n : k \in S
<1> DEFINE T == (0 .. n) \ S
<1> SUFFICES ASSUME T # {}
             PROVE  FALSE
  OBVIOUS
<1>1. PICK k \in T : \A y \in T : k <= y
  <2>1. T \subseteq Nat
    OBVIOUS
  <2> HIDE DEF T
  <2> QED
    BY <2>1, LeastElement
<1>2. k \in 1 .. n /\ k - 1 \in 0 .. n - 1
  OBVIOUS
<1>3. k - 1 \notin T
  BY <1>1, <1>2
<1> QED
  BY <1>2, <1>3

-----------------------------------------------------------------------------
Glyphs == DOMAIN Font

LEMMA GlyphSize ==
    ASSUME NEW g \in Glyphs
    PROVE  Width(g) \in Nat /\ Height(g) \in Nat \ {0}
<1>1. Font[g] \in Seq(Seq(BOOLEAN)) /\ Font[g] # <<>>
  BY FontAssumption DEF Glyphs
<1>2. Len(Font[g]) \in Nat \ {0} /\ Font[g][1] \in Seq(BOOLEAN)
  BY <1>1
<1> QED
  BY <1>2 DEF Width, Height

LEMMA GapSize == Space \in Glyphs /\ Width(Space) \in Nat
<1>1. Space \in Glyphs
  BY FontAssumption DEF Glyphs
<1> QED
  BY <1>1, GlyphSize

(* The columns before each glyph, at scale one, and before one more.       *)
Advances(t, off) ==
    /\ off \in [1 .. Len(t) + 1 -> Nat]
    /\ off[1] = 0
    /\ \A i \in 1 .. Len(t) : off[i + 1] = off[i] + Width(t[i]) + Width(Space)

Offsets(t) == CHOOSE off : Advances(t, off)

LEMMA OffsetsExist ==
    ASSUME NEW t \in Seq(Glyphs)
    PROVE  Advances(t, Offsets(t))
<1> DEFINE n == Len(t)
           Upto(m, off) ==
               /\ off \in [1 .. m + 1 -> Nat]
               /\ off[1] = 0
               /\ \A i \in 1 .. m : off[i + 1] = off[i] + Width(t[i]) + Width(Space)
           S == {m \in 0 .. n : \E off : Upto(m, off)}
<1>1. n \in Nat /\ \A i \in 1 .. n : Width(t[i]) \in Nat
  BY GlyphSize
<1>2. 0 \in S
  <2> DEFINE off == [i \in 1 .. 0 + 1 |-> 0]
  <2>1. Upto(0, off)
    OBVIOUS
  <2> HIDE DEF off, Upto
  <2> QED
    BY <1>1, <2>1
<1>3. ASSUME NEW m \in 0 .. n - 1, m \in S
      PROVE  m + 1 \in S
  <2> PICK off : Upto(m, off)
    BY <1>3
  <2> DEFINE last == off[m + 1] + Width(t[m + 1]) + Width(Space)
             more == [i \in 1 .. (m + 1) + 1 |-> IF i = m + 2 THEN last ELSE off[i]]
  <2>1. last \in Nat
    <3>1. off[m + 1] \in Nat /\ Width(t[m + 1]) \in Nat
      BY <1>1
    <3> QED
      BY <3>1, GapSize
  <2>2. more \in [1 .. (m + 1) + 1 -> Nat] /\ more[1] = 0
    <3> HIDE DEF last
    <3> QED
      BY <1>1, <2>1
  <2>3. \A i \in 1 .. m + 1 : more[i + 1] = more[i] + Width(t[i]) + Width(Space)
    <3> SUFFICES ASSUME NEW i \in 1 .. m + 1
                 PROVE  more[i + 1] = off[i] + Width(t[i]) + Width(Space)
      BY <1>1
    <3>1. CASE i = m + 1
      <4>1. more[m + 2] = last
        <5> HIDE DEF last
        <5> QED
          BY <1>1
      <4> QED
        BY <1>1, <3>1, <4>1
    <3>2. CASE i # m + 1
      BY <1>1, <3>2
    <3> QED
      BY <3>1, <3>2
  <2>4. Upto(m + 1, more) /\ m + 1 \in 0 .. n
    BY <1>1, <2>2, <2>3
  <2> HIDE DEF more, Upto
  <2> QED
    BY <2>4
<1>4. n \in S
  <2> HIDE DEF S
  <2>1. \A k \in 0 .. n : k \in S
    BY <1>1, <1>2, <1>3, Induction
  <2> QED
    BY <1>1, <2>1
<1> QED
  BY <1>4 DEF Advances, Offsets

LEMMA OffsetFacts ==
    ASSUME NEW t \in Seq(Glyphs), NEW i \in 1 .. Len(t)
    PROVE  /\ Offsets(t)[1] = 0
           /\ Offsets(t)[i] \in Nat /\ Offsets(t)[i + 1] \in Nat
           /\ Width(t[i]) \in Nat
           /\ Offsets(t)[i + 1] = Offsets(t)[i] + Width(t[i]) + Width(Space)
<1>1. Advances(t, Offsets(t)) /\ Width(t[i]) \in Nat
  BY OffsetsExist, GlyphSize
<1>2. i \in 1 .. Len(t) + 1 /\ i + 1 \in 1 .. Len(t) + 1
  OBVIOUS
<1> QED
  BY <1>1, <1>2 DEF Advances

(* Offsets are those of the widths alone.                                  *)
LEMMA OffsetsAgree ==
    ASSUME NEW s \in Seq(Glyphs), NEW t \in Seq(Glyphs), NEW n \in Nat,
           n <= Len(s), n <= Len(t), \A k \in 1 .. n : Width(s[k]) = Width(t[k])
    PROVE  \A k \in 1 .. n + 1 : Offsets(s)[k] = Offsets(t)[k]
<1> DEFINE S == {m \in 0 .. n : Offsets(s)[m + 1] = Offsets(t)[m + 1]}
<1>1. Advances(s, Offsets(s)) /\ Advances(t, Offsets(t))
  BY OffsetsExist
<1>2. 0 \in S
  BY <1>1 DEF Advances
<1>3. ASSUME NEW m \in 0 .. n - 1, m \in S
      PROVE  m + 1 \in S
  <2>1. m + 1 \in 1 .. Len(s) /\ m + 1 \in 1 .. Len(t) /\ m + 1 \in 1 .. n
    OBVIOUS
  <2>2. Offsets(s)[(m + 1) + 1] = Offsets(s)[m + 1] + Width(s[m + 1]) + Width(Space)
    BY <2>1, OffsetFacts
  <2>3. Offsets(t)[(m + 1) + 1] = Offsets(t)[m + 1] + Width(t[m + 1]) + Width(Space)
    BY <2>1, OffsetFacts
  <2> QED
    BY <1>3, <2>1, <2>2, <2>3
<1>4. \A m \in 0 .. n : m \in S
  <2> HIDE DEF S
  <2> QED
    BY <1>2, <1>3, Induction
<1> QED
  <2> SUFFICES ASSUME NEW k \in 1 .. n + 1
               PROVE  Offsets(s)[k] = Offsets(t)[k]
    OBVIOUS
  <2>1. k - 1 \in 0 .. n /\ (k - 1) + 1 = k
    OBVIOUS
  <2>2. k - 1 \in S
    BY <1>4, <2>1
  <2> QED
    BY <2>1, <2>2

(* Two glyphs do not overlap.                                              *)
LEMMA OffsetsGrow ==
    ASSUME NEW t \in Seq(Glyphs), NEW i \in 1 .. Len(t), NEW j \in i + 1 .. Len(t) + 1
    PROVE  Offsets(t)[i] + Width(t[i]) + Width(Space) <= Offsets(t)[j]
<1> DEFINE n == Len(t) - i
           base == Offsets(t)[i] + Width(t[i]) + Width(Space)
           S == {m \in 0 .. n : base <= Offsets(t)[(i + 1) + m]}
<1>1. n \in Nat
  OBVIOUS
<1>2. Offsets(t)[i + 1] = base /\ base \in Nat
  BY OffsetFacts
<1> HIDE DEF base
<1>3. 0 \in S
  <2>1. (i + 1) + 0 = i + 1
    OBVIOUS
  <2> QED
    BY <1>1, <1>2, <2>1
<1>4. ASSUME NEW m \in 0 .. n - 1, m \in S
      PROVE  m + 1 \in S
  <2>1. (i + 1) + m \in 1 .. Len(t) /\ ((i + 1) + m) + 1 = (i + 1) + (m + 1)
        /\ m + 1 \in 0 .. n
    BY <1>1
  <2>2. Offsets(t)[(i + 1) + (m + 1)] >= Offsets(t)[(i + 1) + m]
        /\ Offsets(t)[(i + 1) + (m + 1)] \in Nat /\ Offsets(t)[(i + 1) + m] \in Nat
    BY <2>1, OffsetFacts, GapSize
  <2> QED
    BY <1>2, <1>4, <2>1, <2>2
<1>5. \A m \in 0 .. n : m \in S
  <2> HIDE DEF S, n
  <2> QED
    BY <1>1, <1>3, <1>4, Induction
<1>6. j - (i + 1) \in 0 .. n /\ (i + 1) + (j - (i + 1)) = j
  OBVIOUS
<1>7. j - (i + 1) \in S
  <2> HIDE DEF S, n
  <2> QED
    BY <1>5, <1>6
<1> QED
  BY <1>6, <1>7 DEF base

-----------------------------------------------------------------------------
LEMMA Distribute ==
    ASSUME NEW s \in Int, NEW a \in Int, NEW b \in Int, NEW c \in Int
    PROVE  /\ s * a + b * s = s * (a + b)
           /\ s * a + b * s + c * s = s * (a + b + c)
           /\ s * a \in Int /\ b * s \in Int
  OBVIOUS

LEMMA ScaleUp ==
    ASSUME NEW s \in Nat, NEW a \in Int, NEW b \in Int, a <= b
    PROVE  s * a <= s * b
  OBVIOUS

(* size_cols, by the offset of the last glyph.                             *)
LEMMA SizeColsIs ==
    ASSUME NEW t \in Seq(Glyphs), NEW scale \in Nat
    PROVE  SizeCols(t, scale) = IF t = <<>> THEN 0
                                ELSE scale * (Offsets(t)[Len(t)] + Width(t[Len(t)]))
<1> DEFINE n == Len(t)
           off == Offsets(t)
           h == [k \in 0 .. n |-> IF k = n /\ k # 0
                                  THEN scale * (off[n] + Width(t[n]))
                                  ELSE scale * off[k + 1]]
           Body(u, k) == IF k = 0 THEN 0
                         ELSE u[k - 1] + Width(t[k]) * scale
                              + (IF k < n THEN Width(Space) * scale ELSE 0)
           upto == CHOOSE u : u = [k \in 0 .. n |-> Body(u, k)]
<1>1. n \in Nat /\ off[1] = 0
  BY OffsetsExist DEF Advances
<1>2. SizeCols(t, scale) = upto[n]
  BY DEF SizeCols
<1>3. \A k \in 0 .. n : h[k] = Body(h, k)
  <2> SUFFICES ASSUME NEW k \in 0 .. n
               PROVE  h[k] = Body(h, k)
    OBVIOUS
  <2>1. CASE k = 0
    BY <1>1, <2>1
  <2>2. CASE k # 0
    <3>1. /\ k \in 1 .. n /\ k - 1 \in 0 .. n /\ (k - 1) + 1 = k /\ k - 1 # n
      BY <1>1, <2>2
    <3>2. /\ off[k] \in Nat /\ Width(t[k]) \in Nat /\ Width(Space) \in Nat
          /\ off[k + 1] = off[k] + Width(t[k]) + Width(Space)
      BY <3>1, OffsetFacts, GapSize
    <3>3. h[k - 1] = scale * off[k]
      <4> HIDE DEF off
      <4> QED
        BY <1>1, <3>1
    <3>4. /\ scale * off[k] + Width(t[k]) * scale = scale * (off[k] + Width(t[k]))
          /\ scale * off[k] + Width(t[k]) * scale + Width(Space) * scale
               = scale * off[k + 1]
          /\ scale * off[k] + Width(t[k]) * scale \in Int
      <4> DEFINE a == off[k]
                 b == Width(t[k])
                 c == Width(Space)
                 d == off[k + 1]
      <4>1. a \in Int /\ b \in Int /\ c \in Int /\ d = a + b + c
        BY <3>2
      <4> HIDE DEF a, b, c, d
      <4>2. /\ scale * a + b * scale = scale * (a + b)
            /\ scale * a + b * scale + c * scale = scale * d
            /\ scale * a + b * scale \in Int
        BY <4>1, Distribute
      <4> QED
        BY <4>2 DEF a, b, c, d
    <3>5. CASE k < n
      <4>1. h[k] = scale * off[k + 1]
        BY <3>5
      <4> HIDE DEF h, off
      <4> QED
        BY <2>2, <3>3, <3>4, <3>5, <4>1
    <3>6. CASE k = n
      <4>1. h[k] = scale * (off[k] + Width(t[k]))
        BY <2>2, <3>6
      <4>2. Body(h, k) = h[k - 1] + Width(t[k]) * scale + 0
        BY <2>2, <3>6
      <4> HIDE DEF h, off, Body
      <4>3. scale * (off[k] + Width(t[k])) + 0 = scale * (off[k] + Width(t[k]))
        BY <3>2
      <4> QED
        BY <3>3, <3>4, <4>1, <4>2, <4>3
    <3> QED
      BY <3>1, <3>5, <3>6
  <2> QED
    BY <2>1, <2>2
<1>4. h = [k \in 0 .. n |-> Body(h, k)]
  <2>1. h = [k \in 0 .. n |-> h[k]]
    OBVIOUS
  <2> HIDE DEF h, Body, n
  <2> QED
    BY <1>3, <2>1
<1>5. upto = [k \in 0 .. n |-> Body(upto, k)]
  <2> HIDE DEF h, Body
  <2> QED
    BY <1>4
<1> HIDE DEF upto
<1> DEFINE S == {k \in 0 .. n : upto[k] = h[k]}
<1>6. 0 \in S
  <2>1. 0 \in 0 .. n /\ upto[0] = 0 /\ h[0] = Body(h, 0)
    BY <1>1, <1>3, <1>5
  <2> HIDE DEF h
  <2> QED
    BY <2>1
<1>7. ASSUME NEW k \in 0 .. n - 1, k \in S
      PROVE  k + 1 \in S
  <2>1. k + 1 \in 0 .. n /\ k + 1 # 0 /\ (k + 1) - 1 = k
    BY <1>1
  <2> HIDE DEF h, n
  <2>2. upto[k] = h[k]
    BY <1>7
  <2>3. Body(upto, k + 1) = Body(h, k + 1)
    BY <2>1, <2>2
  <2> HIDE DEF Body
  <2>4. upto[k + 1] = Body(upto, k + 1) /\ h[k + 1] = Body(h, k + 1)
    BY <1>3, <1>5, <2>1
  <2> QED
    BY <2>1, <2>3, <2>4
<1>8. \A k \in 0 .. n : k \in S
  <2> HIDE DEF S, n
  <2> QED
    BY <1>1, <1>6, <1>7, Induction
<1>9. upto[n] = h[n]
  <2> HIDE DEF h, n
  <2> QED
    BY <1>1, <1>8
<1>10. t = <<>> <=> n = 0
  OBVIOUS
<1>11. n # 0 => h[n] = scale * (off[n] + Width(t[n]))
  BY <1>1
<1>12. n = 0 => h[n] = 0
  BY <1>1
<1> HIDE DEF h, n
<1> QED
  BY <1>2, <1>9, <1>10, <1>11, <1>12 DEF n

(* The skipping loop stands at the offset of the next glyph.               *)
LEMMA SkippedToIs ==
    ASSUME NEW t \in Seq(Glyphs), args.scale \in Nat, Start(t).col \in Int,
           NEW k \in 1 .. Len(t)
    PROVE  SkippedTo(t, k) = Start(t).col + args.scale * Offsets(t)[k]
<1> DEFINE scale == args.scale
           col == Start(t).col
           off == Offsets(t)
           h == [j \in 1 .. k |-> col + scale * off[j]]
           Body(u, j) == IF j = 1 THEN col
                         ELSE u[j - 1] + Width(t[j - 1]) * scale
                              + (IF j <= Len(t) THEN Width(Space) * scale ELSE 0)
           at == CHOOSE u : u = [j \in 1 .. k |-> Body(u, j)]
<1>1. off[1] = 0 /\ Len(t) \in Nat
  BY OffsetsExist DEF Advances
<1>2. SkippedTo(t, k) = at[k]
  BY DEF SkippedTo
<1> HIDE DEF col
<1>3. \A j \in 1 .. k : h[j] = Body(h, j)
  <2> SUFFICES ASSUME NEW j \in 1 .. k
               PROVE  h[j] = Body(h, j)
    OBVIOUS
  <2>1. CASE j = 1
    <3>1. scale * 0 = 0 /\ col + 0 = col /\ col \in Int
      BY DEF col
    <3> QED
      BY <1>1, <2>1, <3>1
  <2>2. CASE j # 1
    <3> DEFINE i == j - 1
    <3>1. i \in 1 .. Len(t) /\ i \in 1 .. k /\ i + 1 = j /\ j <= Len(t)
      BY <1>1, <2>2
    <3> HIDE DEF i
    <3>2. /\ off[i] \in Nat /\ Width(t[i]) \in Nat /\ Width(Space) \in Nat
          /\ off[j] = off[i] + Width(t[i]) + Width(Space)
      BY <3>1, OffsetFacts, GapSize
    <3>3. /\ scale * off[i] + Width(t[i]) * scale + Width(Space) * scale
               = scale * off[j]
          /\ scale * off[i] \in Int /\ Width(t[i]) * scale \in Int
          /\ Width(Space) * scale \in Int
      <4> DEFINE a == off[i]
                 b == Width(t[i])
                 c == Width(Space)
                 d == off[j]
      <4>1. a \in Int /\ b \in Int /\ c \in Int /\ d = a + b + c /\ scale \in Int
        BY <3>2
      <4> HIDE DEF a, b, c, d, scale
      <4>2. /\ scale * a + b * scale + c * scale = scale * d
            /\ scale * a \in Int /\ b * scale \in Int /\ c * scale \in Int
        BY <4>1, Distribute
      <4> QED
        BY <4>2 DEF a, b, c, d
    <3>4. h[i] = col + scale * off[i] /\ h[j] = col + scale * off[j]
      BY <3>1
    <3>5. Body(h, j) = h[i] + Width(t[i]) * scale + Width(Space) * scale
      <4> HIDE DEF h
      <4> QED
        BY <2>2, <3>1 DEF i
    <3> DEFINE x == scale * off[i]
               y == Width(t[i]) * scale
               z == Width(Space) * scale
    <3>6. x \in Int /\ y \in Int /\ z \in Int /\ x + y + z = scale * off[j]
          /\ col \in Int /\ h[i] = col + x /\ Body(h, j) = h[i] + y + z
      BY <3>3, <3>4, <3>5 DEF col
    <3> HIDE DEF h, off, Body, scale, x, y, z
    <3>7. Body(h, j) = col + (x + y + z)
      BY <3>6
    <3> QED
      BY <3>4, <3>6, <3>7
  <2> QED
    BY <2>1, <2>2
<1>4. h = [j \in 1 .. k |-> Body(h, j)]
  <2>1. h = [j \in 1 .. k |-> h[j]]
    OBVIOUS
  <2> HIDE DEF h, Body
  <2> QED
    BY <1>3, <2>1
<1>5. at = [j \in 1 .. k |-> Body(at, j)]
  <2> HIDE DEF h, Body
  <2> QED
    BY <1>4
<1> HIDE DEF at, h
<1> DEFINE S == {m \in 0 .. k - 1 : at[m + 1] = h[m + 1]}
<1>6. 0 \in S
  <2>1. 1 \in 1 .. k /\ 0 \in 0 .. k - 1 /\ 0 + 1 = 1
    OBVIOUS
  <2>2. at[1] = col /\ h[1] = col
    BY <1>3, <1>5, <2>1
  <2> QED
    BY <2>1, <2>2
<1>7. ASSUME NEW m \in 0 .. (k - 1) - 1, m \in S
      PROVE  m + 1 \in S
  <2> DEFINE j == (m + 1) + 1
  <2>1. j \in 1 .. k /\ j # 1 /\ j - 1 = m + 1 /\ m + 1 \in 0 .. k - 1
    OBVIOUS
  <2>2. at[m + 1] = h[m + 1]
    BY <1>7
  <2> HIDE DEF j
  <2>3. Body(at, j) = Body(h, j)
    BY <2>1, <2>2
  <2> HIDE DEF Body
  <2>4. at[j] = Body(at, j) /\ h[j] = Body(h, j)
    BY <1>3, <1>5, <2>1
  <2> QED
    BY <2>1, <2>3, <2>4 DEF j
<1>8. \A m \in 0 .. k - 1 : m \in S
  <2>1. k - 1 \in Nat
    OBVIOUS
  <2> HIDE DEF S
  <2> QED
    BY <1>6, <1>7, <2>1, Induction
<1>9. k - 1 \in 0 .. k - 1 /\ (k - 1) + 1 = k
  OBVIOUS
<1>10. at[k] = h[k]
  BY <1>8, <1>9
<1> QED
  BY <1>2, <1>10 DEF h, col

(* The drawing loop draws each glyph at its offset.                        *)
LEMMA ColumnsAre ==
    ASSUME NEW t \in Seq(Glyphs), args.scale \in Nat, Start(t).col \in Int,
           NEW k \in 1 .. Len(t)
    PROVE  \A i \in k .. Len(t) :
             Columns(t, k)[i - k + 1] = Start(t).col + args.scale * Offsets(t)[i]
<1> DEFINE scale == args.scale
           col == Start(t).col
           off == Offsets(t)
           n == Len(t)
           place(i) == col + scale * off[i]
           h == [j \in k - 1 .. n |-> IF j < k THEN <<>>
                                      ELSE [m \in 1 .. j - k + 1 |-> place(k + m - 1)]]
           step(j) == (Width(t[j]) + Width(Space)) * scale
           Body(u, j) == IF j < k THEN <<>>
                         ELSE IF j = k THEN <<SkippedTo(t, k)>>
                         ELSE Append(u[j - 1], u[j - 1][j - k] + step(j - 1))
           upto == CHOOSE u : u = [j \in k - 1 .. n |-> Body(u, j)]
<1>1. n \in Nat /\ scale \in Nat /\ col \in Int /\ \A i \in 1 .. n : off[i] \in Nat
  BY OffsetFacts
<1>2. Columns(t, k) = upto[n]
  BY DEF Columns
<1>3. SkippedTo(t, k) = place(k)
  BY SkippedToIs
<1>4. \A i \in 1 .. n : place(i) \in Int
  <2> SUFFICES ASSUME NEW i \in 1 .. n
               PROVE  place(i) \in Int
    OBVIOUS
  <2>1. off[i] \in Nat
    BY <1>1
  <2> HIDE DEF off, scale, col
  <2> QED
    BY <1>1, <2>1
<1>5. \A j \in 1 .. n - 1 : place(j) + step(j) = place(j + 1)
  <2> SUFFICES ASSUME NEW j \in 1 .. n - 1
               PROVE  place(j) + step(j) = place(j + 1)
    OBVIOUS
  <2> DEFINE a == off[j]
             b == Width(t[j]) + Width(Space)
             d == off[j + 1]
  <2>1. a \in Int /\ b \in Int /\ d = a + b
    <3>1. j \in 1 .. n
      BY <1>1
    <3>2. a \in Nat /\ Width(t[j]) \in Nat /\ d = a + Width(t[j]) + Width(Space)
      BY <3>1, OffsetFacts
    <3>3. Width(Space) \in Nat
      BY GapSize
    <3> HIDE DEF a, d
    <3> QED
      BY <3>2, <3>3
  <2>2. place(j) = col + scale * a /\ place(j + 1) = col + scale * d
        /\ step(j) = b * scale
    OBVIOUS
  <2> HIDE DEF a, b, d, scale, col, place, step
  <2>3. scale * a + b * scale = scale * d /\ scale * a \in Int /\ b * scale \in Int
    BY <1>1, <2>1, Distribute
  <2> DEFINE x == scale * a
             y == b * scale
  <2>4. x \in Int /\ y \in Int /\ x + y = scale * d
    BY <2>3
  <2> HIDE DEF x, y
  <2>5. (col + x) + y = col + (x + y)
    BY <1>1, <2>4
  <2> QED
    BY <2>2, <2>4, <2>5 DEF x, y
<1> HIDE DEF place, step, col, scale, off
<1>6. \A j \in k .. n : /\ h[j] \in Seq(Int) /\ Len(h[j]) = j - k + 1
                        /\ \A m \in 1 .. j - k + 1 : h[j][m] = place(k + m - 1)
  <2> SUFFICES ASSUME NEW j \in k .. n
               PROVE  /\ h[j] \in Seq(Int) /\ Len(h[j]) = j - k + 1
                      /\ \A m \in 1 .. j - k + 1 : h[j][m] = place(k + m - 1)
    OBVIOUS
  <2>1. h[j] = [m \in 1 .. j - k + 1 |-> place(k + m - 1)]
    BY <1>1
  <2>2. \A m \in 1 .. j - k + 1 : k + m - 1 \in 1 .. n
    BY <1>1
  <2>3. \A m \in 1 .. j - k + 1 : place(k + m - 1) \in Int
    BY <1>4, <2>2
  <2> DEFINE e(m) == place(k + m - 1)
             l == j - k + 1
  <2>4. l \in Nat /\ \A m \in 1 .. l : e(m) \in Int
    BY <2>3
  <2> HIDE DEF e, l, h
  <2>5. [m \in 1 .. l |-> e(m)] \in Seq(Int) /\ Len([m \in 1 .. l |-> e(m)]) = l
    BY <2>4
  <2>6. h[j] = [m \in 1 .. l |-> e(m)]
    BY <2>1 DEF e, l
  <2>7. \A m \in 1 .. l : h[j][m] = e(m)
    BY <2>6
  <2>8. h[j] \in Seq(Int) /\ Len(h[j]) = l
    BY <2>5, <2>6
  <2> QED
    BY <2>7, <2>8 DEF e, l
<1>7. \A j \in k - 1 .. n : h[j] = Body(h, j)
  <2> SUFFICES ASSUME NEW j \in k - 1 .. n
               PROVE  h[j] = Body(h, j)
    OBVIOUS
  <2>1. CASE j < k
    BY <2>1
  <2>2. CASE j = k
    <3>1. h[j] \in Seq(Int) /\ Len(h[j]) = 1 /\ h[j][1] = place(k)
      <4>1. j - k + 1 = 1 /\ k + 1 - 1 = k /\ j \in k .. n
        BY <2>2
      <4> HIDE DEF h
      <4>2. /\ h[j] \in Seq(Int) /\ Len(h[j]) = j - k + 1
            /\ \A m \in 1 .. j - k + 1 : h[j][m] = place(k + m - 1)
        BY <1>6, <4>1
      <4>3. h[j][1] = place(k + 1 - 1)
        BY <4>1, <4>2
      <4> QED
        BY <4>1, <4>2, <4>3
    <3>2. Body(h, j) = <<place(k)>>
      BY <1>3, <2>2
    <3>3. k \in 1 .. n /\ place(k) \in Int
      BY <1>4
    <3> HIDE DEF h, Body
    <3> QED
      BY <3>1, <3>2, <3>3
  <2>3. CASE j > k
    <3> DEFINE i == j - 1
    <3>1. i \in k .. n /\ j \in k .. n /\ i + 1 = j /\ i - k + 1 = j - k
          /\ i \in 1 .. n - 1
      BY <1>1, <2>3
    <3>2. Body(h, j) = Append(h[i], h[i][j - k] + step(i))
      <4> HIDE DEF h
      <4> QED
        BY <2>3
    <3> HIDE DEF i, h
    <3>3. h[i][j - k] = place(i)
      <4>1. j - k \in 1 .. i - k + 1 /\ k + (j - k) - 1 = i
        BY <2>3, <3>1
      <4> QED
        BY <1>6, <3>1, <4>1
    <3>4. h[i][j - k] + step(i) = place(j)
      BY <1>5, <3>1, <3>3
    <3>5. Body(h, j) = Append(h[i], place(j))
      BY <3>2, <3>4
    <3>6. place(j) \in Int
      BY <1>4, <3>1
    <3>7. h[i] \in Seq(Int) /\ Len(h[i]) = j - k
      BY <1>6, <3>1
    <3>8. /\ Append(h[i], place(j)) \in Seq(Int)
          /\ Len(Append(h[i], place(j))) = j - k + 1
          /\ \A m \in 1 .. j - k + 1 :
                Append(h[i], place(j))[m] = IF m = j - k + 1 THEN place(j) ELSE h[i][m]
      <4> DEFINE sq == h[i]
                 x == place(j)
      <4>1. sq \in Seq(Int) /\ Len(sq) = j - k /\ x \in Int
        BY <3>6, <3>7
      <4> HIDE DEF sq, x
      <4>2. /\ Append(sq, x) \in Seq(Int) /\ Len(Append(sq, x)) = j - k + 1
            /\ \A m \in 1 .. j - k + 1 :
                Append(sq, x)[m] = IF m = j - k + 1 THEN x ELSE sq[m]
        BY <4>1
      <4> QED
        BY <4>2 DEF sq, x
    <3>9. \A m \in 1 .. j - k + 1 : Append(h[i], place(j))[m] = h[j][m]
      <4> SUFFICES ASSUME NEW m \in 1 .. j - k + 1
                   PROVE  Append(h[i], place(j))[m] = place(k + m - 1)
        BY <1>6, <3>1
      <4>1. CASE m = j - k + 1
        <5>1. k + m - 1 = j
          BY <4>1
        <5> QED
          BY <3>8, <4>1, <5>1
      <4>2. CASE m # j - k + 1
        <5>1. m \in 1 .. i - k + 1
          BY <3>1, <4>2
        <5> QED
          BY <1>6, <3>1, <3>8, <4>2, <5>1
      <4> QED
        BY <4>1, <4>2
    <3>10. h[j] \in Seq(Int) /\ Len(h[j]) = j - k + 1
      BY <1>6, <3>1
    <3>11. Append(h[i], place(j)) = h[j]
      BY <3>8, <3>9, <3>10, SeqEqual
    <3> QED
      BY <3>5, <3>11
  <2> QED
    BY <2>1, <2>2, <2>3
<1>8. h = [j \in k - 1 .. n |-> Body(h, j)]
  <2>1. h = [j \in k - 1 .. n |-> h[j]]
    OBVIOUS
  <2> HIDE DEF h, Body
  <2> QED
    BY <1>7, <2>1
<1>9. upto = [j \in k - 1 .. n |-> Body(upto, j)]
  <2> HIDE DEF h, Body
  <2> QED
    BY <1>8
<1> HIDE DEF upto, h
<1> DEFINE r == n - (k - 1)
           S == {m \in 0 .. r : upto[(k - 1) + m] = h[(k - 1) + m]}
<1>10. 0 \in S /\ r \in Nat
  <2>1. k - 1 \in k - 1 .. n /\ (k - 1) + 0 = k - 1 /\ 0 \in 0 .. r /\ k - 1 < k
    BY <1>1
  <2>2. upto[k - 1] = <<>> /\ h[k - 1] = <<>>
    BY <1>7, <1>9, <2>1
  <2> QED
    BY <1>1, <2>1, <2>2
<1>11. ASSUME NEW m \in 0 .. r - 1, m \in S
       PROVE  m + 1 \in S
  <2> DEFINE j == (k - 1) + (m + 1)
  <2>1. j \in k - 1 .. n /\ j - 1 = (k - 1) + m /\ m + 1 \in 0 .. r
    BY <1>1
  <2>2. upto[j - 1] = h[j - 1]
    BY <1>11, <2>1
  <2> HIDE DEF j
  <2>3. Body(upto, j) = Body(h, j)
    BY <2>2
  <2> HIDE DEF Body
  <2>4. upto[j] = Body(upto, j) /\ h[j] = Body(h, j)
    BY <1>7, <1>9, <2>1
  <2> QED
    BY <2>1, <2>3, <2>4 DEF j
<1>12. \A m \in 0 .. r : m \in S
  <2> HIDE DEF S, r
  <2> QED
    BY <1>10, <1>11, Induction
<1>13. upto[n] = h[n]
  <2>1. r \in 0 .. r /\ (k - 1) + r = n
    BY <1>1, <1>10
  <2>2. r \in S
    <3> HIDE DEF r, S
    <3> QED
      BY <1>12, <2>1
  <2> QED
    BY <2>1, <2>2
<1>14. \A i \in k .. n : upto[n][i - k + 1] = place(i)
  <2> SUFFICES ASSUME NEW i \in k .. n
               PROVE  h[n][i - k + 1] = place(i)
    BY <1>13
  <2>1. i - k + 1 \in 1 .. n - k + 1 /\ k + (i - k + 1) - 1 = i /\ n \in k .. n
    BY <1>1
  <2> QED
    BY <1>6, <2>1
<1> QED
  BY <1>2, <1>14 DEF place, col, scale, off, n

-----------------------------------------------------------------------------
LEMMA Tallest ==
    ASSUME NEW t \in Seq(Glyphs), t # <<>>
    PROVE  \E h \in {Height(t[k]) : k \in DOMAIN t} : \A k \in DOMAIN t : Height(t[k])
             <= h
<1> DEFINE n == Len(t)
           Max(m, h) == /\ h \in {Height(t[k]) : k \in 1 .. m}
                        /\ \A k \in 1 .. m : Height(t[k]) <= h
           S == {m \in 0 .. n : m = 0 \/ \E h : Max(m, h)}
<1>1. n \in Nat /\ n # 0 /\ DOMAIN t = 1 .. n /\ \A k \in 1 .. n : Height(t[k]) \in Nat
  BY GlyphSize
<1>2. 0 \in S
  BY <1>1
<1>3. ASSUME NEW m \in 0 .. n - 1, m \in S
      PROVE  m + 1 \in S
  <2> DEFINE x == Height(t[m + 1])
  <2>1. m + 1 \in 0 .. n /\ m + 1 \in 1 .. m + 1 /\ x \in Nat
        /\ \A k \in 1 .. m + 1 : k \in 1 .. m \/ k = m + 1
    BY <1>1
  <2>2. Max(m + 1, x) \/ \E h : Max(m, h) /\ x <= h
    <3>1. CASE m = 0
      BY <2>1, <3>1
    <3>2. CASE m # 0
      <4>1. PICK h : Max(m, h)
        BY <1>3, <3>2
      <4>2. h \in Nat
        BY <1>1, <4>1
      <4>3. CASE x <= h
        BY <4>1, <4>3
      <4>4. CASE h < x
        BY <1>1, <2>1, <4>1, <4>2, <4>4
      <4> QED
        BY <2>1, <4>2, <4>3, <4>4
    <3> QED
      BY <3>1, <3>2
  <2>3. ASSUME NEW h, Max(m, h), x <= h
        PROVE  Max(m + 1, h)
    <3>1. h \in {Height(t[k]) : k \in 1 .. m + 1}
      BY <1>1, <2>3
    <3> QED
      BY <2>1, <2>3, <3>1
  <2> HIDE DEF Max, x
  <2> QED
    BY <2>1, <2>2, <2>3
<1>4. n \in S
  <2> HIDE DEF S
  <2>1. \A m \in 0 .. n : m \in S
    BY <1>1, <1>2, <1>3, Induction
  <2> QED
    BY <1>1, <2>1
<1> QED
  BY <1>1, <1>4

LEMMA TimeFacts ==
    ASSUME NEW t \in Times
    PROVE  t \in Seq(Glyphs) /\ t # <<>> /\ Len(t) \in Nat \ {0}
           /\ DOMAIN t = 1 .. Len(t)
<1>1. t \in Seq(Glyphs) /\ t # <<>>
  BY TimesAssumption DEF Glyphs
<1> QED
  BY <1>1

Placed == args \in [pos : Positions, scale : Scales] /\ term \in TermSizes

(* The box of the clock, which every glyph is in.                          *)
LEMMA ClockBox ==
    ASSUME Placed, NEW t \in Times
    PROVE  /\ args.scale \in Nat \ {0}
           /\ Start(t).row \in Int /\ Start(t).col \in Int
           /\ End(t).row \in Int /\ End(t).col \in Int
           /\ \A i \in 1 .. Len(t) :
                /\ Start(t).row + args.scale * Height(t[i]) <= End(t).row
                /\ Start(t).col + args.scale * (Offsets(t)[i] + Width(t[i]))
                     <= End(t).col
<1> DEFINE s == args.scale
           n == Len(t)
           h == CHOOSE h \in {Height(t[k]) : k \in DOMAIN t} :
                   \A k \in DOMAIN t : Height(t[k]) <= h
           w == Offsets(t)[n] + Width(t[n])
<1>1. /\ s \in Nat \ {0} /\ args.pos.row \in Nat /\ args.pos.col \in Nat
      /\ term.row \in Nat /\ term.col \in Nat
  <2>1. args.scale \in Scales /\ args.pos \in Positions /\ term \in TermSizes
    BY DEF Placed
  <2>2. args.pos \in [row : Nat, col : Nat] /\ args.scale \in 1 .. 255
    BY <2>1, ArgsAssumption
  <2>3. term.row \in Nat /\ term.col \in Nat
    BY <2>1, TermAssumption
  <2> QED
    BY <2>2, <2>3
<1>2. t \in Seq(Glyphs) /\ t # <<>> /\ n \in Nat \ {0} /\ DOMAIN t = 1 .. n
  BY TimeFacts
<1>3. h \in Nat /\ \A k \in 1 .. n : Height(t[k]) \in Nat /\ Height(t[k]) <= h
  <2>1. \A k \in 1 .. n : Height(t[k]) \in Nat
    BY <1>2, GlyphSize
  <2>2. \E x \in {Height(t[k]) : k \in DOMAIN t} : \A k \in DOMAIN t : Height(t[k]) <= x
    BY <1>2, Tallest
  <2>3. h \in {Height(t[k]) : k \in DOMAIN t} /\ \A k \in DOMAIN t : Height(t[k]) <= h
    BY <2>2
  <2> HIDE DEF h
  <2> QED
    BY <1>2, <2>1, <2>3
<1>4. w \in Nat /\ \A i \in 1 .. n : /\ Offsets(t)[i] \in Nat /\ Width(t[i]) \in Nat
                                     /\ Offsets(t)[i] + Width(t[i]) <= w
  <2>1. \A i \in 1 .. n : Offsets(t)[i] \in Nat /\ Width(t[i]) \in Nat
    BY <1>2, OffsetFacts
  <2>2. n \in 1 .. n
    BY <1>2
  <2>3. ASSUME NEW i \in 1 .. n
        PROVE  Offsets(t)[i] + Width(t[i]) <= w
    <3>1. CASE i = n
      BY <2>1, <2>2, <3>1
    <3>2. CASE i # n
      <4>1. n \in i + 1 .. Len(t) + 1
        <5>1. n \in Nat
          BY <1>2
        <5> HIDE DEF n
        <5>2. n \in i + 1 .. n + 1
          BY <3>2, <5>1
        <5> QED
          BY <5>2 DEF n
      <4> DEFINE a == Offsets(t)[i]
                 b == Width(t[i])
                 c == Offsets(t)[n]
                 d == Width(t[n])
      <4>2. a + b + Width(Space) <= c
        BY <1>2, <4>1, OffsetsGrow
      <4>3. a \in Nat /\ b \in Nat /\ c \in Nat /\ d \in Nat /\ Width(Space) \in Nat
        BY <2>1, <2>2, GapSize
      <4> HIDE DEF a, b, c, d
      <4>4. a + b <= c + d
        BY <4>2, <4>3
      <4> QED
        BY <4>4 DEF a, b, c, d
    <3> QED
      BY <3>1, <3>2
  <2> QED
    BY <2>1, <2>2, <2>3
<1>5. SizeRows(t, s) = s * h /\ SizeCols(t, s) = s * w
  BY <1>1, <1>2, SizeColsIs DEF SizeRows
<1> HIDE DEF h, w
<1>6. s * h \in Int /\ s * w \in Int
  <2> HIDE DEF s
  <2> QED
    BY <1>1, <1>3, <1>4
<1>7. Start(t).row \in Int /\ Start(t).col \in Int
  <2>1. \A x \in Int : (x \div 2) + 1 \in Int
    OBVIOUS
  <2>2. term.row - s * h \in Int /\ term.col - s * w \in Int
    BY <1>1, <1>6
  <2>3. /\ Start(t).row = IF args.pos.row = 0 THEN ((term.row - s * h) \div 2) + 1
                          ELSE args.pos.row
        /\ Start(t).col = IF args.pos.col = 0 THEN ((term.col - s * w) \div 2) + 1
                          ELSE args.pos.col
    BY <1>5 DEF Start, Centred
  <2> HIDE DEF s
  <2> QED
    BY <1>1, <2>1, <2>2, <2>3
<1>8. End(t).row = Start(t).row + s * h /\ End(t).col = Start(t).col + s * w
  BY <1>5 DEF End
<1>9. ASSUME NEW i \in 1 .. n
      PROVE  s * Height(t[i]) <= s * h /\ s * (Offsets(t)[i] + Width(t[i])) <= s * w
             /\ s * Height(t[i]) \in Int /\ s * (Offsets(t)[i] + Width(t[i])) \in Int
  <2> DEFINE a == Height(t[i])
             b == Offsets(t)[i] + Width(t[i])
  <2>1. a \in Int /\ b \in Int /\ a <= h /\ b <= w /\ h \in Int /\ w \in Int
        /\ s \in Nat
    BY <1>1, <1>3, <1>4
  <2> HIDE DEF a, b, s
  <2>2. s * a <= s * h /\ s * b <= s * w /\ s * a \in Int /\ s * b \in Int
    BY <2>1, ScaleUp
  <2> QED
    BY <2>2 DEF a, b
<1> DEFINE H == s * h
           W == s * w
           X(i) == s * Height(t[i])
           Y(i) == s * (Offsets(t)[i] + Width(t[i]))
<1>10. /\ H \in Int /\ W \in Int
       /\ End(t).row = Start(t).row + H /\ End(t).col = Start(t).col + W
       /\ \A i \in 1 .. n : X(i) \in Int /\ Y(i) \in Int /\ X(i) <= H /\ Y(i) <= W
  BY <1>6, <1>8, <1>9
<1> HIDE DEF H, W, X, Y
<1>11. /\ End(t).row \in Int /\ End(t).col \in Int
       /\ \A i \in 1 .. n : /\ Start(t).row + X(i) <= End(t).row
                            /\ Start(t).col + Y(i) <= End(t).col
  BY <1>7, <1>10
<1> QED
  BY <1>1, <1>7, <1>11 DEF X, Y

-----------------------------------------------------------------------------
(* The picture of a time whose clock begins at start.                      *)
Left(scale, t, start, i) == start.col + scale * Offsets(t)[i]

Covers(scale, t, start, i, cell) ==
    /\ cell[1] - start.row \in 0 .. Height(t[i]) * scale - 1
    /\ cell[2] - Left(scale, t, start, i) \in 0 .. Width(t[i]) * scale - 1

Glyph(scale, t, start, look, i, cell) ==
    IF Bit(t[i], scale, cell[1] - start.row, cell[2] - Left(scale, t, start, i))
    THEN Ink(look, t[i]) ELSE Blank

Pictured(scale, t, start, look, cell, c) ==
    IF \E i \in 1 .. Len(t) : Covers(scale, t, start, i, cell)
    THEN \A i \in 1 .. Len(t) : Covers(scale, t, start, i, cell) =>
            c = Glyph(scale, t, start, look, i, cell)
    ELSE c = Blank

LEMMA ScaledOffsets ==
    ASSUME Placed, NEW t \in Times, NEW i \in 1 .. Len(t)
    PROVE  /\ args.scale * Offsets(t)[i] \in Int
           /\ Width(t[i]) * args.scale \in Nat
           /\ Height(t[i]) * args.scale \in Nat
           /\ args.scale * Height(t[i]) = Height(t[i]) * args.scale
           /\ args.scale * (Offsets(t)[i] + Width(t[i]))
                = args.scale * Offsets(t)[i] + Width(t[i]) * args.scale
<1> DEFINE s == args.scale
           a == Offsets(t)[i]
           w == Width(t[i])
           h == Height(t[i])
<1>1. s \in Nat /\ t \in Seq(Glyphs)
  BY ClockBox, TimeFacts
<1>2. a \in Nat /\ w \in Nat /\ h \in Nat
  <2>1. t[i] \in Glyphs
    BY <1>1
  <2> QED
    BY <1>1, <2>1, OffsetFacts, GlyphSize
<1> HIDE DEF s, a, w, h
<1>3. s * a \in Int /\ w * s \in Nat /\ h * s \in Nat /\ s * h = h * s
      /\ s * (a + w) = s * a + w * s
  BY <1>1, <1>2
<1> QED
  BY <1>3 DEF s, a, w, h

(* No cell belongs to two glyphs.                                          *)
LEMMA CoversOne ==
    ASSUME Placed, NEW t \in Times, NEW start, start.col \in Int, NEW cell,
           cell[2] \in Int,
           NEW i \in 1 .. Len(t), NEW j \in 1 .. Len(t),
           Covers(args.scale, t, start, i, cell), Covers(args.scale, t, start, j, cell)
    PROVE  i = j
<1>1. ASSUME NEW p \in 1 .. Len(t), NEW q \in 1 .. Len(t), p < q,
             Covers(args.scale, t, start, p, cell),
             Covers(args.scale, t, start, q, cell)
      PROVE  FALSE
  <2> DEFINE s == args.scale
             a == Offsets(t)[p]
             w == Width(t[p])
             b == Offsets(t)[q]
             x == cell[2]
             c == start.col
             A == s * a
             W == w * s
             B == s * b
             v == Width(t[q]) * s
  <2>1. t \in Seq(Glyphs) /\ s \in Nat
    BY ClockBox, TimeFacts
  <2>2. a \in Nat /\ w \in Nat /\ b \in Nat
    BY <2>1, OffsetFacts
  <2>3. a + w <= b
    <3>1. q \in p + 1 .. Len(t) + 1
      BY <1>1
    <3>2. a + w + Width(Space) <= b
      BY <2>1, <3>1, OffsetsGrow
    <3> QED
      BY <2>2, <3>2, GapSize
  <2>4. s * (a + w) <= s * b
    <3> HIDE DEF s, a, w, b
    <3> QED
      BY <2>1, <2>2, <2>3, ScaleUp
  <2>5. A + W <= B /\ A \in Int /\ W \in Int /\ B \in Int /\ v \in Int /\ x \in Int
        /\ c \in Int
    BY <2>4, ScaledOffsets
  <2>6. x - (c + A) \in 0 .. W - 1 /\ x - (c + B) \in 0 .. v - 1
    BY <1>1 DEF Covers, Left
  <2> HIDE DEF A, W, B, v, x, c
  <2>7. x <= (c + A) + W - 1 /\ x >= c + B
    BY <2>5, <2>6
  <2> QED
    BY <2>5, <2>7
<1> QED
  BY <1>1

(* The drawing loop's columns are those of the offsets.                    *)
LEMMA CoveringIs ==
    ASSUME Placed, NEW t \in Times, NEW k \in 1 .. Len(t) + 1,
           NEW cell \in Cells(term)
    PROVE  Covering(t, k)[cell]
             = {i \in k .. Len(t) : Covers(args.scale, t, Start(t), i, cell)}
<1> DEFINE scale == args.scale
           top == Start(t).row
           left == Columns(t, k)
           InGlyph(i) ==
               /\ cell[1] - top \in 0 .. Height(t[i]) * scale - 1
               /\ cell[2] - left[i - k + 1] \in 0 .. Width(t[i]) * scale - 1
<1>1. Covering(t, k)[cell] = {i \in k .. Len(t) : InGlyph(i)}
  BY DEF Covering
<1>2. t \in Seq(Glyphs) /\ Len(t) \in Nat /\ scale \in Nat /\ Start(t).col \in Int
  BY ClockBox, TimeFacts
<1>3. \A i \in k .. Len(t) : left[i - k + 1] = Left(args.scale, t, Start(t), i)
  <2> SUFFICES ASSUME NEW i \in k .. Len(t)
               PROVE  left[i - k + 1] = Left(args.scale, t, Start(t), i)
    OBVIOUS
  <2>1. k \in 1 .. Len(t)
    BY <1>2
  <2> QED
    BY <1>2, <2>1, ColumnsAre DEF Left
<1> HIDE DEF left
<1>4. \A i \in k .. Len(t) : InGlyph(i) <=> Covers(args.scale, t, Start(t), i, cell)
  BY <1>3 DEF Covers
<1> HIDE DEF InGlyph
<1> QED
  BY <1>1, <1>4

(* display_number draws the glyphs from the k-th on, and nothing else.     *)
LEMMA DrawnIs ==
    ASSUME Placed, NEW t \in Times, NEW k \in 1 .. Len(t) + 1, NEW look, NEW old,
           DOMAIN old = Cells(term), NEW cell \in Cells(term), cell[2] \in Int
    PROVE  /\ DOMAIN Drawn(old, t, k, look) = DOMAIN old
           /\ \/ \E i \in k .. Len(t) : Covers(args.scale, t, Start(t), i, cell)
              \/ Drawn(old, t, k, look)[cell] = old[cell]
           /\ \A i \in k .. Len(t) : Covers(args.scale, t, Start(t), i, cell) =>
                 Drawn(old, t, k, look)[cell]
                   = Glyph(args.scale, t, Start(t), look, i, cell)
<1> DEFINE scale == args.scale
           top == Start(t).row
           left == Columns(t, k)
           On(c) == Covering(t, k)[c]
           Cell(c) == IF On(c) = {} THEN old[c]
                      ELSE LET i == CHOOSE i \in On(c) : TRUE
                           IN  IF Bit(t[i], scale, c[1] - top, c[2] - left[i - k + 1])
                               THEN Ink(look, t[i]) ELSE Blank
<1>1. Drawn(old, t, k, look) = [c \in DOMAIN old |-> Cell(c)]
  BY DEF Drawn
<1>2. t \in Seq(Glyphs) /\ Len(t) \in Nat /\ scale \in Nat /\ Start(t).col \in Int
  BY ClockBox, TimeFacts
<1>3. \A i \in k .. Len(t) : left[i - k + 1] = Left(args.scale, t, Start(t), i)
  <2> SUFFICES ASSUME NEW i \in k .. Len(t)
               PROVE  left[i - k + 1] = Left(args.scale, t, Start(t), i)
    OBVIOUS
  <2>1. k \in 1 .. Len(t)
    BY <1>2
  <2> QED
    BY <1>2, <2>1, ColumnsAre DEF Left
<1> HIDE DEF left
<1>5. On(cell) = {i \in k .. Len(t) : Covers(args.scale, t, Start(t), i, cell)}
  BY CoveringIs
<1> HIDE DEF On
<1>6. Drawn(old, t, k, look)[cell] = Cell(cell)
  <2> HIDE DEF Cell
  <2> QED
    BY <1>1
<1>7. ASSUME NEW i \in k .. Len(t), Covers(args.scale, t, Start(t), i, cell)
      PROVE  Cell(cell) = Glyph(args.scale, t, Start(t), look, i, cell)
  <2> DEFINE j == CHOOSE m \in On(cell) : TRUE
  <2>1. i \in On(cell)
    BY <1>5, <1>7
  <2>2. j \in On(cell)
    BY <2>1
  <2>3. j \in k .. Len(t) /\ Covers(args.scale, t, Start(t), j, cell)
    BY <1>5, <2>2
  <2>4. i \in 1 .. Len(t) /\ j \in 1 .. Len(t)
    BY <1>2, <2>3
  <2>5. j = i
    BY <1>2, <1>7, <2>3, <2>4, CoversOne
  <2>6. Cell(cell) = IF Bit(t[j], scale, cell[1] - top, cell[2] - left[j - k + 1])
                     THEN Ink(look, t[j]) ELSE Blank
    BY <2>1
  <2> HIDE DEF j, Cell
  <2> QED
    BY <1>3, <1>7, <2>5, <2>6 DEF Glyph
<1>8. (\E i \in k .. Len(t) : Covers(args.scale, t, Start(t), i, cell))
      \/ Cell(cell) = old[cell]
  BY <1>5
<1> HIDE DEF Cell
<1> QED
  BY <1>1, <1>6, <1>7, <1>8

-----------------------------------------------------------------------------
LEMMA FirstChangeIs ==
    ASSUME NEW t \in Times, last_draw.time \in Times
    PROVE  /\ FirstChange(t) \in 1 .. Len(t) + 1
           /\ \A j \in 1 .. FirstChange(t) - 1 : t[j] = last_draw.time[j]
<1> DEFINE s == last_draw.time
           n == Len(t)
           Good(k) == /\ k <= n => k > Len(s) \/ t[k] # s[k]
                      /\ \A j \in 1 .. k - 1 : t[j] = s[j]
           T == {k \in 1 .. n + 1 : k <= n => k > Len(s) \/ t[k] # s[k]}
<1>1. n \in Nat /\ Len(s) = n
  BY TimeFacts, TimesAssumption
<1>2. n + 1 \in T /\ T \subseteq Nat
  BY <1>1
<1>3. PICK k \in T : \A y \in T : k <= y
  <2> HIDE DEF T
  <2> QED
    BY <1>2, LeastElement
<1>4. k \in 1 .. n + 1 /\ Good(k)
  <2>1. k \in 1 .. n + 1 /\ (k <= n => k > Len(s) \/ t[k] # s[k])
    BY <1>3
  <2>2. ASSUME NEW j \in 1 .. k - 1
        PROVE  t[j] = s[j]
    <3>1. j \in 1 .. n + 1 /\ j <= n /\ ~(k <= j)
      BY <1>1, <2>1
    <3>2. j \notin T
      BY <1>3, <3>1
    <3> QED
      BY <3>1, <3>2
  <2> QED
    BY <2>1, <2>2
<1>5. FirstChange(t) = CHOOSE x \in 1 .. n + 1 : Good(x)
  BY DEF FirstChange
<1>6. FirstChange(t) \in 1 .. n + 1 /\ Good(FirstChange(t))
  <2> HIDE DEF Good
  <2> QED
    BY <1>4, <1>5
<1> QED
  BY <1>6

(* Two times have their glyphs at the same places.                         *)
LEMMA SamePlaces ==
    ASSUME NEW s \in Times, NEW t \in Times, NEW start, NEW cell
    PROVE  /\ Len(s) = Len(t)
           /\ \A i \in 1 .. Len(t) :
                /\ Covers(args.scale, t, start, i, cell)
                     <=> Covers(args.scale, s, start, i, cell)
                /\ \A look : t[i] = s[i] =>
                     Glyph(args.scale, t, start, look, i, cell)
                       = Glyph(args.scale, s, start, look, i, cell)
<1>1. s \in Seq(Glyphs) /\ t \in Seq(Glyphs) /\ Len(s) = Len(t) /\ Len(t) \in Nat
      /\ DOMAIN t = 1 .. Len(t)
  BY TimeFacts, TimesAssumption
<1>2. \A i \in 1 .. Len(t) : Width(s[i]) = Width(t[i]) /\ Height(s[i]) = Height(t[i])
  BY <1>1, TimesAssumption
<1>3. \A i \in 1 .. Len(t) : Offsets(s)[i] = Offsets(t)[i]
  <2>1. \A i \in 1 .. Len(t) + 1 : Offsets(s)[i] = Offsets(t)[i]
    BY <1>1, <1>2, OffsetsAgree
  <2> QED
    BY <1>1, <2>1
<1> SUFFICES ASSUME NEW i \in 1 .. Len(t)
             PROVE  /\ Covers(args.scale, t, start, i, cell)
                         <=> Covers(args.scale, s, start, i, cell)
                    /\ \A look : t[i] = s[i] =>
                         Glyph(args.scale, t, start, look, i, cell)
                           = Glyph(args.scale, s, start, look, i, cell)
  BY <1>1
<1>4. Left(args.scale, t, start, i) = Left(args.scale, s, start, i)
  BY <1>3 DEF Left
<1>5. Covers(args.scale, t, start, i, cell) <=> Covers(args.scale, s, start, i, cell)
  BY <1>2, <1>4 DEF Covers
<1>6. ASSUME NEW look, t[i] = s[i]
      PROVE  Glyph(args.scale, t, start, look, i, cell)
               = Glyph(args.scale, s, start, look, i, cell)
  BY <1>4, <1>6 DEF Glyph
<1> QED
  BY <1>5, <1>6

-----------------------------------------------------------------------------
Places == [row : Int, col : Int]
LastDraws == [start : Places, end : Places, colour : Colours,
              fill : {"NULL"} \cup {l.fill : l \in Looks}, time : {<<>>} \cup Times]

(* ShowsTime cell by cell.                                                 *)
ShowsPicture ==
    mode = "clock" /\ last_draw.time # <<>> /\ ~stale =>
      \A cell \in Clean :
        Pictured(args.scale, last_draw.time, last_draw.start, last_draw, cell,
        screen[cell])

IInv ==
    /\ args \in [pos : Positions, scale : Scales]
    /\ mode \in {"clock", "prompt"}
    /\ term \in TermSizes
    /\ screen \in [Cells(term) -> Chars \X Colours]
    /\ cursor \in (1 .. term.row) \X (1 .. term.col + 1)
    /\ typed \in 0 .. MaxTyped
    /\ last_draw \in LastDraws
    /\ stale \in BOOLEAN
    /\ touched \subseteq Cells(term)
    /\ NoResidue
    /\ ShowsPicture

LEMMA CellFacts ==
    ASSUME NEW size \in TermSizes, NEW cell \in Cells(size)
    PROVE  /\ size.row \in Nat /\ size.col \in Nat
           /\ cell = <<cell[1], cell[2]>>
           /\ cell[1] \in 1 .. size.row /\ cell[2] \in 1 .. size.col
           /\ cell[1] \in Int /\ cell[2] \in Int
<1>1. size.row \in Nat /\ size.col \in Nat
  BY TermAssumption
<1>2. cell \in (1 .. size.row) \X (1 .. size.col)
  BY DEF Cells
<1> QED
  BY <1>1, <1>2

LEMMA InkTyped ==
    /\ Blank \in Chars \X Colours
    /\ <<"prompt", 0>> \in Chars \X Colours /\ <<"text", 0>> \in Chars \X Colours
    /\ \A look \in Looks : \A g \in Glyphs : Ink(look, g) \in Chars \X Colours
<1>1. " " \in Chars /\ "prompt" \in Chars /\ "text" \in Chars /\ 0 \in Colours
  BY DEF Chars, Colours
<1>2. ASSUME NEW look \in Looks, NEW g \in Glyphs
      PROVE  Ink(look, g) \in Chars \X Colours
  <2>1. look.fill \in Chars /\ g \in Chars /\ look.colour \in Colours
    BY DEF Chars, Colours, Glyphs
  <2>2. (IF look.fill = "" THEN g ELSE look.fill) \in Chars
    BY <2>1
  <2> QED
    BY <2>1, <2>2 DEF Ink
<1> QED
  BY <1>1, <1>2 DEF Blank

LEMMA TermFacts ==
    ASSUME NEW size \in TermSizes
    PROVE  /\ size.row \in Nat \ {0} /\ size.col \in Nat \ {0}
           /\ Prompt + 1 \in 1 .. size.col + 1 /\ MaxTyped \in Nat
<1>1. size.row \in Nat \ {0} /\ size.col \in Nat /\ size.col > Prompt
      /\ Prompt \in Nat /\ MaxTyped \in Nat
  BY TermAssumption
<1> QED
  BY <1>1

LEMMA InitInv == Init => IInv
<1> SUFFICES ASSUME Init
             PROVE  IInv
  OBVIOUS
<1>1. args \in [pos : Positions, scale : Scales] /\ mode = "clock" /\ term \in TermSizes
      /\ screen = [cell \in Cells(term) |-> Blank] /\ stale = TRUE
  BY DEF Init, Filled
<1>2. screen \in [Cells(term) -> Chars \X Colours]
  BY <1>1, InkTyped
<1>3. last_draw \in LastDraws
  BY DEF Init, LastDraws, Places, Colours
<1>4. NoResidue /\ ShowsPicture
  <2>1. \A cell \in Clean : screen[cell] = Blank
    BY <1>1 DEF Clean
  <2>2. last_draw.time = <<>>
    BY DEF Init
  <2> QED
    BY <2>1, <2>2 DEF NoResidue, ShowsPicture
<1>5. cursor \in (1 .. term.row) \X (1 .. term.col + 1) /\ typed \in 0 .. MaxTyped
  <2>1. term.row \in Nat \ {0} /\ term.col \in Nat \ {0} /\ MaxTyped \in Nat
    BY <1>1, TermFacts
  <2> QED
    BY <2>1 DEF Init
<1>6. touched \subseteq Cells(term)
  BY DEF Init
<1> QED
  BY <1>1, <1>2, <1>3, <1>4, <1>5, <1>6 DEF IInv

-----------------------------------------------------------------------------
LEMMA LastTime ==
    ASSUME last_draw \in LastDraws, last_draw.time # <<>>
    PROVE  last_draw.time \in Times
  BY DEF LastDraws

(* Where a frame draws no glyph it leaves what was there.                  *)
LEMMA FrameCells ==
    ASSUME IInv, NEW t \in Times, NEW look \in Looks, Frame(t, look)
    PROVE  \E k \in 1 .. Len(t) + 1 :
             /\ full_redraw(t, look) => k = 1
             /\ ~full_redraw(t, look) =>
                  /\ last_draw.time \in Times
                  /\ \A j \in 1 .. k - 1 : t[j] = last_draw.time[j]
             /\ screen' = [cell \in Cells(term) |->
                             Prompted(Drawn(IF full_redraw(t, look)
                                            THEN screen_clear_box(screen) ELSE screen,
                                            t, k, look))[cell]]
             /\ touched' = {cell \in Below(touched) :
                              /\ ~(full_redraw(t, look) /\ InLastBox(cell))
                              /\ Covering(t, k)[cell] = {}}
<1> DEFINE all == full_redraw(t, look)
           k == IF all THEN 1 ELSE FirstChange(t)
           cleared == IF all THEN screen_clear_box(screen) ELSE screen
<1>1. screen' = Prompted(Drawn(cleared, t, k, look))
  BY DEF Frame
<1>2. DOMAIN screen = Cells(term) /\ last_draw \in LastDraws
  BY DEF IInv
<1>3. DOMAIN cleared = Cells(term)
  BY <1>2 DEF screen_clear_box
<1>4. DOMAIN Prompted(Drawn(cleared, t, k, look)) = Cells(term)
  BY <1>3 DEF Prompted, Drawn
<1>5. screen' = [cell \in Cells(term) |-> Prompted(Drawn(cleared, t, k, look))[cell]]
  <2> DEFINE sc == Prompted(Drawn(cleared, t, k, look))
  <2>1. sc = [cell \in DOMAIN sc |-> sc[cell]]
    BY DEF Prompted
  <2> HIDE DEF sc
  <2> QED
    BY <1>1, <1>4, <2>1 DEF sc
<1>6. ~all => last_draw.time \in Times
  BY <1>2, LastTime DEF full_redraw
<1>7. k \in 1 .. Len(t) + 1 /\ (~all => \A j \in 1 .. k - 1 : t[j] = last_draw.time[j])
  <2>1. CASE all
    BY <2>1, TimeFacts
  <2>2. CASE ~all
    BY <1>6, <2>2, FirstChangeIs
  <2> QED
    BY <2>1, <2>2
<1>8. all => k = 1
  OBVIOUS
<1>9. touched' = {cell \in Below(touched) : ~(all /\ InLastBox(cell))
                                         /\ Covering(t, k)[cell] = {}}
  BY DEF Frame
<1> HIDE DEF k, all
<1> QED
  BY <1>5, <1>6, <1>7, <1>8, <1>9 DEF all

(* What was drawn before is gone behind a cleared box.                     *)
LEMMA Cleared ==
    ASSUME IInv, mode = "clock", NEW cell \in Cells(term),
           cell \in Clean \/ InLastBox(cell)
    PROVE  screen_clear_box(screen)[cell] = Blank
<1>1. DOMAIN screen = Cells(term) /\ last_draw \in LastDraws
  BY DEF IInv
<1>2. screen_clear_box(screen)[cell] = IF InLastBox(cell) THEN Blank ELSE screen[cell]
  BY <1>1 DEF screen_clear_box
<1>3. /\ last_draw.start.row \in Int /\ last_draw.end.row \in Int
      /\ last_draw.start.col \in Int /\ last_draw.end.col \in Int
  BY <1>1 DEF LastDraws, Places
<1>4. cell \in Clean =>
        \/ screen[cell] = Blank
        \/ /\ cell[1] \in last_draw.start.row .. last_draw.end.row - 1
           /\ cell[2] \in last_draw.start.col .. last_draw.end.col - 1
  BY DEF IInv, NoResidue
<1>5. \A a, b \in Int : \A x : x \in a .. b - 1 => x \in a .. b
  OBVIOUS
<1>6. screen[cell] = Blank \/ InLastBox(cell)
  BY <1>3, <1>4, <1>5 DEF InLastBox
<1> QED
  BY <1>2, <1>6

(* A glyph lies in the box of its clock.                                   *)
LEMMA CoveredInBox ==
    ASSUME Placed, NEW t \in Times, NEW i \in 1 .. Len(t), NEW cell,
           cell[1] \in Int, cell[2] \in Int, Covers(args.scale, t, Start(t), i, cell)
    PROVE  /\ cell[1] \in Start(t).row .. End(t).row - 1
           /\ cell[2] \in Start(t).col .. End(t).col - 1
<1> DEFINE s == args.scale
           h == Height(t[i]) * s
           a == s * Offsets(t)[i]
           w == Width(t[i]) * s
           r0 == Start(t).row
           c0 == Start(t).col
           r1 == End(t).row
           c1 == End(t).col
           x == cell[1]
           y == cell[2]
<1>1. r0 \in Int /\ c0 \in Int /\ r1 \in Int /\ c1 \in Int /\ x \in Int /\ y \in Int
  BY ClockBox
<1>2. h \in Nat /\ a \in Int /\ w \in Nat
  BY ScaledOffsets
<1>3. r0 + h <= r1 /\ c0 + (a + w) <= c1
  <2>1. /\ Start(t).row + s * Height(t[i]) <= End(t).row
        /\ Start(t).col + s * (Offsets(t)[i] + Width(t[i])) <= End(t).col
    BY ClockBox
  <2>2. s * Height(t[i]) = h /\ s * (Offsets(t)[i] + Width(t[i])) = a + w
    BY ScaledOffsets
  <2> HIDE DEF s, h, a, w
  <2> QED
    BY <2>1, <2>2
<1>4. x - r0 \in 0 .. h - 1 /\ y - (c0 + a) \in 0 .. w - 1
  BY DEF Covers, Left
<1>5. a >= 0
  <2>1. s \in Nat /\ t \in Seq(Glyphs)
    BY ClockBox, TimeFacts
  <2> DEFINE b == Offsets(t)[i]
  <2>2. b \in Nat
    BY <2>1, OffsetFacts
  <2> HIDE DEF b, s
  <2>3. s * b >= 0
    BY <2>1, <2>2
  <2> QED
    BY <2>3 DEF b
<1> HIDE DEF h, a, w, r0, c0, r1, c1, x, y
<1>6. x \in r0 .. r1 - 1 /\ y \in c0 .. c1 - 1
  BY <1>1, <1>2, <1>3, <1>4, <1>5
<1> QED
  BY <1>6 DEF r0, c0, r1, c1, x, y

LEMMA GlyphTyped ==
    ASSUME NEW t \in Times, NEW i \in 1 .. Len(t), NEW start, NEW look \in Looks,
               NEW cell
    PROVE  Glyph(args.scale, t, start, look, i, cell) \in Chars \X Colours
<1>1. t[i] \in Glyphs
  BY TimeFacts
<1> QED
  BY <1>1, InkTyped DEF Glyph

LEMMA FrameStep ==
    ASSUME IInv, NEW t \in Times, NEW look \in Looks, Frame(t, look)
    PROVE  IInv'
<1> DEFINE all == full_redraw(t, look)
           base == IF all THEN screen_clear_box(screen) ELSE screen
<1>1. /\ mode = "clock" /\ mode' = "clock" /\ term' = term /\ args' = args
      /\ stale' = (stale /\ ~all)
      /\ last_draw' = [start |-> Start(t), end |-> End(t),
                       colour |-> look.colour, fill |-> look.fill, time |-> t]
  BY DEF Frame
<1>2. /\ screen \in [Cells(term) -> Chars \X Colours] /\ last_draw \in LastDraws
      /\ term \in TermSizes /\ Placed /\ stale \in BOOLEAN
  BY DEF IInv, Placed
<1>3. PICK k \in 1 .. Len(t) + 1 :
             /\ all => k = 1
             /\ ~all =>
                  /\ last_draw.time \in Times
                  /\ \A j \in 1 .. k - 1 : t[j] = last_draw.time[j]
             /\ screen' = [cell \in Cells(term) |->
                             Prompted(Drawn(base, t, k, look))[cell]]
             /\ touched' = {cell \in Below(touched) :
                              ~(all /\ InLastBox(cell)) /\ Covering(t, k)[cell] = {}}
  BY FrameCells
<1> DEFINE drawn == Drawn(base, t, k, look)
<1>4. DOMAIN base = Cells(term)
      /\ \A cell \in Cells(term) : base[cell] = Blank \/ base[cell] = screen[cell]
  BY <1>2 DEF screen_clear_box
<1>5. /\ Start(t).row \in Int /\ Start(t).col \in Int
      /\ End(t).row \in Int /\ End(t).col \in Int
      /\ t \in Seq(Glyphs) /\ t # <<>> /\ Len(t) \in Nat \ {0}
  BY <1>2, ClockBox, TimeFacts
<1> HIDE DEF base
<1>6. ASSUME NEW cell \in Cells(term)
      PROVE  /\ \/ \E i \in k .. Len(t) : Covers(args.scale, t, Start(t), i, cell)
                \/ drawn[cell] = base[cell]
             /\ \A i \in k .. Len(t) : Covers(args.scale, t, Start(t), i, cell) =>
                  drawn[cell] = Glyph(args.scale, t, Start(t), look, i, cell)
             /\ DOMAIN drawn = Cells(term)
  <2>1. cell[2] \in Int
    BY <1>2, CellFacts
  <2>2. cell \in DOMAIN base
    BY <1>4
  <2>3. /\ DOMAIN Drawn(base, t, k, look) = DOMAIN base
        /\ \/ \E i \in k .. Len(t) : Covers(args.scale, t, Start(t), i, cell)
           \/ Drawn(base, t, k, look)[cell] = base[cell]
        /\ \A i \in k .. Len(t) : Covers(args.scale, t, Start(t), i, cell) =>
              Drawn(base, t, k, look)[cell]
                = Glyph(args.scale, t, Start(t), look, i, cell)
    <3>1. Placed
      BY <1>2
    <3>2. DOMAIN Drawn(base, t, k, look) = DOMAIN base
      BY DEF Drawn
    <3>3. \/ \E i \in k .. Len(t) : Covers(args.scale, t, Start(t), i, cell)
          \/ Drawn(base, t, k, look)[cell] = base[cell]
      BY <1>4, <2>1, <2>2, <3>1, DrawnIs
    <3>4. ASSUME NEW i \in k .. Len(t), Covers(args.scale, t, Start(t), i, cell)
          PROVE  Drawn(base, t, k, look)[cell]
                   = Glyph(args.scale, t, Start(t), look, i, cell)
      BY <1>4, <2>1, <2>2, <3>1, <3>4, DrawnIs
    <3> QED
      BY <3>2, <3>3, <3>4
  <2> QED
    BY <1>4, <2>3
<1> HIDE DEF drawn
<1>7. ASSUME NEW cell \in Cells(term)
      PROVE  /\ cell[1] # 1 => screen'[cell] = drawn[cell]
             /\ screen'[cell] \in {drawn[cell], <<"prompt", 0>>, Blank}
  <2>1. screen'[cell] = Prompted(drawn)[cell]
    BY <1>3 DEF drawn
  <2>2. DOMAIN drawn = Cells(term)
    BY <1>6
  <2> QED
    BY <2>1, <2>2 DEF Prompted
<1>8. screen' \in [Cells(term') -> Chars \X Colours]
  <2>1. ASSUME NEW cell \in Cells(term)
        PROVE  screen'[cell] \in Chars \X Colours
    <3>1. base[cell] \in Chars \X Colours
      BY <1>2, <1>4, InkTyped
    <3>2. drawn[cell] \in Chars \X Colours
      <4>1. CASE \E i \in k .. Len(t) : Covers(args.scale, t, Start(t), i, cell)
        <5>1. PICK i \in k .. Len(t) : Covers(args.scale, t, Start(t), i, cell)
          BY <4>1
        <5>2. i \in 1 .. Len(t)
          BY <1>5
        <5> QED
          BY <1>6, <5>1, <5>2, GlyphTyped
      <4>2. CASE ~\E i \in k .. Len(t) : Covers(args.scale, t, Start(t), i, cell)
        BY <1>6, <3>1, <4>2
      <4> QED
        BY <4>1, <4>2
    <3> QED
      BY <1>7, <3>2, InkTyped
  <2>2. screen' = [cell \in Cells(term) |-> screen'[cell]]
    BY <1>3
  <2> QED
    BY <1>1, <2>1, <2>2
<1>9. last_draw' \in LastDraws
  <2>1. Start(t) \in Places /\ End(t) \in Places
    BY <1>5 DEF Start, End, Places
  <2> QED
    BY <1>1, <2>1 DEF LastDraws, Colours
<1>10. Clean' \subseteq Cells(term) /\ \A cell \in Clean' : cell[1] # 1
  BY <1>1 DEF Clean
<1>11. ASSUME NEW cell \in Clean',
              ~\E i \in k .. Len(t) : Covers(args.scale, t, Start(t), i, cell)
       PROVE  cell \in Clean \/ (all /\ InLastBox(cell))
  <2>1. Covering(t, k)[cell] = {}
    BY <1>2, <1>10, <1>11, CoveringIs
  <2> QED
    BY <1>3, <1>10, <1>11, <2>1 DEF Clean, Below
<1>12. ASSUME NEW cell \in Clean',
              ~\E i \in k .. Len(t) : Covers(args.scale, t, Start(t), i, cell)
       PROVE  /\ screen'[cell] = IF all THEN Blank ELSE screen[cell]
              /\ ~all => cell \in Clean
  <2>1. screen'[cell] = base[cell]
    BY <1>6, <1>7, <1>12, <1>10
  <2>2. CASE all
    <3>1. cell \in Clean \/ InLastBox(cell)
      BY <1>11, <1>12, <2>2
    <3>2. screen_clear_box(screen)[cell] = Blank
      BY <1>1, <1>12, <3>1, Cleared DEF Clean
    <3> QED
      BY <2>1, <2>2, <3>2 DEF base
  <2>3. CASE ~all
    BY <1>11, <1>12, <2>1, <2>3 DEF base
  <2> QED
    BY <2>2, <2>3
<1>13. NoResidue'
  <2> SUFFICES ASSUME NEW cell \in Clean', screen'[cell] # Blank
               PROVE  /\ cell[1] \in Start(t).row .. End(t).row - 1
                      /\ cell[2] \in Start(t).col .. End(t).col - 1
    BY <1>1, <1>5 DEF NoResidue
  <2>1. CASE \E i \in k .. Len(t) : Covers(args.scale, t, Start(t), i, cell)
    <3>1. PICK i \in k .. Len(t) : Covers(args.scale, t, Start(t), i, cell)
      BY <2>1
    <3>2. i \in 1 .. Len(t) /\ cell[1] \in Int /\ cell[2] \in Int
      BY <1>2, <1>5, <1>10, CellFacts
    <3> QED
      BY <1>2, <3>1, <3>2, CoveredInBox
  <2>2. CASE ~\E i \in k .. Len(t) : Covers(args.scale, t, Start(t), i, cell)
    <3>1. ~all /\ screen[cell] # Blank /\ cell \in Clean
      BY <1>12, <2>2
    <3>2. last_draw.start = Start(t) /\ last_draw.end = End(t)
      BY <3>1 DEF full_redraw
    <3> QED
      BY <1>1, <3>1, <3>2 DEF IInv, NoResidue
  <2> QED
    BY <2>1, <2>2
<1>14. ShowsPicture'
  <2> SUFFICES ASSUME ~stale', NEW cell \in Clean'
               PROVE  Pictured(args.scale, t, Start(t), look, cell, screen'[cell])
    <3> DEFINE start == Start(t)
    <3>1. /\ last_draw'.time = t /\ last_draw'.start = start
          /\ last_draw'.colour = look.colour /\ last_draw'.fill = look.fill
      BY <1>1
    <3> HIDE DEF start
    <3>2. ASSUME NEW cell, NEW c, Pictured(args.scale, t, start, look, cell, c)
          PROVE  Pictured(args'.scale, last_draw'.time, last_draw'.start, last_draw',
                 cell, c)
      <4>1. \A g : Ink(last_draw', g) = Ink(look, g)
        BY <3>1 DEF Ink
      <4> QED
        BY <1>1, <3>1, <3>2, <4>1 DEF Pictured, Glyph
    <3> QED
      BY <1>1, <3>2 DEF start, ShowsPicture
  <2>1. CASE \E i \in k .. Len(t) : Covers(args.scale, t, Start(t), i, cell)
    <3>1. PICK i \in k .. Len(t) : Covers(args.scale, t, Start(t), i, cell)
      BY <2>1
    <3>2. i \in 1 .. Len(t) /\ cell[2] \in Int
      BY <1>2, <1>5, <1>10, CellFacts
    <3>3. screen'[cell] = Glyph(args.scale, t, Start(t), look, i, cell)
      BY <1>6, <1>7, <1>10, <3>1
    <3>4. \A j \in 1 .. Len(t) : Covers(args.scale, t, Start(t), j, cell) => j = i
      BY <1>2, <1>5, <3>1, <3>2, CoversOne
    <3> QED
      BY <3>1, <3>2, <3>3, <3>4 DEF Pictured
  <2>2. CASE all /\ ~\E i \in k .. Len(t) : Covers(args.scale, t, Start(t), i, cell)
    BY <1>3, <1>12, <2>2 DEF Pictured
  <2>3. CASE ~all /\ ~\E i \in k .. Len(t) : Covers(args.scale, t, Start(t), i, cell)
    <3> DEFINE s == last_draw.time
    <3>1. /\ last_draw.start = Start(t) /\ last_draw.colour = look.colour
          /\ last_draw.fill = look.fill /\ s # <<>> /\ s \in Times
          /\ screen'[cell] = screen[cell] /\ ~stale /\ cell \in Clean
      BY <1>1, <1>2, <1>3, <1>12, <2>3 DEF full_redraw
    <3>2. Pictured(args.scale, s, Start(t), last_draw, cell, screen[cell])
      BY <1>1, <3>1 DEF IInv, ShowsPicture
    <3>3. \A j \in 1 .. Len(t) : Covers(args.scale, t, Start(t), j, cell)
            => j \in 1 .. k - 1
      BY <1>5, <2>3
    <3>4. \A j \in 1 .. k - 1 : t[j] = s[j]
      BY <1>3, <2>3
    <3> HIDE DEF s
    <3>5. /\ Len(s) = Len(t)
          /\ \A i \in 1 .. Len(t) :
                /\ Covers(args.scale, t, Start(t), i, cell)
                     <=> Covers(args.scale, s, Start(t), i, cell)
                /\ t[i] = s[i] => Glyph(args.scale, t, Start(t), last_draw, i, cell)
                                    = Glyph(args.scale, s, Start(t), last_draw, i, cell)
      <4>1. s \in Times
        BY <3>1
      <4>2. /\ Len(s) = Len(t)
            /\ \A i \in 1 .. Len(t) :
                /\ Covers(args.scale, t, Start(t), i, cell)
                     <=> Covers(args.scale, s, Start(t), i, cell)
                /\ \A l : t[i] = s[i] => Glyph(args.scale, t, Start(t), l, i, cell)
                                           = Glyph(args.scale, s, Start(t), l, i, cell)
        BY <4>1, SamePlaces
      <4> QED
        BY <4>2
    <3>6. \A i : Glyph(args.scale, t, Start(t), last_draw, i, cell)
            = Glyph(args.scale, t, Start(t), look, i, cell)
      BY <3>1 DEF Glyph, Ink
    <3> QED
      BY <3>1, <3>2, <3>3, <3>4, <3>5, <3>6 DEF Pictured
  <2> QED
    BY <2>1, <2>2, <2>3
<1>15. args' \in [pos : Positions, scale : Scales] /\ term' \in TermSizes
       /\ stale' \in BOOLEAN
  BY <1>1, <1>2 DEF Placed
<1>16. /\ cursor' \in (1 .. term'.row) \X (1 .. term'.col + 1)
       /\ typed' \in 0 .. MaxTyped /\ touched' \subseteq Cells(term')
  <2>1. cursor' = <<1, Prompt + 1>> /\ typed' = 0
    BY DEF Frame
  <2>2. 1 \in 1 .. term.row /\ Prompt + 1 \in 1 .. term.col + 1 /\ 0 \in 0 .. MaxTyped
    BY <1>2, TermFacts
  <2>3. touched' \subseteq touched /\ touched \subseteq Cells(term)
    BY <1>3 DEF Below, IInv
  <2> QED
    BY <1>1, <2>1, <2>2, <2>3
<1> QED
  BY <1>1, <1>8, <1>9, <1>13, <1>14, <1>15, <1>16 DEF IInv

-----------------------------------------------------------------------------
(* What the terminal writes, and what is left as it was.                   *)
Ttys == [screen  : [Cells(term) -> Chars \X Colours],
         cursor  : (1 .. term.row) \X (1 .. term.col + 1),
         touched : SUBSET Cells(term)]

Leaves(old, new) ==
    \A cell \in Cells(term) : cell \notin new.touched =>
        cell \notin old.touched /\ new.screen[cell] = old.screen[cell]

LEMMA NewLineIs ==
    ASSUME term \in TermSizes, NEW tty \in Ttys
    PROVE  /\ NewLine(tty) \in Ttys /\ Leaves(tty, NewLine(tty))
           /\ NewLine(tty).cursor[2] = 1
<1>1. /\ tty.screen \in [Cells(term) -> Chars \X Colours]
      /\ tty.cursor[1] \in 1 .. term.row /\ tty.touched \subseteq Cells(term)
      /\ tty = [screen |-> tty.screen, cursor |-> tty.cursor, touched |-> tty.touched]
  BY DEF Ttys
<1>2. term.row \in Nat \ {0} /\ term.col \in Nat \ {0}
  BY TermFacts
<1>3. CASE tty.cursor[1] < term.row
  <2> DEFINE next == <<tty.cursor[1] + 1, 1>>
  <2>1. next \in (1 .. term.row) \X (1 .. term.col + 1) /\ next[2] = 1
    BY <1>1, <1>2, <1>3
  <2> HIDE DEF next
  <2>2. NewLine(tty) = [screen |-> tty.screen, cursor |-> next, touched |-> tty.touched]
    BY <1>1, <1>3 DEF NewLine, next
  <2> QED
    BY <1>1, <2>1, <2>2 DEF Ttys, Leaves
<1>4. CASE ~(tty.cursor[1] < term.row)
  <2> DEFINE up == [cell \in Cells(term) |->
                      IF cell[1] < term.row THEN tty.screen[<<cell[1] + 1, cell[2]>>]
                      ELSE Blank]
             home == <<term.row, 1>>
  <2>1. up \in [Cells(term) -> Chars \X Colours]
    <3>1. ASSUME NEW cell \in Cells(term), cell[1] < term.row
          PROVE  <<cell[1] + 1, cell[2]>> \in Cells(term)
      <4>1. cell[1] \in 1 .. term.row /\ cell[2] \in 1 .. term.col
        BY CellFacts
      <4>2. cell[1] + 1 \in 1 .. term.row
        BY <1>2, <3>1, <4>1
      <4> QED
        BY <4>1, <4>2 DEF Cells
    <3> QED
      BY <1>1, <3>1, InkTyped
  <2>2. home \in (1 .. term.row) \X (1 .. term.col + 1) /\ home[2] = 1
    BY <1>2
  <2> HIDE DEF up, home
  <2>3. NewLine(tty) = [screen |-> up, cursor |-> home, touched |-> Cells(term)]
    BY <1>4 DEF NewLine, up, home
  <2> QED
    BY <2>1, <2>2, <2>3 DEF Ttys, Leaves
<1> QED
  BY <1>3, <1>4

LEMMA CharacterIs ==
    ASSUME term \in TermSizes, NEW tty \in Ttys
    PROVE  Character(tty) \in Ttys /\ Leaves(tty, Character(tty))
<1> DEFINE at == IF tty.cursor[2] <= term.col THEN tty ELSE NewLine(tty)
           next == <<at.cursor[1], at.cursor[2] + 1>>
           new == [at.screen EXCEPT ![at.cursor] = <<"text", 0>>]
<1>1. Character(tty) = [screen |-> new, cursor |-> next,
                        touched |-> at.touched \cup {at.cursor}]
  BY DEF Character
<1>2. term.row \in Nat \ {0} /\ term.col \in Nat \ {0}
  BY TermFacts
<1>3. at \in Ttys /\ Leaves(tty, at) /\ at.cursor[2] <= term.col
  <2>1. CASE tty.cursor[2] <= term.col
    BY <2>1 DEF Leaves
  <2>2. CASE ~(tty.cursor[2] <= term.col)
    <3>1. at = NewLine(tty)
      BY <2>2
    <3> HIDE DEF at
    <3> QED
      BY <1>2, <3>1, NewLineIs
  <2> QED
    BY <2>1, <2>2
<1> HIDE DEF at
<1>4. /\ at.screen \in [Cells(term) -> Chars \X Colours]
      /\ at.cursor \in (1 .. term.row) \X (1 .. term.col + 1)
      /\ at.touched \subseteq Cells(term)
  BY <1>3 DEF Ttys
<1>5. at.cursor \in Cells(term) /\ next \in (1 .. term.row) \X (1 .. term.col + 1)
  <2>1. at.cursor[1] \in 1 .. term.row /\ at.cursor[2] \in 1 .. term.col
        /\ at.cursor[2] + 1 \in 1 .. term.col + 1
        /\ at.cursor = <<at.cursor[1], at.cursor[2]>>
    BY <1>2, <1>3, <1>4
  <2> QED
    BY <2>1 DEF Cells
<1>6. new \in [Cells(term) -> Chars \X Colours]
      /\ \A cell \in Cells(term) : cell # at.cursor => new[cell] = at.screen[cell]
  BY <1>4, InkTyped
<1> HIDE DEF new, next
<1>7. Character(tty) \in Ttys
  BY <1>1, <1>4, <1>5, <1>6 DEF Ttys
<1>8. Leaves(tty, Character(tty))
  BY <1>1, <1>3, <1>6 DEF Leaves
<1> QED
  BY <1>7, <1>8

LEMMA TtyIs ==
    ASSUME IInv
    PROVE  Tty \in Ttys
  BY DEF IInv, Tty, Ttys

LEMMA OtherSteps ==
    ASSUME IInv, FrameWithoutTime \/ Leave \/ Enter \/ Resize \/ Echo \/ UNCHANGED vars
    PROVE  IInv'
<1>1. /\ args \in [pos : Positions, scale : Scales] /\ mode \in {"clock", "prompt"}
      /\ term \in TermSizes /\ screen \in [Cells(term) -> Chars \X Colours]
      /\ cursor \in (1 .. term.row) \X (1 .. term.col + 1)
      /\ typed \in 0 .. MaxTyped /\ touched \subseteq Cells(term)
      /\ last_draw \in LastDraws /\ stale \in BOOLEAN
      /\ NoResidue /\ ShowsPicture
  BY DEF IInv
<1>2. /\ term.row \in Nat \ {0} /\ term.col \in Nat \ {0} /\ MaxTyped \in Nat
      /\ <<1, 1>> \in (1 .. term.row) \X (1 .. term.col + 1) /\ 0 \in 0 .. MaxTyped
      /\ <<1, Prompt + 1>> \in (1 .. term.row) \X (1 .. term.col + 1)
  <2>1. /\ term.row \in Nat \ {0} /\ term.col \in Nat \ {0} /\ MaxTyped \in Nat
        /\ Prompt + 1 \in 1 .. term.col + 1
    BY <1>1, TermFacts
  <2>2. 1 \in 1 .. term.row /\ 1 \in 1 .. term.col + 1
    BY <2>1
  <2> QED
    BY <2>1, <2>2
<1>3. ASSUME UNCHANGED <<args, mode, term, last_draw, stale>>,
             screen' \in [Cells(term) -> Chars \X Colours],
             cursor' \in (1 .. term.row) \X (1 .. term.col + 1),
             typed' \in 0 .. MaxTyped, touched' \subseteq Cells(term),
             \A cell \in Cells(term) : cell[1] # 1 /\ cell \notin touched' =>
                cell \notin touched /\ screen'[cell] = screen[cell]
      PROVE  IInv'
  <2>1. \A cell \in Clean' : cell \in Clean /\ screen'[cell] = screen[cell]
    BY <1>3 DEF Clean
  <2>2. NoResidue'
    BY <1>1, <1>3, <2>1 DEF NoResidue
  <2>3. ShowsPicture'
    BY <1>1, <1>3, <2>1 DEF ShowsPicture
  <2> QED
    BY <1>1, <1>3, <2>2, <2>3 DEF IInv
<1>4. CASE FrameWithoutTime
  <2> DEFINE tty == NewLine(Character(Tty))
  <2>1. /\ screen' = Prompted(tty.screen) /\ touched' = Below(tty.touched)
        /\ cursor' = <<1, Prompt + 1>> /\ typed' = 0
        /\ UNCHANGED <<args, mode, term, last_draw, stale>>
    BY <1>4 DEF FrameWithoutTime
  <2>2. Character(Tty) \in Ttys /\ Leaves(Tty, Character(Tty))
    BY <1>1, TtyIs, CharacterIs
  <2>3. tty \in Ttys /\ Leaves(Character(Tty), tty)
    BY <1>1, <2>2, NewLineIs
  <2> HIDE DEF tty
  <2>4. tty.screen \in [Cells(term) -> Chars \X Colours] /\ tty.touched \subseteq Cells(term)
    BY <2>3 DEF Ttys
  <2>5. screen' \in [Cells(term) -> Chars \X Colours]
    BY <2>1, <2>4, InkTyped DEF Prompted
  <2>6. \A cell \in Cells(term) : cell[1] # 1 => screen'[cell] = tty.screen[cell]
    BY <2>1, <2>4 DEF Prompted
  <2>7. \A cell \in Cells(term) : cell[1] # 1 /\ cell \notin touched' =>
          cell \notin touched /\ screen'[cell] = screen[cell]
    BY <2>1, <2>2, <2>3, <2>6 DEF Leaves, Below, Tty
  <2>8. touched' \subseteq Cells(term)
    BY <2>1, <2>4 DEF Below
  <2> QED
    BY <1>2, <1>3, <2>1, <2>5, <2>7, <2>8
<1>5. CASE Echo
  <2>1. PICK tty \in {Character(Tty), NewLine(Tty)} :
            screen' = tty.screen /\ cursor' = tty.cursor /\ touched' = tty.touched
    BY <1>5 DEF Echo
  <2>2. tty \in Ttys /\ Leaves(Tty, tty)
    BY <1>1, TtyIs, CharacterIs, NewLineIs
  <2>3. /\ screen' \in [Cells(term) -> Chars \X Colours]
        /\ cursor' \in (1 .. term.row) \X (1 .. term.col + 1)
        /\ touched' \subseteq Cells(term)
    BY <2>1, <2>2 DEF Ttys
  <2>4. \A cell \in Cells(term) : cell \notin touched' =>
          cell \notin touched /\ screen'[cell] = screen[cell]
    BY <2>1, <2>2 DEF Leaves, Tty
  <2>5. typed' \in 0 .. MaxTyped
    BY <1>1, <1>2, <1>5 DEF Echo
  <2>6. UNCHANGED <<args, mode, term, last_draw, stale>>
    BY <1>5 DEF Echo
  <2> QED
    BY <1>3, <2>3, <2>4, <2>5, <2>6
<1>6. CASE UNCHANGED vars
  BY <1>1, <1>3, <1>6 DEF vars
<1>7. CASE Leave
  <2>1. /\ mode' = "prompt" /\ UNCHANGED <<args, term, last_draw, stale>>
        /\ screen' = [cell \in Cells(term) |->
                        IF cell[1] = 1 THEN <<"text", 0>> ELSE Blank]
        /\ cursor' = <<1, 1>> /\ typed' = 0 /\ touched' = {}
    BY <1>7 DEF Leave
  <2>2. screen' \in [Cells(term) -> Chars \X Colours]
    BY <2>1, InkTyped
  <2>3. NoResidue' /\ ShowsPicture'
    BY <2>1 DEF NoResidue, ShowsPicture
  <2> QED
    BY <1>1, <1>2, <2>1, <2>2, <2>3 DEF IInv
<1>8. CASE Enter
  <2>1. /\ mode' = "clock" /\ UNCHANGED <<args, term, typed, stale, touched>>
        /\ screen' = [cell \in Cells(term) |-> Blank] /\ cursor' = <<1, 1>>
        /\ last_draw' = [last_draw EXCEPT !.time = <<>>]
    BY <1>8 DEF Enter, Filled
  <2>2. screen' \in [Cells(term) -> Chars \X Colours]
        /\ \A cell \in Clean' : screen'[cell] = Blank
    BY <2>1, InkTyped DEF Clean
  <2>3. last_draw' \in LastDraws /\ last_draw'.time = <<>>
    BY <1>1, <2>1 DEF LastDraws
  <2>4. NoResidue' /\ ShowsPicture'
    BY <2>1, <2>2, <2>3 DEF NoResidue, ShowsPicture
  <2> QED
    BY <1>1, <1>2, <2>1, <2>2, <2>3, <2>4 DEF IInv
<1>9. CASE Resize
  <2>1. PICK size \in TermSizes :
            /\ term' = size /\ stale' = TRUE /\ UNCHANGED <<args, mode, typed, last_draw>>
            /\ screen' = [cell \in Cells(size) |->
                            IF cell \in Cells(term) THEN screen[cell] ELSE Blank]
            /\ cursor' = <<IF cursor[1] > size.row THEN size.row ELSE cursor[1],
                           IF cursor[2] > size.col THEN size.col ELSE cursor[2]>>
            /\ touched' = touched \cap Cells(size)
    BY <1>1, <1>9 DEF Resize
  <2>2. screen' \in [Cells(size) -> Chars \X Colours]
    BY <1>1, <2>1, InkTyped
  <2>3. \A cell \in Clean' :
          screen'[cell] = Blank
          \/ (cell \in Clean /\ screen'[cell] = screen[cell])
    BY <2>1 DEF Clean
  <2>4. cursor' \in (1 .. size.row) \X (1 .. size.col + 1)
    <3> DEFINE r == IF cursor[1] > size.row THEN size.row ELSE cursor[1]
               c == IF cursor[2] > size.col THEN size.col ELSE cursor[2]
    <3>1. /\ cursor[1] \in 1 .. term.row /\ cursor[2] \in 1 .. term.col + 1
          /\ size.row \in Nat \ {0} /\ size.col \in Nat \ {0}
      BY <1>1, TermFacts
    <3>2. r \in 1 .. size.row /\ c \in 1 .. size.col + 1
      BY <1>2, <3>1
    <3>3. cursor' = <<r, c>>
      BY <2>1
    <3> HIDE DEF r, c
    <3> QED
      BY <3>2, <3>3
  <2>5. NoResidue'
    BY <1>1, <2>1, <2>3 DEF NoResidue
  <2>6. ShowsPicture'
    BY <2>1 DEF ShowsPicture
  <2> QED
    BY <1>1, <2>1, <2>2, <2>4, <2>5, <2>6 DEF IInv
<1> QED
  BY <1>4, <1>5, <1>6, <1>7, <1>8, <1>9

LEMMA StepInv == IInv /\ [Next]_vars => IInv'
  BY FrameStep, OtherSteps DEF Next

LEMMA Invariance == Spec => []IInv
  BY InitInv, StepInv, PTL DEF Spec

(* Every cell holds a character in a colour that was asked for, whatever   *)
(* the clock's place, scale and look and the terminal's sizes.             *)
THEOREM TypeCorrect == Spec => []TypeOK
<1>1. IInv => TypeOK
  <2> SUFFICES ASSUME IInv
               PROVE  TypeOK
    OBVIOUS
  <2>1. /\ DOMAIN screen = Cells(term)
        /\ \A cell \in DOMAIN screen : screen[cell] \in Chars \X Colours
    BY DEF IInv
  <2>2. /\ last_draw.start \in Places /\ last_draw.end \in Places
        /\ last_draw.colour \in Colours
        /\ last_draw.fill \in {"NULL"} \cup {l.fill : l \in Looks}
        /\ last_draw.time \in {<<>>} \cup Times
    BY DEF IInv, LastDraws
  <2>3. /\ last_draw.start.row \in Int /\ last_draw.start.col \in Int
        /\ last_draw.end.row \in Int /\ last_draw.end.col \in Int
    BY <2>2 DEF Places
  <2>4. cursor[1] \in 1 .. term.row /\ cursor[2] \in 1 .. term.col + 1
    BY DEF IInv
  <2> QED
    BY <2>1, <2>2, <2>3, <2>4 DEF IInv, TypeOK
<1> QED
  BY <1>1, Invariance, PTL

(* A clock that moves, shrinks or changes its look takes everything it had *)
(* drawn with it, in whatever order frames, prompts and resizes come.      *)
THEOREM LeavesNothing == Spec => []NoResidue
<1>1. IInv => NoResidue
  BY DEF IInv
<1> QED
  BY <1>1, Invariance, PTL

(* The property's columns are those of the drawing loop.                   *)
LEMMA LeftOfIs ==
    ASSUME IInv, last_draw.time # <<>>, NEW i \in 1 .. Len(last_draw.time)
    PROVE  LeftOf(last_draw.time, i)
             = Left(args.scale, last_draw.time, last_draw.start, i)
<1> DEFINE t == last_draw.time
           sub == SubSeq(t, 1, i - 1)
           gap == IF i > 1 THEN Width(Space) ELSE 0
<1>1. t \in Times /\ last_draw \in LastDraws
  BY LastTime DEF IInv
<1>2. t \in Seq(Glyphs) /\ i - 1 \in 0 .. Len(t) /\ Len(t) \in Nat
  BY <1>1, TimeFacts
<1> HIDE DEF t
<1>3. sub \in Seq(Glyphs) /\ Len(sub) = i - 1 /\ \A k \in 1 .. i - 1 : sub[k] = t[k]
  BY <1>2
<1> HIDE DEF sub
<1>4. \A k \in 1 .. (i - 1) + 1 : Offsets(sub)[k] = Offsets(t)[k]
  <2>1. i - 1 \in Nat /\ i - 1 <= Len(t) /\ i - 1 <= Len(sub)
    BY <1>2, <1>3
  <2>2. \A k \in 1 .. i - 1 : Width(sub[k]) = Width(t[k])
    BY <1>3
  <2> QED
    BY <1>2, <1>3, <2>1, <2>2, OffsetsAgree
<1>5. SizeCols(sub, 1) + gap = Offsets(t)[i]
  <2>1. CASE i = 1
    <3>1. sub = <<>> /\ Offsets(t)[i] = 0
      BY <1>2, <1>3, <2>1, OffsetFacts DEF t
    <3>2. SizeCols(sub, 1) = 0
      BY <1>3, <3>1, SizeColsIs
    <3> QED
      BY <2>1, <3>1, <3>2
  <2>2. CASE i # 1
    <3> DEFINE j == i - 1
    <3>1. j \in 1 .. Len(t) /\ j + 1 = i /\ sub # <<>> /\ j \in 1 .. j
          /\ j \in 1 .. j + 1
          /\ i > 1
      BY <1>2, <1>3, <2>2
    <3>2. /\ Offsets(t)[j + 1] = Offsets(t)[j] + Width(t[j]) + Width(Space)
          /\ Offsets(t)[j] \in Nat /\ Width(t[j]) \in Nat
      BY <1>2, <3>1, OffsetFacts
    <3>3. SizeCols(sub, 1) = 1 * (Offsets(sub)[j] + Width(sub[j]))
      BY <1>3, <3>1, SizeColsIs
    <3>4. Offsets(sub)[j] = Offsets(t)[j] /\ sub[j] = t[j]
      BY <1>3, <1>4, <3>1
    <3> HIDE DEF j
    <3>5. SizeCols(sub, 1) = Offsets(t)[j] + Width(t[j])
      BY <3>2, <3>3, <3>4
    <3>6. gap = Width(Space)
      BY <3>1
    <3> HIDE DEF gap
    <3> QED
      BY <3>1, <3>2, <3>5, <3>6
  <2> QED
    BY <2>1, <2>2
<1>6. LeftOf(t, i) = last_draw.start.col + args.scale * (SizeCols(sub, 1) + gap)
  BY DEF LeftOf, sub
<1> HIDE DEF gap
<1> QED
  BY <1>5, <1>6 DEF Left, t

(* The increments of the frames add up to the whole time: between frames   *)
(* the screen shows it as if it had been drawn at once.                    *)
THEOREM ShowsWholeTime == Spec => []ShowsTime
<1>1. IInv => ShowsTime
  <2> SUFFICES ASSUME IInv, mode = "clock", last_draw.time # <<>>, ~stale
               PROVE  {<<cell[1], cell[2], screen[cell]>> :
                          cell \in {cell \in Clean : screen[cell] # Blank}}
                        = {s \in Shown : <<s[1], s[2]>> \in Clean /\ s[3] # Blank}
    BY DEF ShowsTime
  <2> DEFINE t == last_draw.time
             top == last_draw.start.row
             scale == args.scale
             left(i) == Left(scale, t, last_draw.start, i)
             Pixels(i) == {rc \in (0 .. scale * Height(t[i]) - 1)
                                     \X (0 .. scale * Width(t[i]) - 1) :
                             Bit(t[i], scale, rc[1], rc[2])}
             dot(i, rc) == <<top + rc[1], left(i) + rc[2], Ink(last_draw, t[i])>>
  <2>1. /\ t \in Times /\ last_draw \in LastDraws /\ term \in TermSizes /\ Placed
        /\ t \in Seq(Glyphs) /\ DOMAIN t = 1 .. Len(t)
    BY LastTime, TimeFacts DEF IInv, Placed
  <2>2. Shown = UNION {{dot(i, rc) : rc \in Pixels(i)} : i \in 1 .. Len(t)}
    BY <2>1, LeftOfIs DEF Shown
  <2>3. scale \in Nat /\ top \in Int /\ last_draw.start.col \in Int
    BY <2>1, ClockBox DEF LastDraws, Places
  <2>4. \A i \in 1 .. Len(t) : /\ left(i) \in Int
                               /\ Height(t[i]) * scale = scale * Height(t[i])
                               /\ Width(t[i]) * scale = scale * Width(t[i])
                               /\ scale * Height(t[i]) \in Int
                               /\ scale * Width(t[i]) \in Int
    <3> SUFFICES ASSUME NEW i \in 1 .. Len(t)
                 PROVE  /\ left(i) \in Int
                        /\ Height(t[i]) * scale = scale * Height(t[i])
                        /\ Width(t[i]) * scale = scale * Width(t[i])
                        /\ scale * Height(t[i]) \in Int /\ scale * Width(t[i]) \in Int
      OBVIOUS
    <3> DEFINE h == Height(t[i])
               w == Width(t[i])
               o == Offsets(t)[i]
    <3>1. h \in Nat /\ w \in Nat /\ o \in Nat
      <4>1. t[i] \in Glyphs
        BY <2>1
      <4> QED
        BY <2>1, <4>1, GlyphSize, OffsetFacts
    <3>2. left(i) = last_draw.start.col + scale * o
      BY DEF Left
    <3> HIDE DEF h, w, o, scale, left
    <3>3. left(i) \in Int /\ h * scale = scale * h /\ w * scale = scale * w
          /\ scale * h \in Int /\ scale * w \in Int
      BY <2>3, <3>1, <3>2
    <3> QED
      BY <3>3 DEF h, w
  <2>5. /\ Clean \subseteq Cells(term)
        /\ \A cell \in Clean :
             Pictured(scale, t, last_draw.start, last_draw, cell, screen[cell])
    BY DEF IInv, ShowsPicture, Clean
  <2>6. ASSUME NEW cell \in Cells(term), NEW i \in 1 .. Len(t)
        PROVE  /\ cell[1] \in Int /\ cell[2] \in Int /\ cell = <<cell[1], cell[2]>>
               /\ Covers(scale, t, last_draw.start, i, cell)
                    <=> <<cell[1] - top, cell[2] - left(i)>> \in
                           (0 .. scale * Height(t[i]) - 1) \X (0 .. scale * Width(t[i]) - 1)
               /\ Glyph(scale, t, last_draw.start, last_draw, i, cell)
                    = IF Bit(t[i], scale, cell[1] - top, cell[2] - left(i))
                      THEN Ink(last_draw, t[i]) ELSE Blank
    <3>1. cell[1] \in Int /\ cell[2] \in Int /\ cell = <<cell[1], cell[2]>>
      BY <2>1, CellFacts
    <3>2. Glyph(scale, t, last_draw.start, last_draw, i, cell)
            = IF Bit(t[i], scale, cell[1] - top, cell[2] - left(i))
              THEN Ink(last_draw, t[i]) ELSE Blank
      BY DEF Glyph
    <3>3. Covers(scale, t, last_draw.start, i, cell)
            <=> /\ cell[1] - top \in 0 .. scale * Height(t[i]) - 1
                /\ cell[2] - left(i) \in 0 .. scale * Width(t[i]) - 1
      BY <2>4 DEF Covers
    <3> HIDE DEF left, top
    <3> QED
      BY <3>1, <3>2, <3>3
  <2> HIDE DEF top, left, t, scale
  <2>7. ASSUME NEW cell \in Clean, screen[cell] # Blank
        PROVE  LET v == <<cell[1], cell[2], screen[cell]>>
               IN  v \in Shown /\ <<v[1], v[2]>> \in Clean /\ v[3] # Blank
    <3> DEFINE v == <<cell[1], cell[2], screen[cell]>>
    <3>1. cell \in Cells(term) /\ screen[cell] # Blank
      BY <2>5, <2>7
    <3>2. Pictured(scale, t, last_draw.start, last_draw, cell, screen[cell])
      BY <2>5, <3>1
    <3>3. PICK i \in 1 .. Len(t) : /\ Covers(scale, t, last_draw.start, i, cell)
                                   /\ screen[cell] = Glyph(scale, t, last_draw.start,
                                                           last_draw, i, cell)
      BY <3>1, <3>2 DEF Pictured
    <3> DEFINE rc == <<cell[1] - top, cell[2] - left(i)>>
    <3>4. rc \in Pixels(i) /\ screen[cell] = Ink(last_draw, t[i])
      BY <2>6, <3>1, <3>3
    <3>5. top + rc[1] = cell[1] /\ left(i) + rc[2] = cell[2]
      <4>1. \A x \in Int, y \in Int : y + (x - y) = x
        OBVIOUS
      <4>2. top \in Int /\ left(i) \in Int /\ cell[1] \in Int /\ cell[2] \in Int
        BY <2>3, <2>4, <2>6, <3>1
      <4>3. rc[1] = cell[1] - top /\ rc[2] = cell[2] - left(i)
        OBVIOUS
      <4> HIDE DEF rc, left
      <4> QED
        BY <4>1, <4>2, <4>3
    <3>6. v = dot(i, rc) /\ cell = <<cell[1], cell[2]>>
      BY <2>6, <3>1, <3>4, <3>5
    <3> HIDE DEF rc, dot, Pixels
    <3>7. v \in Shown
      BY <2>2, <3>4, <3>6
    <3> QED
      BY <3>1, <3>6, <3>7
  <2>8. ASSUME NEW s \in Shown, <<s[1], s[2]>> \in Clean, s[3] # Blank
        PROVE  \E cell \in Clean : /\ screen[cell] # Blank
                                   /\ s = <<cell[1], cell[2], screen[cell]>>
    <3>1. PICK i \in 1 .. Len(t) : \E rc \in Pixels(i) : s = dot(i, rc)
      <4> HIDE DEF dot, Pixels
      <4> QED
        BY <2>2
    <3>2. PICK rc \in Pixels(i) : s = dot(i, rc)
      BY <3>1
    <3> DEFINE cell == <<s[1], s[2]>>
    <3>3. /\ s[1] = top + rc[1] /\ s[2] = left(i) + rc[2] /\ s[3] = Ink(last_draw, t[i])
          /\ s = <<s[1], s[2], s[3]>>
      BY <3>2
    <3>4. /\ rc[1] \in 0 .. scale * Height(t[i]) - 1
          /\ rc[2] \in 0 .. scale * Width(t[i]) - 1
          /\ Bit(t[i], scale, rc[1], rc[2]) /\ rc = <<rc[1], rc[2]>>
          /\ rc \in (0 .. scale * Height(t[i]) - 1) \X (0 .. scale * Width(t[i]) - 1)
      OBVIOUS
    <3>5. cell[1] - top = rc[1] /\ cell[2] - left(i) = rc[2] /\ cell[1] = s[1]
          /\ cell[2] = s[2]
      BY <2>3, <2>4, <3>3, <3>4
    <3> HIDE DEF cell
    <3>6. cell \in Clean /\ cell \in Cells(term)
      BY <2>5, <2>8 DEF cell
    <3>7. /\ Covers(scale, t, last_draw.start, i, cell)
          /\ Glyph(scale, t, last_draw.start, last_draw, i, cell) = s[3]
      BY <2>6, <3>3, <3>4, <3>5, <3>6
    <3>8. screen[cell] = s[3]
      BY <2>5, <3>6, <3>7 DEF Pictured
    <3> QED
      BY <2>8, <3>3, <3>5, <3>6, <3>8
  <2> QED
    BY <2>7, <2>8
<1> QED
  BY <1>1, Invariance, PTL
===============================================================================
