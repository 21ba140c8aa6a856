-------------------------- MODULE AskPasswd_proofs --------------------------
(***************************************************************************)
(* Proofs about AskPasswd, for any of its keys and lines of any length.    *)
(* First the functions of string.c that a line is given to: what they      *)
(* compute is proved by induction, which the library states for a          *)
(* predicate; here it is stated for a set.  Then the buffer, whose own     *)
(* proofs are taken over; the bytes of the keys and the queue they wait    *)
(* in; and the invariant of the decoder, which says for each of its states *)
(* how much of which key was read and what is meant by it.                 *)
(***************************************************************************)
EXTENDS AskPasswd, WellFoundedInduction, SequenceTheorems, TLAPS

-----------------------------------------------------------------------------
(* Induction.                                                              *)
LEMMA LeastElement ==
    ASSUME NEW T, T \subseteq Nat, T # {}
    PROVE  \E x \in T : \A y \in T : x <= y
<1>1. PICK x \in T : \A y \in T : ~(<<y, x>> \in OpToRel(<, Nat))
  BY NatLessThanWellFounded, WFMin
<1>2. ASSUME NEW y \in T
      PROVE  x <= y
  <2>1. ~(<<y, x>> \in OpToRel(<, Nat))
    BY <1>1
  <2>2. y \in Nat /\ x \in Nat
    OBVIOUS
  <2>3. ~(y < x)
    <3> SUFFICES ASSUME y < x
                 PROVE  FALSE
      OBVIOUS
    <3> DEFINE p == <<y, x>>
    <3>1. p \in Nat \X Nat /\ p[1] = y /\ p[2] = x
      BY <2>2
    <3> HIDE DEF p
    <3>2. p \in {ss \in Nat \X Nat : ss[1] < ss[2]}
      BY <3>1
    <3> QED
      BY <2>1, <3>2 DEF p, OpToRel
  <2> QED
    BY <2>2, <2>3
<1> QED
  BY <1>2

LEMMA Induction ==
    ASSUME NEW n \in Nat, NEW S, 0 \in S,
           \A k \in 0 .. n - 1 : k \in S => k + 1 \in S
    PROVE  \A k \in 0 .. n : k \in S
<1> DEFINE T == (0 .. n) \ S
<1> SUFFICES ASSUME T # {}
             PROVE  FALSE
  OBVIOUS
<1>1. PICK k \in T : \A y \in T : k <= y
  <2>1. T \subseteq Nat
    OBVIOUS
  <2> HIDE DEF T
  <2> QED
    BY <2>1, LeastElement
<1>2. k \in 1 .. n /\ k - 1 \in 0 .. n - 1
  OBVIOUS
<1>3. k - 1 \notin T
  BY <1>1, <1>2
<1> QED
  BY <1>2, <1>3

-----------------------------------------------------------------------------
(* string_from_bytes on the bytes of a line.                               *)
LEMMA FirstZero ==
    /\ count_first_zero(194) = 2
    /\ count_first_zero(226) = 3
    /\ count_first_zero(240) = 4
<1> DEFINE Weight(i) == 2^(7 - i)
           Bit(m, i) == (m \div Weight(i)) % 2
<1>1. /\ Weight(0) = 128 /\ Weight(1) = 64 /\ Weight(2) = 32
      /\ Weight(3) = 16 /\ Weight(4) = 8
  OBVIOUS
<1>2. \A m : count_first_zero(m) =
        CHOOSE i \in 0 .. 8 : /\ i < 8 => Bit(m, i) = 0
                              /\ \A j \in 0 .. i - 1 : Bit(m, j) = 1
  BY DEF count_first_zero
<1> HIDE DEF Weight
<1>3. /\ Bit(194, 0) = 1 /\ Bit(194, 1) = 1 /\ Bit(194, 2) = 0
      /\ Bit(226, 0) = 1 /\ Bit(226, 1) = 1 /\ Bit(226, 2) = 1 /\ Bit(226, 3) = 0
      /\ Bit(240, 0) = 1 /\ Bit(240, 1) = 1 /\ Bit(240, 2) = 1 /\ Bit(240, 3) = 1
      /\ Bit(240, 4) = 0
  BY <1>1
<1> HIDE DEF Bit
<1>4. ASSUME NEW m, NEW z \in {2, 3, 4}, Bit(m, z) = 0,
             \A j \in 0 .. z - 1 : Bit(m, j) = 1
      PROVE  count_first_zero(m) = z
  <2>1. z \in 0 .. 8 /\ (z < 8 => Bit(m, z) = 0)
    BY <1>4
  <2>2. ASSUME NEW i \in 0 .. 8, i < 8 => Bit(m, i) = 0,
               \A j \in 0 .. i - 1 : Bit(m, j) = 1
        PROVE  i = z
    <3>1. CASE i < z
      BY <1>4, <2>2, <3>1
    <3>2. CASE i > z
      BY <1>4, <2>2, <3>2
    <3> QED
      BY <3>1, <3>2
  <2> QED
    BY <1>2, <1>4, <2>1, <2>2
<1>5. count_first_zero(194) = 2
  <2>1. \A j \in 0 .. 2 - 1 : Bit(194, j) = 1
    BY <1>3
  <2> QED
    BY <1>3, <1>4, <2>1
<1>6. count_first_zero(226) = 3
  <2>1. \A j \in 0 .. 3 - 1 : Bit(226, j) = 1
    BY <1>3
  <2> QED
    BY <1>3, <1>4, <2>1
<1>7. count_first_zero(240) = 4
  <2>1. \A j \in 0 .. 4 - 1 : Bit(240, j) = 1
    BY <1>3
  <2> QED
    BY <1>3, <1>4, <2>1
<1> QED
  BY <1>5, <1>6, <1>7

LEMMA ByteTable ==
    /\ DOMAIN Byte = {"A", "B", "C", "D", "F", "H", "P", "x", "3", "5", ";", "~", "[",
                      "space", "lead2", "lead3", "lead4", "cont"}
    /\ \A ch \in {"A", "B", "C", "D", "F", "H", "P", "x", "3", "5", ";", "~", "[",
                   "space"} :
           Byte[ch] \in 1 .. 127
    /\ Byte["lead2"] = 194 /\ Byte["lead3"] = 226 /\ Byte["lead4"] = 240
    /\ Byte["cont"] = 146
<1>1. DOMAIN Byte = {"A", "B", "C", "D", "F", "H", "P", "x", "3", "5", ";", "~", "[",
                    "space", "lead2", "lead3", "lead4", "cont"}
  BY DEF Byte, Letters, AltMarks
<1>2. Byte["A"] = 65 /\ Byte["B"] = 66 /\ Byte["C"] = 67 /\ Byte["D"] = 68
  BY <1>1 DEF Byte
<1>3. Byte["F"] = 70 /\ Byte["H"] = 72 /\ Byte["P"] = 80 /\ Byte["x"] = 120
  BY <1>1 DEF Byte
<1>4. Byte["3"] = 51 /\ Byte["5"] = 53 /\ Byte[";"] = 59 /\ Byte["~"] = 126
  BY <1>1 DEF Byte
<1>5. Byte["["] = 91 /\ Byte["space"] = 32 /\ Byte["cont"] = 146
  BY <1>1 DEF Byte
<1>6. Byte["lead2"] = 194 /\ Byte["lead3"] = 226 /\ Byte["lead4"] = 240
  BY <1>1 DEF Byte
<1>7. \A ch \in {"A", "B", "C", "D"} : Byte[ch] \in 1 .. 127
  BY <1>2
<1>8. \A ch \in {"F", "H", "P", "x"} : Byte[ch] \in 1 .. 127
  BY <1>3
<1>9. \A ch \in {"3", "5", ";", "~"} : Byte[ch] \in 1 .. 127
  <2>1. 51 \in 1 .. 127 /\ 53 \in 1 .. 127 /\ 59 \in 1 .. 127 /\ 126 \in 1 .. 127
    OBVIOUS
  <2>2. Byte["3"] \in 1 .. 127 /\ Byte["5"] \in 1 .. 127
    BY <1>4, <2>1, Zenon
  <2>3. Byte[";"] \in 1 .. 127
    BY <1>4, <2>1, Zenon
  <2>4. Byte["~"] \in 1 .. 127
    BY <1>4, <2>1, Zenon
  <2> QED
    BY <2>2, <2>3, <2>4, Zenon
<1>10. Byte["["] \in 1 .. 127 /\ Byte["space"] \in 1 .. 127
  BY <1>5
<1> QED
  BY <1>1, <1>5, <1>6, <1>7, <1>8, <1>9, <1>10, Zenon

LEMMA ByteFacts ==
    ASSUME NEW ch \in Chars
    PROVE  \/ ch = "cont" /\ Byte[ch] = 146 /\ Follow(ch) = 0
           \/ ch = "lead2" /\ Byte[ch] = 194 /\ Follow(ch) = 1
           \/ ch = "lead3" /\ Byte[ch] = 226 /\ Follow(ch) = 2
           \/ ch = "lead4" /\ Byte[ch] = 240 /\ Follow(ch) = 3
           \/ ch \notin {"cont", "lead2", "lead3", "lead4"}
              /\ Byte[ch] \in 1 .. 127 /\ Follow(ch) = 0
<1>1. Follow("cont") = 0 /\ Follow("lead2") = 1 /\ Follow("lead3") = 2
      /\ Follow("lead4") = 3
  BY DEF Follow
<1>2. CASE ch \in {"cont", "lead2", "lead3", "lead4"}
  <2>1. Byte["lead2"] = 194 /\ Byte["lead3"] = 226 /\ Byte["lead4"] = 240
        /\ Byte["cont"] = 146
    BY ByteTable
  <2> QED
    BY <1>1, <1>2, <2>1
<1>3. CASE ch \notin {"cont", "lead2", "lead3", "lead4"}
  <2>1. Follow(ch) = 0
    BY <1>3 DEF Follow
  <2>2. ch \in {"A", "B", "C", "D", "F", "H", "P", "x", "3", "5", ";", "~", "[",
               "space"}
    BY <1>3, ByteTable, CharsAssumption
  <2>3. Byte[ch] \in 1 .. 127
    BY <2>2, ByteTable
  <2> QED
    BY <1>3, <2>1, <2>3
<1> QED
  BY <1>2, <1>3

(* What the conversion needs to know of a byte.                            *)
LEMMA ByteKinds ==
    ASSUME NEW ch \in Chars
    PROVE  /\ Byte[ch] \in Nat /\ Follow(ch) \in 0 .. 3
           /\ ch = "cont" <=> Byte[ch] \div 64 = 2
           /\ ch = "cont" => Byte[ch] \in 128 .. 191 /\ Follow(ch) = 0
           /\ Follow(ch) # 0 => /\ Byte[ch] >= 192
                                /\ count_first_zero(Byte[ch]) - 1 = Follow(ch)
           /\ Follow(ch) = 0 /\ ch # "cont" => Byte[ch] < 128
<1>1. CASE ch \in {"cont", "lead2", "lead3", "lead4"}
  BY <1>1, ByteFacts, FirstZero
<1>2. CASE ch \notin {"cont", "lead2", "lead3", "lead4"}
  <2>1. Byte[ch] \in 1 .. 127 /\ Follow(ch) = 0
    BY <1>2, ByteFacts
  <2>2. \A x \in 1 .. 127 : ~(x \div 64 = 2)
    OBVIOUS
  <2> QED
    BY <1>2, <2>1, <2>2
<1> QED
  BY <1>1, <1>2

LEMMA LineBytes ==
    ASSUME NEW line \in Seq(Chars)
    PROVE  /\ Bytes(line) \in Seq(Nat) /\ Len(Bytes(line)) = Len(line) + 1
           /\ \A k \in 1 .. Len(line) : Bytes(line)[k] = Byte[line[k]]
           /\ Bytes(line)[Len(line) + 1] = 0
<1> DEFINE s == [k \in DOMAIN line |-> Byte[line[k]]]
<1>1. DOMAIN line = 1 .. Len(line) /\ Len(line) \in Nat
      /\ \A k \in 1 .. Len(line) : line[k] \in Chars
  OBVIOUS
<1>2. \A k \in 1 .. Len(line) : Byte[line[k]] \in Nat
  BY <1>1, ByteKinds
<1>3. s \in Seq(Nat) /\ Len(s) = Len(line)
      /\ \A k \in 1 .. Len(line) : s[k] = Byte[line[k]]
  BY <1>1, <1>2
<1>4. Bytes(line) = s \o <<0>>
  BY DEF Bytes
<1> HIDE DEF s
<1> QED
  BY <1>1, <1>3, <1>4

(* The continuation bytes that the character at idx + 1 asks for are there.*)
Followed(line, idx) ==
    \A j \in 1 .. Follow(line[idx + 1]) :
        idx + 1 + j <= Len(line) /\ line[idx + 1 + j] = "cont"

LEMMA NextChar ==
    ASSUME NEW line \in Seq(Chars), NEW idx \in 0 .. Len(line)
    PROVE  utf8_next(Bytes(line), idx) =
             IF idx = Len(line) THEN idx + 1
             ELSE IF line[idx + 1] = "cont" \/ ~Followed(line, idx)
                  THEN INVALID_SIZE ELSE idx + 1 + Follow(line[idx + 1])
<1> DEFINE b == Bytes(line)
           n == Len(line)
<1>1. /\ n \in Nat /\ b \in Seq(Nat) /\ Len(b) = n + 1 /\ b[n + 1] = 0
      /\ \A k \in 1 .. n : b[k] = Byte[line[k]] /\ line[k] \in Chars
  BY LineBytes
<1> HIDE DEF b
<1>2. CASE idx = n
  <2>1. At(b, idx) = 0 /\ idx < Len(b)
    BY <1>1, <1>2 DEF At
  <2>2. utf8_next(b, idx) = idx + 1
    BY <2>1 DEF utf8_next
  <2> QED
    BY <1>2, <2>2 DEF b
<1>3. CASE idx \in 0 .. n - 1
  <2> DEFINE ch == line[idx + 1]
             c  == Byte[ch]
             f  == Follow(ch)
             cb == count_first_zero(c) - 1
  <2>1. ch \in Chars /\ At(b, idx) = c /\ idx < Len(b)
    BY <1>1, <1>3 DEF At
  <2>2. utf8_next(b, idx) =
          IF c < 128 THEN idx + 1
          ELSE IF \/ c < 192 \/ cb > 3 \/ idx + 1 + cb > n + 1
                  \/ \E j \in 1 .. cb : ~Continues(At(b, idx + j))
               THEN INVALID_SIZE ELSE idx + 1 + cb
    BY <1>1, <1>3, <2>1 DEF utf8_next
  <2>3. /\ c \in Nat /\ f \in 0 .. 3
        /\ ch = "cont" => c \in 128 .. 191 /\ f = 0
        /\ f # 0 => c >= 192 /\ cb = f
        /\ f = 0 /\ ch # "cont" => c < 128
    BY <2>1, ByteKinds
  <2>4. ASSUME NEW j \in 1 .. 3, idx + 1 + j <= n + 1
        PROVE  Continues(At(b, idx + j)) <=>
                 idx + 1 + j <= n /\ line[idx + 1 + j] = "cont"
    <3> DEFINE k == idx + 1 + j
    <3>1. At(b, idx + j) = b[k] /\ k \in 1 .. n + 1
      BY <1>1, <1>3, <2>4 DEF At
    <3>2. CASE k = n + 1
      BY <1>1, <3>1, <3>2 DEF Continues
    <3>3. CASE k \in 1 .. n
      <4>1. b[k] = Byte[line[k]] /\ line[k] \in Chars
        BY <1>1, <3>3
      <4>2. line[k] = "cont" <=> Byte[line[k]] \div 64 = 2
        BY <4>1, ByteKinds
      <4>3. Continues(At(b, idx + j)) <=> line[k] = "cont"
        BY <3>1, <4>1, <4>2 DEF Continues
      <4> QED
        BY <1>1, <1>3, <3>3, <4>3
    <3> QED
      BY <3>1, <3>2, <3>3
  <2>5. Followed(line, idx) <=>
          \A j \in 1 .. f : idx + 1 + j <= n /\ line[idx + 1 + j] = "cont"
    BY DEF Followed
  <2> DEFINE result == IF ch = "cont" \/ ~Followed(line, idx)
                         THEN INVALID_SIZE ELSE idx + 1 + f
  <2>6. idx # n
    BY <1>1, <1>3
  <2> SUFFICES utf8_next(b, idx) = result
    BY <2>6 DEF b
  <2> HIDE DEF ch, c, f, cb
  <2>7. CASE f # 0
    <3>1. (\/ idx + 1 + f > n + 1
           \/ \E j \in 1 .. f : ~Continues(At(b, idx + j)))
           <=> ~Followed(line, idx)
      <4>1. CASE idx + 1 + f > n + 1
        <5>1. f \in 1 .. f /\ ~(idx + 1 + f <= n)
          BY <1>1, <1>3, <2>3, <2>7, <4>1
        <5> QED
          BY <2>5, <4>1, <5>1
      <4>2. CASE ~(idx + 1 + f > n + 1)
        <5>1. \A j \in 1 .. f : j \in 1 .. 3 /\ idx + 1 + j <= n + 1
          BY <1>1, <1>3, <2>3, <2>7, <4>2
        <5> QED
          BY <2>4, <2>5, <4>2, <5>1
      <4> QED
        BY <4>1, <4>2
    <3>2. ~(c < 128) /\ ~(c < 192) /\ ~(cb > 3) /\ cb = f /\ ch # "cont"
      BY <2>3, <2>7
    <3> QED
      BY <2>2, <3>1, <3>2
  <2>8. CASE ch = "cont"
    <3>1. ~(c < 128) /\ c < 192
      BY <2>3, <2>8
    <3> QED
      BY <2>2, <2>8, <3>1
  <2>9. CASE ch # "cont" /\ f = 0
    <3>1. Followed(line, idx)
      BY <2>5, <2>9
    <3>2. c < 128 /\ idx + 1 + f = idx + 1
      BY <1>1, <1>3, <2>3, <2>9
    <3> QED
      BY <2>2, <2>9, <3>1, <3>2
  <2> QED
    BY <2>7, <2>8, <2>9
<1> QED
  BY <1>1, <1>2, <1>3

(* It is behind the character, and at most behind the NUL.                 *)
LEMMA NextRange ==
    ASSUME NEW line \in Seq(Chars), NEW i \in 0 .. Len(line)
    PROVE  utf8_next(Bytes(line), i) = INVALID_SIZE
           \/ utf8_next(Bytes(line), i) \in i + 1 .. Len(line) + 1
<1> DEFINE n == Len(line)
           b == Bytes(line)
           f == Follow(line[i + 1])
<1>1. n \in Nat /\ Len(b) = n + 1 /\ n + 1 \in Nat /\ i \in 0 .. n
  BY LineBytes
<1>2. utf8_next(b, i) =
         IF i = n THEN i + 1
         ELSE IF line[i + 1] = "cont" \/ ~Followed(line, i)
              THEN INVALID_SIZE ELSE i + 1 + f
  BY NextChar
<1>3. CASE i = n
  BY <1>1, <1>2, <1>3
<1>4. CASE i # n /\ Followed(line, i)
  <2>1. line[i + 1] \in Chars
    BY <1>1, <1>4
  <2>2. f \in 0 .. 3
    BY <2>1, ByteKinds
  <2>3. f = 0 \/ f \in 1 .. f
    BY <2>2
  <2>4. \A j \in 1 .. f : i + 1 + j <= n
    BY <1>4 DEF Followed
  <2>5. i + 1 + f \in i + 1 .. n + 1
    <3> HIDE DEF f, n
    <3> QED
      BY <1>1, <1>4, <2>2, <2>3, <2>4
  <2> QED
    BY <1>2, <1>4, <2>5
<1>5. CASE i # n /\ ~Followed(line, i)
  BY <1>2, <1>5
<1> QED
  BY <1>3, <1>4, <1>5

(* The recursion of Count, on the indices that utf8_next gives, is defined.*)
Scanned(g, nx, N, i) ==
    IF i = N THEN 0
    ELSE LET rest == IF nx[i] = INVALID_SIZE THEN INVALID_SIZE ELSE g[nx[i]]
         IN  IF rest = INVALID_SIZE THEN INVALID_SIZE ELSE 1 + rest

LEMMA ScanExists ==
    ASSUME NEW N \in Nat, NEW nx,
           \A i \in 0 .. N - 1 : nx[i] = INVALID_SIZE \/ nx[i] \in i + 1 .. N
    PROVE  \E g : g = [i \in 0 .. N |-> Scanned(g, nx, N, i)]
<1> DEFINE Upto(k, g) == g = [i \in N - k .. N |-> Scanned(g, nx, N, i)]
           S == {k \in 0 .. N : \E g : Upto(k, g)}
<1>1. 0 \in S
  <2> DEFINE g == [i \in N .. N |-> 0]
  <2>1. g = [i \in N - 0 .. N |-> Scanned(g, nx, N, i)]
    <3>1. \A i \in N .. N : Scanned(g, nx, N, i) = 0
      BY DEF Scanned
    <3>2. N - 0 = N
      OBVIOUS
    <3> QED
      BY <3>1, <3>2, Zenon
  <2> HIDE DEF g
  <2> QED
    BY <2>1
<1>2. ASSUME NEW k \in 0 .. N - 1, k \in S
      PROVE  k + 1 \in S
  <2> PICK g : Upto(k, g)
    BY <1>2
  <2> DEFINE m == N - (k + 1)
             h == [i \in m .. N |-> IF i = m THEN Scanned(g, nx, N, i) ELSE g[i]]
  <2>1. /\ DOMAIN g = m + 1 .. N
        /\ \A i \in m + 1 .. N : g[i] = Scanned(g, nx, N, i)
    <3>1. N - k = m + 1
      OBVIOUS
    <3> QED
      BY <3>1, Zenon
  <2>2. ASSUME NEW i \in m .. N
        PROVE  Scanned(h, nx, N, i) = Scanned(g, nx, N, i)
    <3>1. CASE i = N
      BY <3>1 DEF Scanned
    <3>2. CASE i # N /\ nx[i] = INVALID_SIZE
      BY <3>2 DEF Scanned
    <3>3. CASE i # N /\ nx[i] # INVALID_SIZE
      <4>1. nx[i] \in m + 1 .. N /\ nx[i] # m
        BY <3>3
      <4>2. h[nx[i]] = g[nx[i]]
        BY <4>1
      <4> HIDE DEF h, m
      <4> QED
        BY <3>3, <4>2 DEF Scanned
    <3> QED
      BY <3>1, <3>2, <3>3
  <2>3. \A i \in m .. N : h[i] = Scanned(h, nx, N, i)
    <3> SUFFICES ASSUME NEW i \in m .. N
                 PROVE  h[i] = Scanned(g, nx, N, i)
      BY <2>2
    <3>1. CASE i = m
      BY <3>1
    <3>2. CASE i # m
      <4>1. i \in m + 1 .. N
        BY <3>2
      <4> QED
        BY <2>1, <4>1
    <3> QED
      BY <3>1, <3>2
  <2>4. h = [i \in m .. N |-> h[i]]
    OBVIOUS
  <2>5. h = [i \in m .. N |-> Scanned(h, nx, N, i)]
    <3> HIDE DEF h
    <3> QED
      BY <2>3, <2>4
  <2>6. k + 1 \in 0 .. N
    OBVIOUS
  <2> HIDE DEF h
  <2> QED
    BY <2>5, <2>6
<1>3. \A k \in 0 .. N : k \in S
  <2> HIDE DEF S
  <2> QED
    BY <1>1, <1>2, Induction
<1>4. PICK g : Upto(N, g)
  BY <1>3
<1>5. N - N = 0
  OBVIOUS
<1> QED
  BY <1>4, <1>5

(* What WellFormed says, of the part of a line from idx on.                *)
Countable(line, idx) ==
    /\ \A i \in idx .. Len(line) - 1 : Followed(line, i)
    /\ \A i \in idx .. Len(line) - 1 : line[i + 1] = "cont" =>
           \E j \in 1 .. 3 : i - j >= idx /\ Follow(line[i - j + 1]) >= j

LEMMA CountDefined ==
    ASSUME NEW line \in Seq(Chars)
    PROVE  \E g : /\ Count(Bytes(line)) = g[0]
                  /\ \A i \in 0 .. Len(line) + 1 :
                        g[i] = Scanned(g, [idx \in 0 .. Len(line) |->
                                             utf8_next(Bytes(line), idx)],
                                       Len(line) + 1, i)
<1> DEFINE b == Bytes(line)
           n == Len(line)
           nx == [idx \in 0 .. n |-> utf8_next(b, idx)]
<1>1. n \in Nat /\ Len(b) = n + 1 /\ n + 1 \in Nat
  BY LineBytes
<1>2. \A i \in 0 .. n : nx[i] = INVALID_SIZE \/ nx[i] \in i + 1 .. n + 1
  <2>1. \A i \in 0 .. n : nx[i] = utf8_next(b, i)
    OBVIOUS
  <2>2. \A i \in 0 .. n : utf8_next(b, i) = INVALID_SIZE
                            \/ utf8_next(b, i) \in i + 1 .. n + 1
    BY NextRange
  <2> HIDE DEF nx, n
  <2> QED
    BY <2>1, <2>2
<1> DEFINE Body(g, i) == IF i = Len(b) THEN 0
                         ELSE LET next == utf8_next(b, i)
                                  rest == IF next = INVALID_SIZE THEN INVALID_SIZE
                                                                 ELSE g[next]
                              IN  IF rest = INVALID_SIZE THEN INVALID_SIZE ELSE 1 + rest
           from == CHOOSE g : g = [i \in 0 .. Len(b) |-> Body(g, i)]
<1>3. Count(b) = from[0]
  BY DEF Count
<1>4. \A g : \A i \in 0 .. n + 1 : Body(g, i) = Scanned(g, nx, n + 1, i)
  <2> SUFFICES ASSUME NEW g, NEW i \in 0 .. n + 1
               PROVE  Body(g, i) = Scanned(g, nx, n + 1, i)
    OBVIOUS
  <2>1. CASE i = n + 1
    BY <1>1, <2>1 DEF Scanned
  <2>2. CASE i # n + 1
    <3>1. nx[i] = utf8_next(b, i)
      BY <1>1, <2>2
    <3> HIDE DEF nx, n, b
    <3> QED
      BY <1>1, <2>2, <3>1 DEF Scanned
  <2> QED
    BY <2>1, <2>2
<1>5. \E g : g = [i \in 0 .. n + 1 |-> Scanned(g, nx, n + 1, i)]
  <2>1. (n + 1) - 1 = n
    BY <1>1
  <2> HIDE DEF nx, n
  <2>2. \A i \in 0 .. (n + 1) - 1 : nx[i] = INVALID_SIZE \/ nx[i] \in i + 1 .. n + 1
    BY <1>2, <2>1
  <2> QED
    BY <1>1, <2>2, ScanExists
<1>6. \E g : g = [i \in 0 .. Len(b) |-> Body(g, i)]
  <2> HIDE DEF Body, nx, b
  <2> QED
    BY <1>1, <1>4, <1>5
<1>7. from = [i \in 0 .. Len(b) |-> Body(from, i)]
  <2> HIDE DEF Body
  <2> QED
    BY <1>6
<1>8. \A i \in 0 .. n + 1 : from[i] = Scanned(from, nx, n + 1, i)
  <2> HIDE DEF Body, nx, b, from
  <2> QED
    BY <1>1, <1>4, <1>7
<1> HIDE DEF from
<1> QED
  BY <1>3, <1>8

LEMMA CountableFrom ==
    ASSUME NEW line \in Seq(Chars), NEW idx \in 0 .. Len(line) - 1,
           line[idx + 1] # "cont", Followed(line, idx)
    PROVE  /\ idx + 1 + Follow(line[idx + 1]) \in idx + 1 .. Len(line)
           /\ Countable(line, idx) <=> Countable(line, idx + 1 + Follow(line[idx + 1]))
<1> DEFINE n == Len(line)
           f == Follow(line[idx + 1])
           m == idx + 1 + f
           C(i) == \E j \in 1 .. 3 : i - j >= idx /\ Follow(line[i - j + 1]) >= j
           D(i) == \E j \in 1 .. 3 : i - j >= m /\ Follow(line[i - j + 1]) >= j
<1>1. n \in Nat /\ \A k \in 1 .. n : line[k] \in Chars
  OBVIOUS
<1>2. f \in 0 .. 3 /\ \A i \in 0 .. n - 1 : Follow(line[i + 1]) \in 0 .. 3
  BY <1>1, ByteKinds
<1>3. \A j \in 1 .. f : idx + 1 + j <= n /\ line[idx + 1 + j] = "cont"
  BY DEF Followed
<1>4. m \in idx + 1 .. n
  <2>1. (f = 0 \/ f \in 1 .. f) /\ idx \in 0 .. n - 1
    BY <1>2
  <2>2. idx + 1 + f <= n
    <3>1. CASE f = 0
      BY <1>1, <2>1, <3>1
    <3>2. CASE f \in 1 .. f
      BY <1>3, <3>2
    <3> QED
      BY <2>1, <3>1, <3>2
  <2> HIDE DEF f, n
  <2> QED
    BY <1>1, <1>2, <2>1, <2>2
<1>5. \A i \in idx + 1 .. m - 1 : line[i + 1] = "cont" /\ Follow(line[i + 1]) = 0
  <2> SUFFICES ASSUME NEW i \in idx + 1 .. m - 1
               PROVE  line[i + 1] = "cont" /\ Follow(line[i + 1]) = 0
    OBVIOUS
  <2>1. i - idx \in 1 .. f /\ idx + 1 + (i - idx) = i + 1
    BY <1>2
  <2>2. line[i + 1] = "cont"
    BY <1>3, <2>1
  <2> QED
    BY <2>2 DEF Follow
<1> HIDE DEF n, f, m
<1>6. m = idx + 1 + f
  BY DEF m
<1>7. Countable(line, idx) <=>
        /\ \A i \in idx .. n - 1 : Followed(line, i)
        /\ \A i \in idx .. n - 1 : line[i + 1] = "cont" => C(i)
  BY DEF Countable, n
<1>8. Countable(line, m) <=>
        /\ \A i \in m .. n - 1 : Followed(line, i)
        /\ \A i \in m .. n - 1 : line[i + 1] = "cont" => D(i)
  BY DEF Countable, n
<1>9. \A i \in m .. n - 1 : C(i) => D(i)
  <2> SUFFICES ASSUME NEW i \in m .. n - 1, NEW j \in 1 .. 3,
                      i - j >= idx, Follow(line[i - j + 1]) >= j
               PROVE  i - j >= m
    OBVIOUS
  <2>1. CASE i - j = idx
    <3>1. f >= j
      BY <2>1 DEF f
    <3> QED
      BY <1>1, <1>2, <1>4, <1>6, <2>1, <3>1
  <2>2. CASE i - j \in idx + 1 .. m - 1
    BY <1>5, <2>2
  <2> QED
    BY <1>1, <1>4, <2>1, <2>2
<1>10. \A i \in m .. n - 1 : D(i) => C(i)
  BY <1>1, <1>4
<1>11. \A i \in idx .. m - 1 : Followed(line, i)
  <2> SUFFICES ASSUME NEW i \in idx + 1 .. m - 1
               PROVE  Followed(line, i)
    BY <1>4
  <2>1. Follow(line[i + 1]) = 0
    BY <1>5
  <2> QED
    BY <2>1 DEF Followed
<1>12. \A i \in idx .. m - 1 : line[i + 1] = "cont" => C(i)
  <2> SUFFICES ASSUME NEW i \in idx + 1 .. m - 1
               PROVE  C(i)
    BY <1>4
  <2>1. i - idx \in 1 .. 3 /\ i - (i - idx) = idx /\ f >= i - idx
    BY <1>2, <1>4, <1>6
  <2>2. Follow(line[i - (i - idx) + 1]) >= i - idx
    BY <2>1 DEF f
  <2> QED
    BY <2>1, <2>2
<1>13. \A i \in idx .. n - 1 : i \in idx .. m - 1 \/ i \in m .. n - 1
  BY <1>1, <1>4
<1>14. \A i \in m .. n - 1 : i \in idx .. n - 1
  BY <1>1, <1>4
<1> HIDE DEF C, D
<1>15. Countable(line, idx) <=> Countable(line, m)
  BY <1>7, <1>8, <1>9, <1>10, <1>11, <1>12, <1>13, <1>14
<1> QED
  BY <1>4, <1>15 DEF m, n, f

LEMMA CountsLines ==
    ASSUME NEW line \in Seq(Chars)
    PROVE  /\ Count(Bytes(line)) = INVALID_SIZE <=> ~Countable(line, 0)
           /\ Count(Bytes(line)) # INVALID_SIZE => Count(Bytes(line)) \in Nat \ {0}
<1> DEFINE n == Len(line)
           nx == [idx \in 0 .. Len(line) |-> utf8_next(Bytes(line), idx)]
<1>1. PICK g : /\ Count(Bytes(line)) = g[0]
               /\ \A i \in 0 .. n + 1 : g[i] = Scanned(g, nx, n + 1, i)
  BY CountDefined
<1>2. n \in Nat
  OBVIOUS
<1>3. \A i \in 0 .. n :
        nx[i] = IF i = n THEN i + 1
                ELSE IF line[i + 1] = "cont" \/ ~Followed(line, i)
                  THEN INVALID_SIZE ELSE i + 1 + Follow(line[i + 1])
  BY NextChar
<1> HIDE DEF nx
<1> DEFINE Agrees(i) == /\ g[i] = INVALID_SIZE <=> ~Countable(line, i)
                        /\ g[i] # INVALID_SIZE => g[i] \in Nat \ {0}
           S == {k \in 0 .. n : \A i \in n - k .. n : Agrees(i)}
<1>4. g[n + 1] = 0
  BY <1>1, <1>2 DEF Scanned
<1>5. \A i \in 0 .. n : g[i] =
        IF nx[i] = INVALID_SIZE THEN INVALID_SIZE
        ELSE IF g[nx[i]] = INVALID_SIZE THEN INVALID_SIZE ELSE 1 + g[nx[i]]
  <2> SUFFICES ASSUME NEW i \in 0 .. n
               PROVE  g[i] =
        IF nx[i] = INVALID_SIZE THEN INVALID_SIZE
        ELSE IF g[nx[i]] = INVALID_SIZE THEN INVALID_SIZE ELSE 1 + g[nx[i]]
    OBVIOUS
  <2>1. g[i] = Scanned(g, nx, n + 1, i) /\ i # n + 1
    BY <1>1, <1>2
  <2> HIDE DEF n
  <2> QED
    BY <2>1 DEF Scanned
<1>6. Agrees(n)
  <2>1. nx[n] = n + 1
    BY <1>2, <1>3
  <2>2. n + 1 # INVALID_SIZE /\ 0 # INVALID_SIZE
    BY <1>2 DEF INVALID_SIZE
  <2>3. g[n] = 1 + 0
    BY <1>2, <1>4, <1>5, <2>1, <2>2
  <2>4. Countable(line, n)
    BY <1>2 DEF Countable
  <2> QED
    BY <2>3, <2>4 DEF INVALID_SIZE
<1>7. ASSUME NEW idx \in 0 .. n - 1, \A i \in idx + 1 .. n : Agrees(i)
      PROVE  Agrees(idx)
  <2>1. idx \in 0 .. n /\ idx # n
    BY <1>2
  <2>2. CASE line[idx + 1] = "cont" \/ ~Followed(line, idx)
    <3>1. g[idx] = INVALID_SIZE
      BY <1>3, <1>5, <2>1, <2>2
    <3>2. ~Countable(line, idx)
      <4>1. idx \in idx .. n - 1
        BY <1>2
      <4>2. \A j \in 1 .. 3 : ~(idx - j >= idx)
        OBVIOUS
      <4> QED
        BY <2>2, <4>1, <4>2 DEF Countable
    <3> QED
      BY <3>1, <3>2
  <2>3. CASE line[idx + 1] # "cont" /\ Followed(line, idx)
    <3> DEFINE m == idx + 1 + Follow(line[idx + 1])
    <3>1. m \in idx + 1 .. n /\ (Countable(line, idx) <=> Countable(line, m))
      BY <2>3, CountableFrom
    <3>2. nx[idx] = m
      BY <1>3, <2>1, <2>3
    <3> HIDE DEF m, n
    <3>3. m # INVALID_SIZE
      BY <3>1 DEF INVALID_SIZE
    <3>4. g[idx] = IF g[m] = INVALID_SIZE THEN INVALID_SIZE ELSE 1 + g[m]
      BY <1>5, <2>1, <3>2, <3>3
    <3>5. Agrees(m)
      BY <1>7, <3>1
    <3> QED
      BY <3>1, <3>4, <3>5 DEF INVALID_SIZE
  <2> QED
    BY <2>2, <2>3
<1> HIDE DEF Agrees
<1>8. 0 \in S
  BY <1>2, <1>6
<1>9. ASSUME NEW k \in 0 .. n - 1, k \in S
      PROVE  k + 1 \in S
  <2> DEFINE idx == n - (k + 1)
  <2>1. idx \in 0 .. n - 1 /\ idx + 1 = n - k /\ k + 1 \in 0 .. n
    BY <1>2
  <2>2. \A i \in idx + 1 .. n : Agrees(i)
    BY <1>9, <2>1
  <2>3. Agrees(idx)
    BY <1>7, <2>1, <2>2
  <2>4. \A i \in idx .. n : Agrees(i)
    BY <1>2, <2>1, <2>2, <2>3
  <2> QED
    BY <2>1, <2>4
<1>10. n \in S
  <2> HIDE DEF S, n
  <2>1. \A k \in 0 .. n : k \in S
    BY <1>2, <1>8, <1>9, Induction
  <2> QED
    BY <1>2, <2>1
<1>11. Agrees(0)
  BY <1>2, <1>10
<1> QED
  BY <1>1, <1>11 DEF Agrees

LEMMA WellFormedCountable ==
    ASSUME NEW line \in Seq(Chars)
    PROVE  WellFormed(line) <=> Countable(line, 0)
<1> DEFINE n == Len(line)
           C(i) == \E j \in 1 .. 3 : i - j >= 0 /\ Follow(line[i - j + 1]) >= j
           D(k) == \E j \in 1 .. 3 : k - j \in 1 .. n /\ Follow(line[k - j]) >= j
           F(k) == \A j \in 1 .. Follow(line[k]) :
                       k + j \in 1 .. n /\ line[k + j] = "cont"
<1>1. n \in Nat /\ DOMAIN line = 1 .. n /\ \A k \in 1 .. n : line[k] \in Chars
  OBVIOUS
<1>2. WellFormed(line) <=> \A k \in 1 .. n : F(k) /\ (line[k] = "cont" => D(k))
  BY <1>1 DEF WellFormed
<1>3. Countable(line, 0) <=>
        /\ \A i \in 0 .. n - 1 : Followed(line, i)
        /\ \A i \in 0 .. n - 1 : line[i + 1] = "cont" => C(i)
  BY DEF Countable
<1>4. \A k \in 1 .. n : C(k - 1) <=> D(k)
  <2> SUFFICES ASSUME NEW k \in 1 .. n
               PROVE  C(k - 1) <=> D(k)
    OBVIOUS
  <2>1. \A j \in 1 .. 3 : /\ (k - 1) - j >= 0 <=> k - j \in 1 .. n
                          /\ ((k - 1) - j) + 1 = k - j
    BY <1>1
  <2> HIDE DEF n
  <2> QED
    BY <2>1
<1>5. \A k \in 1 .. n : F(k) <=> Followed(line, k - 1)
  <2> SUFFICES ASSUME NEW k \in 1 .. n
               PROVE  F(k) <=> Followed(line, k - 1)
    OBVIOUS
  <2>1. Follow(line[k]) \in 0 .. 3
    BY <1>1, ByteKinds
  <2>2. (k - 1) + 1 = k
    OBVIOUS
  <2>3. \A j \in 1 .. Follow(line[k]) : k + j \in 1 .. n <=> k + j <= n
    BY <1>1, <2>1
  <2>4. Followed(line, k - 1) <=>
          \A j \in 1 .. Follow(line[k]) : k + j <= n /\ line[k + j] = "cont"
    BY <2>2 DEF Followed
  <2> QED
    BY <2>3, <2>4
<1> HIDE DEF C, D, F, n
<1>6. \A k \in 1 .. n : k - 1 \in 0 .. n - 1 /\ (k - 1) + 1 = k
  BY <1>1
<1>7. \A i \in 0 .. n - 1 : i + 1 \in 1 .. n /\ (i + 1) - 1 = i
  BY <1>1
<1> QED
  BY <1>2, <1>3, <1>4, <1>5, <1>6, <1>7

(* A line of any length gives a string, and so a password, exactly when    *)
(* each of its characters has the continuation bytes it announces and each *)
(* continuation byte has a character: what string_from_bytes and utf8_next *)
(* (types/string.c) count is what the encoding means.                      *)
THEOREM RefusesBadLines ==
    ASSUME NEW line \in Seq(Chars)
    PROVE  string_from_bytes(Bytes(line)).len = INVALID_SIZE <=> ~WellFormed(line)
<1> DEFINE b == Bytes(line)
<1>1. /\ b # <<>> /\ At(b, Len(b) - 1) = 0
  <2>1. Len(b) \in Nat /\ Len(b) = Len(line) + 1 /\ b[Len(line) + 1] = 0
        /\ b \in Seq(Nat)
    BY LineBytes
  <2> HIDE DEF b
  <2>2. (Len(b) - 1) + 1 = Len(line) + 1
    BY <2>1
  <2> QED
    BY <2>1, <2>2 DEF At
<1>2. /\ Count(b) = INVALID_SIZE <=> ~WellFormed(line)
      /\ Count(b) # INVALID_SIZE => Count(b) \in Nat \ {0}
  BY CountsLines, WellFormedCountable
<1> HIDE DEF b
<1>3. string_from_bytes(b).len = IF Count(b) = INVALID_SIZE THEN INVALID_SIZE
                                                           ELSE Count(b) - 1
  BY <1>1 DEF string_from_bytes
<1> QED
  BY <1>2, <1>3 DEF INVALID_SIZE, b

-----------------------------------------------------------------------------
(* What the functions of string.c make of a well-formed line.              *)
(* The characters of a line begin at p[0], p[1], ...; the last p is its    *)
(* end.                                                                    *)
Starts(line, m, p) ==
    /\ m \in Nat /\ p \in [0 .. m -> Nat] /\ p[0] = 0 /\ p[m] = Len(line)
    /\ \A k \in 0 .. m - 1 :
          /\ p[k] < Len(line) /\ line[p[k] + 1] # "cont" /\ Followed(line, p[k])
          /\ p[k + 1] = p[k] + 1 + Follow(line[p[k] + 1])

LEMMA StartsExist ==
    ASSUME NEW line \in Seq(Chars), WellFormed(line)
    PROVE  \E m, p : Starts(line, m, p)
<1> DEFINE n == Len(line)
           From(idx, m, p) ==
              /\ m \in Nat /\ p \in [0 .. m -> Nat] /\ p[0] = idx /\ p[m] = n
              /\ \A k \in 0 .. m - 1 :
                    /\ p[k] < n /\ line[p[k] + 1] # "cont" /\ Followed(line, p[k])
                    /\ p[k + 1] = p[k] + 1 + Follow(line[p[k] + 1])
           Good(idx) == Countable(line, idx) => \E m, p : From(idx, m, p)
           S == {k \in 0 .. n : \A idx \in n - k .. n : Good(idx)}
<1>1. n \in Nat
  OBVIOUS
<1>2. Good(n)
  <2> DEFINE p == [k \in 0 .. 0 |-> n]
  <2>1. From(n, 0, p)
    BY <1>1
  <2> HIDE DEF p, From
  <2> QED
    BY <2>1
<1>3. ASSUME NEW idx \in 0 .. n - 1, \A i \in idx + 1 .. n : Good(i)
      PROVE  Good(idx)
  <2> SUFFICES ASSUME Countable(line, idx)
               PROVE  \E m, p : From(idx, m, p)
    OBVIOUS
  <2> DEFINE j == idx + 1 + Follow(line[idx + 1])
  <2>1. line[idx + 1] # "cont" /\ Followed(line, idx)
    <3>1. idx \in idx .. n - 1 /\ \A i \in 1 .. 3 : ~(idx - i >= idx)
      BY <1>1
    <3> QED
      BY <3>1 DEF Countable
  <2>2. j \in idx + 1 .. n /\ Countable(line, j)
    BY <2>1, CountableFrom
  <2>3. PICK m, p : From(j, m, p)
    BY <1>3, <2>2
  <2> DEFINE q == [k \in 0 .. m + 1 |-> IF k = 0 THEN idx ELSE p[k - 1]]
  <2>4. idx < n /\ j = idx + 1 + Follow(line[idx + 1]) /\ idx \in Nat
    BY <1>1
  <2> HIDE DEF n, j
  <2>5. q \in [0 .. m + 1 -> Nat] /\ q[0] = idx /\ q[1] = j /\ q[m + 1] = n
    BY <2>3, <2>4
  <2>6. ASSUME NEW k \in 1 .. m
        PROVE  q[k] = p[k - 1] /\ q[k + 1] = p[(k - 1) + 1] /\ k - 1 \in 0 .. m - 1
    BY <2>3, <2>6
  <2> HIDE DEF q
  <2>7. ASSUME NEW k \in 0 .. (m + 1) - 1
        PROVE  /\ q[k] < n /\ line[q[k] + 1] # "cont" /\ Followed(line, q[k])
               /\ q[k + 1] = q[k] + 1 + Follow(line[q[k] + 1])
    <3>1. CASE k = 0
      BY <2>1, <2>4, <2>5, <3>1
    <3>2. CASE k # 0
      <4>1. k \in 1 .. m
        BY <2>3, <3>2
      <4> QED
        BY <2>3, <2>6, <4>1
    <3> QED
      BY <3>1, <3>2
  <2>8. From(idx, m + 1, q)
    BY <2>3, <2>5, <2>7
  <2> QED
    BY <2>8
<1> HIDE DEF Good
<1>4. 0 \in S
  BY <1>1, <1>2
<1>5. ASSUME NEW k \in 0 .. n - 1, k \in S
      PROVE  k + 1 \in S
  <2> DEFINE idx == n - (k + 1)
  <2>1. idx \in 0 .. n - 1 /\ idx + 1 = n - k /\ k + 1 \in 0 .. n
    BY <1>1
  <2>2. \A i \in idx + 1 .. n : Good(i)
    BY <1>5, <2>1
  <2>3. Good(idx)
    BY <1>3, <2>1, <2>2
  <2>4. \A i \in idx .. n : Good(i)
    BY <1>1, <2>1, <2>2, <2>3
  <2> QED
    BY <2>1, <2>4
<1>6. n \in S
  <2> HIDE DEF S, n
  <2>1. \A k \in 0 .. n : k \in S
    BY <1>1, <1>4, <1>5, Induction
  <2> QED
    BY <1>1, <2>1
<1>7. Good(0)
  BY <1>1, <1>6
<1>8. PICK m, p : From(0, m, p)
  BY <1>7, WellFormedCountable DEF Good
<1> QED
  BY <1>8 DEF Starts

(* What utf8_next gives at each of them.                                   *)
LEMMA StartsGrow ==
    ASSUME NEW line \in Seq(Chars), NEW m, NEW p, Starts(line, m, p)
    PROVE  /\ m \in Nat /\ p[0] = 0 /\ p[m] = Len(line)
           /\ \A k \in 0 .. m : p[k] \in 0 .. Len(line)
           /\ \A k \in 0 .. m - 1 : /\ p[k] < p[k + 1] /\ p[k] < Len(line)
                                    /\ utf8_next(Bytes(line), p[k]) = p[k + 1]
           /\ \A a \in 0 .. m : \A b \in a .. m : p[a] <= p[b]
<1> DEFINE n == Len(line)
           S == {b \in 0 .. m : \A a \in 0 .. b : p[a] <= p[b]}
<1>1. /\ n \in Nat /\ m \in Nat /\ p[0] = 0 /\ p[m] = n
      /\ \A k \in 0 .. m : p[k] \in Nat
  BY DEF Starts
<1>2. ASSUME NEW k \in 0 .. m - 1
      PROVE  p[k] < p[k + 1] /\ p[k] < n /\ utf8_next(Bytes(line), p[k]) = p[k + 1]
  <2>1. /\ p[k] < n /\ line[p[k] + 1] # "cont" /\ Followed(line, p[k])
        /\ p[k + 1] = p[k] + 1 + Follow(line[p[k] + 1])
    BY DEF Starts
  <2>2. p[k] \in 0 .. n /\ p[k] # n /\ p[k] \in Nat /\ line[p[k] + 1] \in Chars
    BY <1>1, <2>1
  <2>3. Follow(line[p[k] + 1]) \in 0 .. 3
    BY <2>2, ByteKinds
  <2>4. utf8_next(Bytes(line), p[k]) = p[k] + 1 + Follow(line[p[k] + 1])
    BY <2>1, <2>2, NextChar
  <2> QED
    BY <2>1, <2>2, <2>3, <2>4
<1>3. 0 \in S
  BY <1>1
<1>4. ASSUME NEW k \in 0 .. m - 1, k \in S
      PROVE  k + 1 \in S
  <2>1. p[k] < p[k + 1] /\ k \in 0 .. m /\ k + 1 \in 0 .. m
    BY <1>1, <1>2
  <2>2. \A a \in 0 .. k + 1 : p[a] <= p[k + 1]
    <3> SUFFICES ASSUME NEW a \in 0 .. k + 1
                 PROVE  p[a] <= p[k + 1]
      OBVIOUS
    <3>1. CASE a = k + 1
      BY <1>1, <2>1, <3>1
    <3>2. CASE a \in 0 .. k
      <4>1. p[a] <= p[k] /\ a \in 0 .. m
        BY <1>1, <1>4, <3>2
      <4> QED
        BY <1>1, <2>1, <4>1
    <3> QED
      BY <3>1, <3>2
  <2> QED
    BY <2>1, <2>2
<1>5. \A b \in 0 .. m : b \in S
  <2> HIDE DEF S
  <2> QED
    BY <1>1, <1>3, <1>4, Induction
<1>6. \A a \in 0 .. m : \A b \in a .. m : p[a] <= p[b]
  BY <1>1, <1>5
<1>7. \A k \in 0 .. m : p[k] \in 0 .. n
  BY <1>1, <1>6
<1> QED
  BY <1>1, <1>2, <1>6, <1>7

(* A part of a line that begins and ends with a character.                 *)
Part(line, p, a, b) == SubSeq(line, p[a] + 1, p[b])

LEMMA PartIs ==
    ASSUME NEW line \in Seq(Chars), NEW m, NEW p, Starts(line, m, p),
           NEW a \in 0 .. m, NEW b \in a .. m
    PROVE  /\ Part(line, p, a, b) \in Seq(Chars)
           /\ Len(Part(line, p, a, b)) = p[b] - p[a]
           /\ p[a] \in Nat /\ p[b] \in Nat /\ p[a] <= p[b] /\ p[b] <= Len(line)
           /\ \A k \in 1 .. p[b] - p[a] : Part(line, p, a, b)[k] = line[p[a] + k]
<1> DEFINE n == Len(line)
           x == p[a]
           y == p[b]
<1>1. n \in Nat /\ x \in 0 .. n /\ y \in 0 .. n /\ x <= y
  BY StartsGrow
<1> HIDE DEF x, y
<1>2. \A k \in x + 1 .. y : line[k] \in Chars
  BY <1>1
<1>3. SubSeq(line, x + 1, y) = [k \in 1 .. y - x |-> line[x + k]]
  BY <1>1
<1>4. \A k \in 1 .. y - x : line[x + k] \in Chars
  BY <1>1, <1>2
<1>5. SubSeq(line, x + 1, y) \in Seq(Chars) /\ Len(SubSeq(line, x + 1, y)) = y - x
  BY <1>1, <1>3, <1>4
<1>6. \A k \in 1 .. y - x : SubSeq(line, x + 1, y)[k] = line[x + k]
  BY <1>3
<1> QED
  BY <1>1, <1>5, <1>6 DEF Part, x, y

LEMMA PartStarts ==
    ASSUME NEW line \in Seq(Chars), NEW m, NEW p, Starts(line, m, p),
           NEW a \in 0 .. m, NEW b \in a .. m
    PROVE  Starts(Part(line, p, a, b), b - a, [k \in 0 .. b - a |-> p[a + k] - p[a]])
<1> DEFINE s == Part(line, p, a, b)
           x == p[a]
           q == [k \in 0 .. b - a |-> p[a + k] - x]
<1>1. /\ s \in Seq(Chars) /\ Len(s) = p[b] - x /\ x \in Nat /\ p[b] \in Nat
      /\ \A k \in 1 .. p[b] - x : s[k] = line[x + k]
  BY PartIs
<1>2. m \in Nat /\ b - a \in Nat
  BY DEF Starts
<1>3. \A k \in 0 .. b - a : a + k \in 0 .. m /\ a + k \in a .. m
  BY <1>2
<1>4. \A k \in 0 .. b - a : p[a + k] \in Nat /\ x <= p[a + k] /\ p[a + k] <= Len(line)
  BY <1>3, StartsGrow
<1>5. q \in [0 .. b - a -> Nat] /\ q[0] = 0 /\ q[b - a] = p[b] - x
  <2>1. ASSUME NEW k \in 0 .. b - a
        PROVE  p[a + k] - x \in Nat
    <3> DEFINE y == p[a + k]
    <3>1. y \in Nat /\ x \in Nat /\ x <= y
      BY <1>1, <1>4
    <3> HIDE DEF x, y
    <3>2. y - x \in Nat
      BY <3>1
    <3> QED
      BY <3>2 DEF x, y
  <2>2. 0 \in 0 .. b - a /\ b - a \in 0 .. b - a /\ a + 0 = a /\ a + (b - a) = b
    BY <1>2
  <2>3. q[0] = x - x /\ q[b - a] = p[b] - x
    BY <2>2
  <2>4. q \in [0 .. b - a -> Nat]
    BY <2>1
  <2>5. x - x = 0
    BY <1>1
  <2> HIDE DEF q
  <2> QED
    BY <2>3, <2>4, <2>5
<1>6. ASSUME NEW k \in 0 .. (b - a) - 1
      PROVE  /\ q[k] < Len(s) /\ s[q[k] + 1] # "cont" /\ Followed(s, q[k])
             /\ q[k + 1] = q[k] + 1 + Follow(s[q[k] + 1])
  <2> DEFINE i == p[a + k]
             f == Follow(line[i + 1])
  <2>1. /\ a + k \in 0 .. m - 1 /\ a + (k + 1) = (a + k) + 1 /\ k + 1 \in 0 .. b - a
        /\ a + k + 1 \in 0 .. b /\ b \in a + k + 1 .. m /\ k \in 0 .. b - a
    BY <1>2
  <2>2. /\ i < Len(line) /\ line[i + 1] # "cont" /\ Followed(line, i)
        /\ p[a + k + 1] = i + 1 + f
    BY <2>1 DEF Starts
  <2>3. i \in Nat /\ x <= i /\ p[a + k + 1] <= p[b] /\ f \in 0 .. 3
    <3>1. p[a + k + 1] <= p[b]
      BY <2>1, StartsGrow
    <3>2. i \in Nat /\ x <= i
      BY <1>4, <2>1
    <3>3. line[i + 1] \in Chars
      BY <2>2, <3>2
    <3> QED
      BY <3>1, <3>2, <3>3, ByteKinds
  <2>4. q[k] = i - x /\ q[k + 1] = (i + 1 + f) - x
    <3>1. q[k] = p[a + k] - x /\ q[k + 1] = p[a + (k + 1)] - x
      BY <2>1
    <3>2. p[a + (k + 1)] = i + 1 + f
      BY <2>1, <2>2
    <3> HIDE DEF q, f, x
    <3> QED
      BY <3>1, <3>2
  <2> HIDE DEF q, i, f, x, s
  <2>5. (i - x) + 1 \in 1 .. p[b] - x /\ x + ((i - x) + 1) = i + 1
    BY <1>1, <2>2, <2>3
  <2>6. s[q[k] + 1] = line[i + 1]
    <3> DEFINE w == (i - x) + 1
    <3>1. w \in 1 .. p[b] - x /\ x + w = i + 1 /\ q[k] + 1 = w
      BY <2>4, <2>5
    <3> HIDE DEF w
    <3>2. s[w] = line[x + w]
      BY <1>1, <3>1
    <3> QED
      BY <3>1, <3>2
  <2>7. ASSUME NEW j \in 1 .. f
        PROVE  q[k] + 1 + j <= Len(s) /\ s[q[k] + 1 + j] = "cont"
    <3>1. q[k] + 1 + j \in 1 .. p[b] - x /\ x + (q[k] + 1 + j) = i + 1 + j
      BY <1>1, <2>2, <2>3, <2>4
    <3>2. line[i + 1 + j] = "cont"
      BY <2>2 DEF Followed, f
    <3>3. s[q[k] + 1 + j] = line[i + 1 + j]
      <4> DEFINE w == q[k] + 1 + j
      <4>1. w \in 1 .. p[b] - x /\ x + w = i + 1 + j
        BY <3>1
      <4> HIDE DEF w
      <4>2. s[w] = line[x + w]
        BY <1>1, <4>1
      <4> QED
        BY <4>1, <4>2 DEF w
    <3> QED
      BY <1>1, <3>1, <3>2, <3>3
  <2>8. Followed(s, q[k])
    BY <2>6, <2>7 DEF Followed, f
  <2>9. q[k] < Len(s)
    BY <1>1, <2>3, <2>4, <2>5
  <2>10. q[k + 1] = q[k] + 1 + f
    BY <1>1, <2>3, <2>4
  <2> QED
    BY <2>2, <2>6, <2>8, <2>9, <2>10 DEF f
<1> HIDE DEF q, x, s
<1>7. Starts(s, b - a, q)
  BY <1>1, <1>2, <1>5, <1>6 DEF Starts
<1> QED
  BY <1>7 DEF s, q, x

(* The bytes of a part are that part of the bytes.                         *)
LEMMA PartBytes ==
    ASSUME NEW line \in Seq(Chars), NEW m, NEW p, Starts(line, m, p),
           NEW a \in 0 .. m, NEW b \in a .. m
    PROVE  SubSeq(Bytes(line), p[a] + 1, p[b]) \o <<0>> = Bytes(Part(line, p, a, b))
<1> DEFINE s == Part(line, p, a, b)
           x == p[a]
           y == p[b]
           c == Bytes(line)
           d == Bytes(s)
<1>1. /\ s \in Seq(Chars) /\ Len(s) = y - x /\ x \in Nat /\ y \in Nat /\ x <= y
      /\ y <= Len(line) /\ \A k \in 1 .. y - x : s[k] = line[x + k]
  <2>1. s \in Seq(Chars) /\ Len(s) = y - x
    BY PartIs
  <2>2. x \in Nat /\ y \in Nat /\ x <= y /\ y <= Len(line)
    BY PartIs
  <2>3. \A k \in 1 .. y - x : s[k] = line[x + k]
    BY PartIs
  <2> HIDE DEF s, x, y
  <2> QED
    BY <2>1, <2>2, <2>3
<1>2. /\ c \in Seq(Nat) /\ Len(c) = Len(line) + 1
      /\ \A k \in 1 .. Len(line) : c[k] = Byte[line[k]]
  BY LineBytes
<1>3. /\ d \in Seq(Nat) /\ Len(d) = Len(s) + 1 /\ d[Len(s) + 1] = 0
      /\ \A k \in 1 .. Len(s) : d[k] = Byte[s[k]]
  BY <1>1, LineBytes
<1> DEFINE e == SubSeq(c, x + 1, y)
<1> HIDE DEF s, x, y, c, d
<1>4. /\ e \in Seq(Nat) /\ Len(e) = y - x
      /\ \A k \in 1 .. y - x : e[k] = c[x + k]
  <2>1. e = [k \in 1 .. y - x |-> c[x + k]]
    BY <1>1
  <2>2. \A k \in 1 .. y - x : c[x + k] \in Nat
    <3>1. \A k \in 1 .. y - x : x + k \in 1 .. Len(c)
      BY <1>1, <1>2
    <3>2. \A k \in 1 .. Len(c) : c[k] \in Nat
      BY <1>2
    <3> QED
      BY <3>1, <3>2
  <2>3. y - x \in Nat
    BY <1>1
  <2> HIDE DEF e
  <2> QED
    BY <2>1, <2>2, <2>3
<1> HIDE DEF e
<1>5. /\ e \o <<0>> \in Seq(Nat) /\ Len(e \o <<0>>) = y - x + 1
      /\ \A k \in 1 .. y - x : (e \o <<0>>)[k] = e[k]
      /\ (e \o <<0>>)[y - x + 1] = 0
  BY <1>1, <1>4
<1>6. ASSUME NEW k \in 1 .. y - x
      PROVE  (e \o <<0>>)[k] = d[k]
  <2>1. x + k \in 1 .. Len(line)
    BY <1>1
  <2>2. e[k] = Byte[line[x + k]]
    BY <1>2, <1>4, <2>1
  <2> QED
    BY <1>1, <1>3, <1>5, <2>2
<1>7. ASSUME NEW k \in 1 .. y - x + 1
      PROVE  (e \o <<0>>)[k] = d[k]
  <2>1. k = y - x + 1 \/ k \in 1 .. y - x
    BY <1>1
  <2> QED
    BY <1>1, <1>3, <1>5, <1>6, <2>1
<1>8. e \o <<0>> = d
  <2> DEFINE ee == e \o <<0>>
  <2> HIDE DEF ee
  <2>1. ee \in Seq(Nat) /\ Len(ee) = y - x + 1 /\ Len(d) = y - x + 1
        /\ d \in Seq(Nat) /\ \A k \in 1 .. y - x + 1 : ee[k] = d[k]
    BY <1>1, <1>3, <1>5, <1>7 DEF ee
  <2>2. ee = d
    BY <2>1, SeqEqual
  <2> QED
    BY <2>2 DEF ee
<1> QED
  BY <1>8 DEF e, d, c, x, y, s

(* The string of a line of m characters.                                   *)
StringOf(line, m) == [len |-> m, bytes |-> Bytes(line)]

LEMMA StringIs ==
    ASSUME NEW line \in Seq(Chars), NEW m, NEW p, Starts(line, m, p)
    PROVE  string_from_bytes(Bytes(line)) = StringOf(line, m)
<1> DEFINE n == Len(line)
           b == Bytes(line)
           nx == [idx \in 0 .. Len(line) |-> utf8_next(Bytes(line), idx)]
<1>1. PICK g : /\ Count(b) = g[0]
               /\ \A i \in 0 .. n + 1 : g[i] = Scanned(g, nx, n + 1, i)
  BY CountDefined
<1>2. n \in Nat /\ m \in Nat /\ p[0] = 0 /\ p[m] = n
  BY StartsGrow
<1>3. nx[n] = n + 1
  BY <1>2, NextChar
<1>4. \A k \in 0 .. m - 1 :
        p[k] \in 0 .. n /\ p[k + 1] \in 0 .. n /\ nx[p[k]] = p[k + 1]
  <2> SUFFICES ASSUME NEW k \in 0 .. m - 1
               PROVE  p[k] \in 0 .. n /\ p[k + 1] \in 0 .. n /\ nx[p[k]] = p[k + 1]
    OBVIOUS
  <2>1. k \in 0 .. m /\ k + 1 \in 0 .. m
    BY <1>2
  <2>2. p[k] \in 0 .. n /\ p[k + 1] \in 0 .. n
    BY <2>1, StartsGrow
  <2>3. utf8_next(Bytes(line), p[k]) = p[k + 1]
    BY StartsGrow
  <2> QED
    BY <2>2, <2>3
<1> HIDE DEF nx, n, b
<1>5. g[n] = 1
  <2>1. g[n + 1] = 0
    BY <1>1, <1>2 DEF Scanned
  <2>2. g[n] = Scanned(g, nx, n + 1, n) /\ n # n + 1 /\ n + 1 # INVALID_SIZE
    BY <1>1, <1>2 DEF INVALID_SIZE
  <2>3. 0 # INVALID_SIZE
    BY DEF INVALID_SIZE
  <2> QED
    BY <1>3, <2>1, <2>2, <2>3 DEF Scanned
<1> DEFINE S == {j \in 0 .. m : g[p[m - j]] = 1 + j}
<1>6. 0 \in S
  BY <1>2, <1>5
<1>7. ASSUME NEW j \in 0 .. m - 1, j \in S
      PROVE  j + 1 \in S
  <2> DEFINE k == m - (j + 1)
  <2>1. k \in 0 .. m - 1 /\ k + 1 = m - j /\ j + 1 \in 0 .. m
    BY <1>2
  <2>2. g[p[k + 1]] = 1 + j /\ p[k] \in 0 .. n /\ p[k + 1] \in 0 .. n
        /\ nx[p[k]] = p[k + 1]
    BY <1>4, <1>7, <2>1
  <2> HIDE DEF k
  <2>3. /\ p[k] # n + 1 /\ p[k] \in 0 .. n + 1
        /\ p[k + 1] # INVALID_SIZE /\ 1 + j # INVALID_SIZE
    BY <1>2, <2>2 DEF INVALID_SIZE
  <2>4. g[p[k]] = Scanned(g, nx, n + 1, p[k])
    BY <1>1, <2>3
  <2>5. Scanned(g, nx, n + 1, p[k]) = 1 + (1 + j)
    BY <2>2, <2>3 DEF Scanned
  <2>6. g[p[k]] = 1 + (j + 1)
    BY <2>4, <2>5
  <2> QED
    BY <2>1, <2>6 DEF k
<1>8. m \in S
  <2> HIDE DEF S
  <2>1. \A j \in 0 .. m : j \in S
    BY <1>2, <1>6, <1>7, Induction
  <2> QED
    BY <1>2, <2>1
<1>9. Count(b) = m + 1
  BY <1>1, <1>2, <1>8
<1>10. b # <<>> /\ At(b, Len(b) - 1) = 0
  <2>1. b \in Seq(Nat) /\ Len(b) = n + 1 /\ b[n + 1] = 0
    BY LineBytes DEF b, n
  <2>2. Len(b) - 1 + 1 = n + 1
    BY <1>2, <2>1
  <2> QED
    BY <1>2, <2>1, <2>2 DEF At
<1>11. Count(b) # INVALID_SIZE /\ Count(b) - 1 = m
  BY <1>2, <1>9 DEF INVALID_SIZE
<1> QED
  BY <1>10, <1>11 DEF string_from_bytes, StringOf, b

(* Steps forward from a character reach the character so many behind it.   *)
LEMMA ForwardIs ==
    ASSUME NEW line \in Seq(Chars), NEW m, NEW p, Starts(line, m, p),
           NEW a \in 0 .. m, NEW k \in 0 .. m - a
    PROVE  Forward(StringOf(line, m), p[a], k) = p[a + k]
<1> DEFINE s == StringOf(line, m)
           Body(f, i) == IF i = 0 THEN p[a] ELSE string_next_char_start(s, f[i - 1])
           idx == CHOOSE f : f = [i \in 0 .. k |-> Body(f, i)]
           h == [i \in 0 .. k |-> p[a + i]]
<1>1. m \in Nat /\ a \in Nat /\ k \in Nat
  BY StartsGrow
<1>2. ASSUME NEW i \in 1 .. k
      PROVE  string_next_char_start(s, p[a + (i - 1)]) = p[a + i]
  <2> DEFINE j == a + (i - 1)
  <2>1. j \in 0 .. m - 1 /\ j + 1 = a + i /\ j \in 0 .. m
    BY <1>1
  <2>2. p[j] \in 0 .. Len(line) /\ utf8_next(Bytes(line), p[j]) = p[j + 1]
    BY <2>1, StartsGrow
  <2>3. p[j] # INVALID_SIZE
    BY <2>2 DEF INVALID_SIZE
  <2>4. Bytes(line) # <<>>
    BY LineBytes
  <2>5. s.bytes = Bytes(line)
    BY DEF StringOf
  <2> HIDE DEF s, j
  <2>6. string_next_char_start(s, p[j]) = p[a + i]
    BY <2>1, <2>2, <2>3, <2>4, <2>5 DEF string_next_char_start
  <2> QED
    BY <2>6 DEF j
<1>3. Forward(s, p[a], k) = idx[k]
  BY DEF Forward
<1> HIDE DEF s
<1>4. \A i \in 0 .. k : h[i] = Body(h, i)
  <2> SUFFICES ASSUME NEW i \in 0 .. k
               PROVE  h[i] = Body(h, i)
    OBVIOUS
  <2>1. CASE i = 0
    BY <1>1, <2>1
  <2>2. CASE i # 0
    <3>1. i \in 1 .. k /\ i - 1 \in 0 .. k
      BY <1>1, <2>2
    <3>2. h[i] = p[a + i] /\ h[i - 1] = p[a + (i - 1)]
      BY <3>1
    <3> HIDE DEF h
    <3> QED
      BY <1>2, <2>2, <3>1, <3>2
  <2> QED
    BY <2>1, <2>2
<1>5. h = [i \in 0 .. k |-> Body(h, i)]
  <2>1. h = [i \in 0 .. k |-> h[i]]
    OBVIOUS
  <2> HIDE DEF h, Body
  <2> QED
    BY <1>4, <2>1
<1>6. idx = [i \in 0 .. k |-> Body(idx, i)]
  <2> HIDE DEF h, Body
  <2> QED
    BY <1>5
<1>7. \A i \in 0 .. k : idx[i] = Body(idx, i)
  <2> HIDE DEF idx, Body
  <2> QED
    BY <1>6
<1> DEFINE S == {i \in 0 .. k : idx[i] = p[a + i]}
<1> HIDE DEF idx, h
<1>8. 0 \in S
  BY <1>1, <1>7
<1>9. ASSUME NEW i \in 0 .. k - 1, i \in S
      PROVE  i + 1 \in S
  <2>1. i + 1 \in 1 .. k /\ (i + 1) - 1 = i /\ i + 1 # 0 /\ i + 1 \in 0 .. k
    BY <1>1
  <2>2. idx[i + 1] = string_next_char_start(s, idx[i])
    BY <1>7, <2>1
  <2>3. string_next_char_start(s, p[a + i]) = p[a + (i + 1)]
    BY <1>2, <2>1
  <2> QED
    BY <1>9, <2>1, <2>2, <2>3
<1>10. k \in S
  <2> HIDE DEF S
  <2>1. \A i \in 0 .. k : i \in S
    BY <1>1, <1>8, <1>9, Induction
  <2> QED
    BY <1>1, <2>1
<1> QED
  BY <1>3, <1>10 DEF s

(* A slice is the string of that part of the line.                         *)
LEMMA SliceIs ==
    ASSUME NEW line \in Seq(Chars), NEW m, NEW p, Starts(line, m, p),
           NEW start, NEW end, NEW a \in 0 .. m, NEW b \in a .. m,
           start = a \/ (start = INVALID_SIZE /\ a = 0), Capped(end, m) = b
    PROVE  string_substring(StringOf(line, m), start, end)
             = StringOf(Part(line, p, a, b), b - a)
<1> DEFINE s == StringOf(line, m)
<1>1. /\ m \in Nat /\ a \in Nat /\ b \in Nat /\ ~(b < a) /\ p[0] = 0
      /\ 0 \in 0 .. m /\ a \in 0 .. m - 0 /\ b - a \in 0 .. m - a /\ a + (b - a) = b
  BY StartsGrow
<1>2. (IF start = INVALID_SIZE THEN 0 ELSE Capped(start, m)) = a
  BY <1>1 DEF Capped, INVALID_SIZE
<1>3. Forward(s, 0, a) = p[a]
  <2>1. Forward(StringOf(line, m), p[0], a) = p[0 + a]
    BY <1>1, ForwardIs
  <2>2. 0 + a = a
    BY <1>1
  <2> QED
    BY <1>1, <2>1, <2>2
<1>4. Forward(s, p[a], b - a) = p[b]
  BY <1>1, ForwardIs
<1>5. s.bytes = Bytes(line) /\ s.len = m /\ Bytes(line) # <<>> /\ m # INVALID_SIZE
  BY <1>1, LineBytes DEF StringOf, INVALID_SIZE
<1> HIDE DEF s
<1>6. string_substring(s, start, end)
        = string_from_bytes(SubSeq(s.bytes, p[a] + 1, p[b]) \o <<0>>)
  BY <1>1, <1>2, <1>3, <1>4, <1>5 DEF string_substring
<1>7. SubSeq(s.bytes, p[a] + 1, p[b]) \o <<0>> = Bytes(Part(line, p, a, b))
  BY <1>5, PartBytes
<1>8. string_from_bytes(Bytes(Part(line, p, a, b)))
        = StringOf(Part(line, p, a, b), b - a)
  <2>1. Part(line, p, a, b) \in Seq(Chars)
    BY PartIs
  <2>2. \E q : Starts(Part(line, p, a, b), b - a, q)
    BY PartStarts
  <2> QED
    BY <2>1, <2>2, StringIs
<1> QED
  BY <1>6, <1>7, <1>8 DEF s

(* The code point of a character that begins with ch.                      *)
Code(ch) == CASE ch = "lead2" -> 146 [] ch = "lead3" -> 9362
              [] ch = "lead4" -> 74898 [] OTHER -> Byte[ch]

LEMMA EncodedCode ==
    /\ Encoded(146) = <<194, 146>>
    /\ Encoded(9362) = <<226, 146, 146>>
    /\ Encoded(74898) = <<240, 146, 146, 146>>
<1>1. /\ 64^0 = 1 /\ 64^1 = 64 /\ 64^2 = 4096 /\ 64^3 = 262144
      /\ 2^11 = 2048 /\ 2^16 = 65536
  OBVIOUS
<1>2. Encoded(146) = <<194, 146>>
  <2>1. 192 + 146 \div 64 = 194 /\ 128 + ((146 \div 1) % 64) = 146
    OBVIOUS
  <2> QED
    BY <1>1, <2>1 DEF Encoded
<1>3. Encoded(9362) = <<226, 146, 146>>
  <2>1. /\ 224 + 9362 \div 4096 = 226 /\ 128 + ((9362 \div 1) % 64) = 146
        /\ 128 + ((9362 \div 64) % 64) = 146
    OBVIOUS
  <2> QED
    BY <1>1, <2>1 DEF Encoded
<1>4. Encoded(74898) = <<240, 146, 146, 146>>
  <2>1. /\ 240 + 74898 \div 262144 = 240 /\ 128 + ((74898 \div 1) % 64) = 146
        /\ 128 + ((74898 \div 64) % 64) = 146 /\ 128 + ((74898 \div 4096) % 64) = 146
    OBVIOUS
  <2> QED
    BY <1>1, <2>1 DEF Encoded
<1> QED
  BY <1>2, <1>3, <1>4

LEMMA CodeIs ==
    /\ Code("lead2") = 146 /\ Code("lead3") = 9362 /\ Code("lead4") = 74898
    /\ \A ch : ch \notin {"lead2", "lead3", "lead4"} => Code(ch) = Byte[ch]
BY DEF Code

(* The bytes of a character.                                               *)
LEMMA CharBytes ==
    ASSUME NEW line \in Seq(Chars), NEW m, NEW p, Starts(line, m, p),
           NEW k \in 0 .. m - 1
    PROVE  LET b  == Bytes(line)
               ch == line[p[k] + 1]
           IN  /\ p[k] \in 0 .. Len(line) - 1 /\ p[k + 1] \in 1 .. Len(line)
               /\ p[k + 1] - p[k] = 1 + Follow(ch)
               /\ b[p[k] + 1] = Byte[ch]
               /\ \A j \in 1 .. Follow(ch) : b[p[k] + 1 + j] = 146
               /\ \/ ch = "lead2" /\ Byte[ch] = 194 /\ Follow(ch) = 1
                  \/ ch = "lead3" /\ Byte[ch] = 226 /\ Follow(ch) = 2
                  \/ ch = "lead4" /\ Byte[ch] = 240 /\ Follow(ch) = 3
                  \/ /\ ch \notin {"lead2", "lead3", "lead4"}
                     /\ Byte[ch] \in 1 .. 127 /\ Follow(ch) = 0
<1> DEFINE n  == Len(line)
           b  == Bytes(line)
           i  == p[k]
           ch == line[p[k] + 1]
           f  == Follow(ch)
<1>1. /\ m \in Nat /\ n \in Nat /\ i \in 0 .. n - 1 /\ p[k + 1] \in 1 .. n
  <2>1. k \in 0 .. m /\ k + 1 \in 0 .. m /\ m \in Nat
    BY StartsGrow
  <2>2. p[k] \in 0 .. n /\ p[k + 1] \in 0 .. n /\ p[k] < p[k + 1]
    BY <2>1, StartsGrow
  <2> QED
    BY <2>1, <2>2
<1>2. ch # "cont" /\ Followed(line, i) /\ p[k + 1] = i + 1 + f
  BY DEF Starts
<1>3. \A j \in 1 .. n : b[j] = Byte[line[j]] /\ line[j] \in Chars
  BY LineBytes
<1>4. i + 1 \in 1 .. n
  BY <1>1
<1>5. ch \in Chars /\ b[i + 1] = Byte[ch]
  BY <1>3, <1>4
<1>6. \/ ch = "lead2" /\ Byte[ch] = 194 /\ f = 1
      \/ ch = "lead3" /\ Byte[ch] = 226 /\ f = 2
      \/ ch = "lead4" /\ Byte[ch] = 240 /\ f = 3
      \/ ch \notin {"lead2", "lead3", "lead4"} /\ Byte[ch] \in 1 .. 127 /\ f = 0
  BY <1>2, <1>5, ByteFacts
<1>7. ASSUME NEW j \in 1 .. f
      PROVE  b[i + 1 + j] = 146
  <2>1. i + 1 + j <= n /\ line[i + 1 + j] = "cont"
    BY <1>2 DEF Followed
  <2>2. i + 1 + j \in 1 .. n
    BY <1>1, <1>6, <2>1
  <2> QED
    BY <1>3, <2>1, <2>2, ByteFacts
<1>8. p[k + 1] - i = 1 + f
  <2>1. f \in Nat
    BY <1>6
  <2> HIDE DEF i, f
  <2> QED
    BY <1>1, <1>2, <2>1
<1> QED
  BY <1>1, <1>5, <1>6, <1>7, <1>8

LEMMA CharEncoded ==
    ASSUME NEW line \in Seq(Chars), NEW m, NEW p, Starts(line, m, p),
           NEW k \in 0 .. m - 1
    PROVE  SubSeq(Bytes(line), p[k] + 1, p[k + 1]) = Encoded(Code(line[p[k] + 1]))
<1> DEFINE b  == Bytes(line)
           i  == p[k]
           e  == p[k + 1]
           ch == line[p[k] + 1]
<1>1. /\ i \in 0 .. Len(line) - 1 /\ e \in 1 .. Len(line)
      /\ e - i = 1 + Follow(ch) /\ b[i + 1] = Byte[ch]
      /\ \A j \in 1 .. Follow(ch) : b[i + 1 + j] = 146
      /\ \/ ch = "lead2" /\ Byte[ch] = 194 /\ Follow(ch) = 1
         \/ ch = "lead3" /\ Byte[ch] = 226 /\ Follow(ch) = 2
         \/ ch = "lead4" /\ Byte[ch] = 240 /\ Follow(ch) = 3
         \/ /\ ch \notin {"lead2", "lead3", "lead4"}
            /\ Byte[ch] \in 1 .. 127 /\ Follow(ch) = 0
  BY CharBytes
<1> HIDE DEF b, i, e, ch
<1>2. SubSeq(b, i + 1, e) = [j \in 1 .. e - i |-> b[i + j]]
  BY <1>1
<1>3. CASE ch = "lead2"
  <2>1. e - i = 2 /\ b[i + 1] = 194 /\ b[i + 2] = 146
    BY <1>1, <1>3
  <2> DEFINE t == <<194, 146>>
  <2>2. t = [j \in 1 .. 2 |-> t[j]]
    OBVIOUS
  <2>3. \A j \in 1 .. 2 : b[i + j] = t[j]
    BY <2>1
  <2> HIDE DEF t
  <2>4. SubSeq(b, i + 1, e) = t
    <3>1. e - i = 2 /\ \A j \in 1 .. 2 : b[i + j] = t[j]
      BY <2>1, <2>3
    <3>2. [j \in 1 .. e - i |-> b[i + j]] = [j \in 1 .. 2 |-> t[j]]
      BY <3>1
    <3> QED
      BY <1>2, <2>2, <3>2
  <2>5. Encoded(Code(ch)) = t
    BY <1>3, CodeIs, EncodedCode DEF t
  <2> QED
    BY <2>4, <2>5 DEF b, i, e, ch
<1>4. CASE ch = "lead3"
  <2>1. e - i = 3 /\ b[i + 1] = 226 /\ b[i + 2] = 146 /\ b[i + 3] = 146
    BY <1>1, <1>4
  <2> DEFINE t == <<226, 146, 146>>
  <2>2. t = [j \in 1 .. 3 |-> t[j]]
    OBVIOUS
  <2>3. \A j \in 1 .. 3 : b[i + j] = t[j]
    BY <2>1
  <2> HIDE DEF t
  <2>4. SubSeq(b, i + 1, e) = t
    <3>1. e - i = 3 /\ \A j \in 1 .. 3 : b[i + j] = t[j]
      BY <2>1, <2>3
    <3>2. [j \in 1 .. e - i |-> b[i + j]] = [j \in 1 .. 3 |-> t[j]]
      BY <3>1
    <3> QED
      BY <1>2, <2>2, <3>2
  <2>5. Encoded(Code(ch)) = t
    BY <1>4, CodeIs, EncodedCode DEF t
  <2> QED
    BY <2>4, <2>5 DEF b, i, e, ch
<1>5. CASE ch = "lead4"
  <2>1. e - i = 4 /\ b[i + 1] = 240 /\ b[i + 2] = 146 /\ b[i + 3] = 146
        /\ b[i + 4] = 146
    BY <1>1, <1>5
  <2> DEFINE t == <<240, 146, 146, 146>>
  <2>2. t = [j \in 1 .. 4 |-> t[j]]
    OBVIOUS
  <2>3. \A j \in 1 .. 4 : b[i + j] = t[j]
    BY <2>1
  <2> HIDE DEF t
  <2>4. SubSeq(b, i + 1, e) = t
    <3>1. e - i = 4 /\ \A j \in 1 .. 4 : b[i + j] = t[j]
      BY <2>1, <2>3
    <3>2. [j \in 1 .. e - i |-> b[i + j]] = [j \in 1 .. 4 |-> t[j]]
      BY <3>1
    <3> QED
      BY <1>2, <2>2, <3>2
  <2>5. Encoded(Code(ch)) = t
    BY <1>5, CodeIs, EncodedCode DEF t
  <2> QED
    BY <2>4, <2>5 DEF b, i, e, ch
<1>6. CASE ch \notin {"lead2", "lead3", "lead4"}
  <2>1. e - i = 1 /\ b[i + 1] = Byte[ch] /\ Byte[ch] \in 0 .. 127
    BY <1>1, <1>6
  <2> DEFINE t == <<Byte[ch]>>
  <2>2. t = [j \in 1 .. 1 |-> t[j]]
    OBVIOUS
  <2>3. \A j \in 1 .. 1 : b[i + j] = t[j]
    BY <2>1
  <2>4. Encoded(Byte[ch]) = t
    <3> DEFINE c == Byte[ch]
    <3> HIDE DEF c
    <3>1. c \in 0 .. 127
      BY <2>1 DEF c
    <3>2. c < 128
      BY <3>1
    <3>3. Encoded(c) = <<c>>
      BY <3>2 DEF Encoded
    <3> QED
      BY <3>3 DEF c
  <2>5. Code(ch) = Byte[ch]
    BY <1>6, CodeIs
  <2> HIDE DEF t
  <2>6. SubSeq(b, i + 1, e) = t
    <3>1. e - i = 1 /\ \A j \in 1 .. 1 : b[i + j] = t[j]
      BY <2>1, <2>3
    <3>2. [j \in 1 .. e - i |-> b[i + j]] = [j \in 1 .. 1 |-> t[j]]
      BY <3>1
    <3> QED
      BY <1>2, <2>2, <3>2
  <2> QED
    BY <2>4, <2>5, <2>6 DEF b, i, e, ch
<1> QED
  BY <1>3, <1>4, <1>5, <1>6

LEMMA OrdIs ==
    ASSUME NEW line \in Seq(Chars), NEW m, NEW p, Starts(line, m, p),
           NEW k \in 0 .. m - 1
    PROVE  string_ord(StringOf(line, m), p[k], p[k + 1]) = Code(line[p[k] + 1])
<1> DEFINE b  == Bytes(line)
           s  == StringOf(line, m)
           i  == p[k]
           e  == p[k + 1]
           ch == line[p[k] + 1]
           cont(j) == At(b, i + j) % 64
<1>1. /\ i \in 0 .. Len(line) - 1 /\ e \in 1 .. Len(line)
      /\ e - i = 1 + Follow(ch) /\ b[i + 1] = Byte[ch]
      /\ \A j \in 1 .. Follow(ch) : b[i + 1 + j] = 146
      /\ \/ ch = "lead2" /\ Byte[ch] = 194 /\ Follow(ch) = 1
         \/ ch = "lead3" /\ Byte[ch] = 226 /\ Follow(ch) = 2
         \/ ch = "lead4" /\ Byte[ch] = 240 /\ Follow(ch) = 3
         \/ /\ ch \notin {"lead2", "lead3", "lead4"}
            /\ Byte[ch] \in 1 .. 127 /\ Follow(ch) = 0
  BY CharBytes
<1>2. s.bytes = b /\ b # <<>> /\ Len(b) = Len(line) + 1
  BY LineBytes DEF StringOf
<1> HIDE DEF b, s, i, e, ch
<1>3. /\ At(b, i) = Byte[ch] /\ ~(i >= e) /\ ~(i >= Len(b))
      /\ \A j \in 1 .. Follow(ch) : At(b, i + j) = 146
  <2>1. \A j \in 1 .. 3 : i + j + 1 = i + 1 + j
    BY <1>1
  <2> QED
    BY <1>1, <1>2, <2>1 DEF At
<1>4. 2^6 = 64 /\ 2^12 = 4096 /\ 2^18 = 262144
  OBVIOUS
<1> DEFINE c == Byte[ch]
           w == e - i
<1>5. string_ord(s, i, e) =
        IF c < 128 THEN c
        ELSE IF c \div 32 = 6 /\ w >= 2 THEN (c % 32) * 64 + cont(1)
        ELSE IF c \div 16 = 14 /\ w >= 3
             THEN (c % 16) * 4096 + cont(1) * 64 + cont(2)
        ELSE IF c \div 8 = 30 /\ w >= 4
             THEN (c % 8) * 262144 + cont(1) * 4096 + cont(2) * 64 + cont(3)
        ELSE INVALID_SIZE
  BY <1>2, <1>3, <1>4 DEF string_ord
<1> HIDE DEF c, w, cont
<1>6. CASE ch = "lead2"
  <2>1. c = 194 /\ w = 2 /\ cont(1) = 146 % 64
    BY <1>1, <1>3, <1>6 DEF c, w, cont
  <2>2. (194 % 32) * 64 + (146 % 64) = 146 /\ 194 \div 32 = 6
    OBVIOUS
  <2>3. string_ord(s, i, e) = 146
    BY <1>5, <2>1, <2>2
  <2> QED
    BY <1>6, <2>3, CodeIs DEF s, i, e, ch
<1>7. CASE ch = "lead3"
  <2>1. c = 226 /\ w = 3 /\ cont(1) = 146 % 64 /\ cont(2) = 146 % 64
    BY <1>1, <1>3, <1>7 DEF c, w, cont
  <2>2. /\ (226 % 16) * 4096 + (146 % 64) * 64 + (146 % 64) = 9362
        /\ 226 \div 32 # 6 /\ 226 \div 16 = 14
    OBVIOUS
  <2>3. string_ord(s, i, e) = 9362
    BY <1>5, <2>1, <2>2
  <2> QED
    BY <1>7, <2>3, CodeIs DEF s, i, e, ch
<1>8. CASE ch = "lead4"
  <2>1. c = 240 /\ w = 4 /\ cont(1) = 146 % 64 /\ cont(2) = 146 % 64
        /\ cont(3) = 146 % 64
    BY <1>1, <1>3, <1>8 DEF c, w, cont
  <2>2. /\ (240 % 8) * 262144 + (146 % 64) * 4096 + (146 % 64) * 64 + (146 % 64) = 74898
        /\ 240 \div 32 # 6 /\ 240 \div 16 # 14 /\ 240 \div 8 = 30
    OBVIOUS
  <2>3. string_ord(s, i, e) = 74898
    BY <1>5, <2>1, <2>2
  <2> QED
    BY <1>8, <2>3, CodeIs DEF s, i, e, ch
<1>9. CASE ch \notin {"lead2", "lead3", "lead4"}
  <2>1. c \in 1 .. 127
    BY <1>1, <1>9 DEF c
  <2>2. string_ord(s, i, e) = c
    BY <1>5, <2>1
  <2> QED
    BY <1>9, <2>2, CodeIs DEF c, s, i, e, ch
<1> QED
  BY <1>6, <1>7, <1>8, <1>9

(* The recursion of ITERATE_OVER_STRING, on indices and code points, is    *)
(* defined.                                                                *)
Iterated(g, nx, od, N, i) ==
    IF i = N THEN <<>>
    ELSE IF nx[i] = N \/ nx[i] = INVALID_SIZE THEN <<>> ELSE <<od[i]>> \o g[nx[i]]

LEMMA IterateExists ==
    ASSUME NEW N \in Nat, NEW nx,
           \A i \in 0 .. N - 1 : nx[i] = INVALID_SIZE \/ nx[i] \in i + 1 .. N
    PROVE  \A od : \E g : g = [i \in 0 .. N |-> Iterated(g, nx, od, N, i)]
<1> TAKE od
<1> DEFINE Upto(k, g) == g = [i \in N - k .. N |-> Iterated(g, nx, od, N, i)]
           S == {k \in 0 .. N : \E g : Upto(k, g)}
<1>1. 0 \in S
  <2> DEFINE g == [i \in N .. N |-> <<>>]
  <2>1. g = [i \in N - 0 .. N |-> Iterated(g, nx, od, N, i)]
    <3>1. \A i \in N .. N : Iterated(g, nx, od, N, i) = <<>>
      BY DEF Iterated
    <3>2. N - 0 = N
      OBVIOUS
    <3> QED
      BY <3>1, <3>2, Zenon
  <2> HIDE DEF g
  <2> QED
    BY <2>1
<1>2. ASSUME NEW k \in 0 .. N - 1, k \in S
      PROVE  k + 1 \in S
  <2> PICK g : Upto(k, g)
    BY <1>2
  <2> DEFINE m == N - (k + 1)
             h == [i \in m .. N |-> IF i = m THEN Iterated(g, nx, od, N, i) ELSE g[i]]
  <2>1. /\ DOMAIN g = m + 1 .. N
        /\ \A i \in m + 1 .. N : g[i] = Iterated(g, nx, od, N, i)
    <3>1. N - k = m + 1
      OBVIOUS
    <3> QED
      BY <3>1, Zenon
  <2>2. ASSUME NEW i \in m .. N
        PROVE  Iterated(h, nx, od, N, i) = Iterated(g, nx, od, N, i)
    <3>1. CASE i = N
      BY <3>1 DEF Iterated
    <3>2. CASE i # N /\ nx[i] = INVALID_SIZE
      BY <3>2 DEF Iterated
    <3>3. CASE i # N /\ nx[i] # INVALID_SIZE
      <4>1. nx[i] \in m + 1 .. N /\ nx[i] # m
        BY <3>3
      <4>2. h[nx[i]] = g[nx[i]]
        BY <4>1
      <4> HIDE DEF h, m
      <4> QED
        BY <3>3, <4>2 DEF Iterated
    <3> QED
      BY <3>1, <3>2, <3>3
  <2>3. \A i \in m .. N : h[i] = Iterated(h, nx, od, N, i)
    <3> SUFFICES ASSUME NEW i \in m .. N
                 PROVE  h[i] = Iterated(g, nx, od, N, i)
      BY <2>2
    <3>1. CASE i = m
      BY <3>1
    <3>2. CASE i # m
      <4>1. i \in m + 1 .. N
        BY <3>2
      <4> QED
        BY <2>1, <4>1
    <3> QED
      BY <3>1, <3>2
  <2>4. h = [i \in m .. N |-> h[i]]
    OBVIOUS
  <2>5. h = [i \in m .. N |-> Iterated(h, nx, od, N, i)]
    <3> HIDE DEF h
    <3> QED
      BY <2>3, <2>4
  <2>6. k + 1 \in 0 .. N
    OBVIOUS
  <2> HIDE DEF h
  <2> QED
    BY <2>5, <2>6
<1>3. \A k \in 0 .. N : k \in S
  <2> HIDE DEF S
  <2> QED
    BY <1>1, <1>2, Induction
<1>4. PICK g : Upto(N, g)
  BY <1>3
<1>5. N - N = 0
  OBVIOUS
<1> QED
  BY <1>4, <1>5

LEMMA IterateDefined ==
    ASSUME NEW line \in Seq(Chars), NEW m
    PROVE  LET N  == Len(line) + 1
               nx == [i \in 0 .. Len(line) |-> utf8_next(Bytes(line), i)]
               od == [i \in 0 .. Len(line) |->
                        string_ord(StringOf(line, m), i, utf8_next(Bytes(line), i))]
           IN  \E g : /\ ITERATE_OVER_STRING(StringOf(line, m)) = g[0]
                      /\ \A i \in 0 .. N : g[i] = Iterated(g, nx, od, N, i)
<1> DEFINE n == Len(line)
           N == n + 1
           b == Bytes(line)
           s == StringOf(line, m)
           nx == [i \in 0 .. n |-> utf8_next(b, i)]
           od == [i \in 0 .. n |-> string_ord(s, i, utf8_next(b, i))]
           Body(g, i) == IF i >= Len(s.bytes) THEN <<>>
                         ELSE LET end == string_next_char_start(s, i)
                              IN  IF end = Len(s.bytes) \/ end = INVALID_SIZE THEN <<>>
                                  ELSE <<string_ord(s, i, end)>> \o g[end]
           from == CHOOSE g : g = [i \in 0 .. Len(s.bytes) |-> Body(g, i)]
<1>1. n \in Nat /\ Len(b) = N /\ N \in Nat /\ N - 1 = n /\ b # <<>> /\ s.bytes = b
  BY LineBytes DEF StringOf
<1>2. \A i \in 0 .. N - 1 : nx[i] = INVALID_SIZE \/ nx[i] \in i + 1 .. N
  <2>1. \A i \in 0 .. n : nx[i] = utf8_next(b, i)
    OBVIOUS
  <2>2. \A i \in 0 .. n : utf8_next(b, i) = INVALID_SIZE
                            \/ utf8_next(b, i) \in i + 1 .. n + 1
    BY NextRange
  <2> HIDE DEF nx, n
  <2> QED
    BY <1>1, <2>1, <2>2
<1>3. ITERATE_OVER_STRING(s) = from[0]
  BY DEF ITERATE_OVER_STRING
<1>4. ASSUME NEW g, NEW i \in 0 .. N
      PROVE  Body(g, i) = Iterated(g, nx, od, N, i)
  <2>1. CASE i = N
    <3>1. i >= Len(s.bytes)
      BY <1>1, <2>1
    <3> HIDE DEF s, nx, od, N
    <3> QED
      BY <2>1, <3>1 DEF Iterated
  <2>2. CASE i # N
    <3>1. i \in 0 .. n /\ ~(i >= Len(s.bytes)) /\ i # INVALID_SIZE
      BY <1>1, <2>2 DEF INVALID_SIZE
    <3>2. nx[i] = utf8_next(b, i) /\ od[i] = string_ord(s, i, utf8_next(b, i))
      BY <3>1
    <3> HIDE DEF s, nx, od, N, n, b
    <3>3. string_next_char_start(s, i) = utf8_next(b, i)
      BY <1>1, <3>1 DEF string_next_char_start
    <3> QED
      BY <1>1, <2>2, <3>1, <3>2, <3>3 DEF Iterated
  <2> QED
    BY <2>1, <2>2
<1>5. \E g : g = [i \in 0 .. N |-> Iterated(g, nx, od, N, i)]
  <2> HIDE DEF nx, od, N
  <2> QED
    <3>1. N \in Nat
      BY <1>1
    <3>2. \A o : \E g : g = [i \in 0 .. N |-> Iterated(g, nx, o, N, i)]
      BY <1>2, <3>1, IterateExists
    <3> QED
      BY <3>2
<1>6. \E g : g = [i \in 0 .. Len(s.bytes) |-> Body(g, i)]
  <2> HIDE DEF Body, nx, od, b, s, N
  <2> QED
    BY <1>1, <1>4, <1>5
<1>7. from = [i \in 0 .. Len(s.bytes) |-> Body(from, i)]
  <2> HIDE DEF Body
  <2> QED
    BY <1>6
<1>8. \A i \in 0 .. N : from[i] = Iterated(from, nx, od, N, i)
  <2> HIDE DEF Body, nx, od, b, s, N, from
  <2> QED
    BY <1>1, <1>4, <1>7
<1> HIDE DEF from
<1> QED
  BY <1>3, <1>8

(* The code points of a line.                                              *)
Codes(line, m, p) == [k \in 1 .. m |-> Code(line[p[k - 1] + 1])]

LEMMA IterateIs ==
    ASSUME NEW line \in Seq(Chars), NEW m, NEW p, Starts(line, m, p)
    PROVE  ITERATE_OVER_STRING(StringOf(line, m)) = Codes(line, m, p)
<1> DEFINE n == Len(line)
           N == n + 1
           nx == [i \in 0 .. Len(line) |-> utf8_next(Bytes(line), i)]
           od == [i \in 0 .. Len(line) |->
                    string_ord(StringOf(line, m), i, utf8_next(Bytes(line), i))]
           code(k) == Code(line[p[k - 1] + 1])
<1>1. PICK g : /\ ITERATE_OVER_STRING(StringOf(line, m)) = g[0]
               /\ \A i \in 0 .. N : g[i] = Iterated(g, nx, od, N, i)
  BY IterateDefined
<1>2. n \in Nat /\ m \in Nat /\ p[0] = 0 /\ p[m] = n /\ N = n + 1
  BY StartsGrow
<1>3. nx[n] = N
  BY <1>2, NextChar
<1>4. ASSUME NEW k \in 0 .. m - 1
      PROVE  /\ p[k] \in 0 .. n /\ p[k + 1] \in 0 .. n /\ nx[p[k]] = p[k + 1]
             /\ od[p[k]] = code(k + 1)
  <2>1. k \in 0 .. m /\ k + 1 \in 0 .. m /\ (k + 1) - 1 = k
    BY <1>2
  <2>2. p[k] \in 0 .. n /\ p[k + 1] \in 0 .. n
    BY <2>1, StartsGrow
  <2>3. utf8_next(Bytes(line), p[k]) = p[k + 1]
    BY StartsGrow
  <2>4. string_ord(StringOf(line, m), p[k], p[k + 1]) = code(k + 1)
    BY <2>1, OrdIs
  <2>5. nx[p[k]] = p[k + 1]
        /\ od[p[k]] = string_ord(StringOf(line, m), p[k], p[k + 1])
    BY <2>2, <2>3
  <2> QED
    BY <2>2, <2>4, <2>5
<1> HIDE DEF nx, od, n, N, code
<1>5. g[n] = <<>>
  <2>1. g[n] = Iterated(g, nx, od, N, n) /\ n # N
    BY <1>1, <1>2
  <2> QED
    BY <1>3, <2>1 DEF Iterated
<1> DEFINE last(j) == [k \in 1 .. j |-> code((m - j) + k)]
           S == {j \in 0 .. m : g[p[m - j]] = last(j)}
<1>6. 0 \in S
  <2>1. last(0) = <<>> /\ m - 0 = m
    BY <1>2
  <2> HIDE DEF last
  <2> QED
    BY <1>2, <1>5, <2>1
<1>7. ASSUME NEW j \in 0 .. m - 1, j \in S
      PROVE  j + 1 \in S
  <2> DEFINE k == m - (j + 1)
  <2>1. /\ k \in 0 .. m - 1 /\ k + 1 = m - j /\ j + 1 \in 0 .. m
    BY <1>2
  <2>2. /\ g[p[k + 1]] = last(j) /\ p[k] \in 0 .. n /\ p[k + 1] \in 0 .. n
        /\ nx[p[k]] = p[k + 1] /\ od[p[k]] = code(k + 1)
    BY <1>4, <1>7, <2>1
  <2>3. <<code(k + 1)>> \o last(j) = last(j + 1)
    <3> DEFINE a == <<code(k + 1)>> \o last(j)
               c == last(j + 1)
    <3>1. last(j) = [i \in 1 .. j |-> code((k + 1) + i)]
      BY <2>1
    <3>2. c = [i \in 1 .. j + 1 |-> code(k + i)]
      OBVIOUS
    <3> HIDE DEF last, k, c
    <3>3. a = [i \in 1 .. j + 1 |->
                 IF i = 1 THEN code(k + 1) ELSE code((k + 1) + (i - 1))]
      BY <3>1
    <3>4. \A i \in 1 .. j + 1 : (k + 1) + (i - 1) = k + i
      BY <2>1
    <3> HIDE DEF a
    <3>5. a = c
      BY <3>2, <3>3, <3>4
    <3> QED
      BY <3>5 DEF a, c
  <2> HIDE DEF k, last
  <2>4. /\ p[k] # N /\ p[k] \in 0 .. N
        /\ p[k + 1] # INVALID_SIZE /\ p[k + 1] # N
    BY <1>2, <2>2 DEF INVALID_SIZE
  <2>5. g[p[k]] = Iterated(g, nx, od, N, p[k])
    BY <1>1, <2>4
  <2>6. Iterated(g, nx, od, N, p[k]) = <<code(k + 1)>> \o last(j)
    BY <2>2, <2>4 DEF Iterated
  <2>7. g[p[k]] = last(j + 1)
    BY <2>3, <2>5, <2>6
  <2> QED
    BY <2>1, <2>7 DEF k
<1>8. m \in S
  <2> HIDE DEF S
  <2>1. \A j \in 0 .. m : j \in S
    BY <1>2, <1>6, <1>7, Induction
  <2> QED
    BY <1>2, <2>1
<1>9. m - m = 0 /\ \A k \in 1 .. m : 0 + k = k
  BY <1>2
<1>10. last(m) = Codes(line, m, p)
  BY <1>9 DEF Codes, code
<1> HIDE DEF last
<1> QED
  BY <1>1, <1>2, <1>8, <1>9, <1>10

LEMMA EncodingIs ==
    ASSUME NEW line \in Seq(Chars), NEW m, NEW p, Starts(line, m, p)
    PROVE  Encoding(Codes(line, m, p)) = Bytes(line)
<1> DEFINE n == Len(line)
           b == Bytes(line)
           cps == Codes(line, m, p)
           Body(g, k) == IF k = 0 THEN <<>> ELSE g[k - 1] \o Encoded(cps[k])
           upto == CHOOSE g : g = [k \in 0 .. Len(cps) |-> Body(g, k)]
           h == [k \in 0 .. m |-> SubSeq(b, 1, p[k])]
<1>1. n \in Nat /\ m \in Nat /\ p[0] = 0 /\ p[m] = n
  BY StartsGrow
<1>2. Len(cps) = m /\ \A k \in 1 .. m : cps[k] = Code(line[p[k - 1] + 1])
  BY <1>1 DEF Codes
<1>3. b \in Seq(Nat) /\ Len(b) = n + 1
  BY LineBytes
<1>4. Encoding(cps) = upto[Len(cps)] \o <<0>>
  BY DEF Encoding
<1> HIDE DEF cps, b, n
<1>5. ASSUME NEW k \in 1 .. m
      PROVE  SubSeq(b, 1, p[k]) = SubSeq(b, 1, p[k - 1]) \o Encoded(cps[k])
  <2> DEFINE x == p[k - 1]
             y == p[k]
  <2>1. k - 1 \in 0 .. m - 1 /\ k - 1 \in 0 .. m /\ k \in 0 .. m /\ (k - 1) + 1 = k
    BY <1>1
  <2>2. x \in 0 .. n /\ y \in 0 .. n /\ x < y
    BY <2>1, StartsGrow DEF n
  <2>3. SubSeq(b, x + 1, y) = Encoded(cps[k])
    BY <1>2, <2>1, CharEncoded DEF b
  <2> HIDE DEF x, y
  <2>4. SubSeq(b, 1, y) = SubSeq(b, 1, x) \o SubSeq(b, x + 1, y)
    <3>1. SubSeq(b, 1, x) = [j \in 1 .. x |-> b[j]]
      BY <1>3, <2>2
    <3>2. SubSeq(b, x + 1, y) = [j \in 1 .. y - x |-> b[x + j]]
      BY <1>3, <2>2
    <3>3. SubSeq(b, 1, y) = [j \in 1 .. y |-> b[j]]
      BY <1>3, <2>2
    <3>4. SubSeq(b, 1, x) \o SubSeq(b, x + 1, y)
            = [j \in 1 .. x + (y - x) |-> IF j <= x THEN b[j] ELSE b[x + (j - x)]]
      BY <2>2, <3>1, <3>2
    <3>5. x + (y - x) = y /\ \A j \in 1 .. y : x + (j - x) = j
      BY <2>2
    <3> QED
      BY <3>3, <3>4, <3>5
  <2> QED
    BY <2>3, <2>4 DEF x, y
<1>6. \A k \in 0 .. m : h[k] = Body(h, k)
  <2> SUFFICES ASSUME NEW k \in 0 .. m
               PROVE  h[k] = Body(h, k)
    OBVIOUS
  <2>1. CASE k = 0
    <3>1. h[k] = SubSeq(b, 1, 0)
      BY <1>1, <2>1
    <3>2. SubSeq(b, 1, 0) = <<>>
      BY <1>3
    <3> HIDE DEF h
    <3> QED
      BY <2>1, <3>1, <3>2
  <2>2. CASE k # 0
    <3>1. k \in 1 .. m /\ k - 1 \in 0 .. m
      BY <1>1, <2>2
    <3>2. h[k] = SubSeq(b, 1, p[k]) /\ h[k - 1] = SubSeq(b, 1, p[k - 1])
      BY <3>1
    <3> HIDE DEF h
    <3> QED
      BY <1>5, <2>2, <3>1, <3>2
  <2> QED
    BY <2>1, <2>2
<1>7. h = [k \in 0 .. Len(cps) |-> Body(h, k)]
  <2>1. h = [k \in 0 .. m |-> h[k]]
    OBVIOUS
  <2> HIDE DEF h, Body
  <2> QED
    BY <1>2, <1>6, <2>1
<1>8. upto = [k \in 0 .. Len(cps) |-> Body(upto, k)]
  <2> HIDE DEF h, Body
  <2> QED
    BY <1>7
<1>9. \A k \in 0 .. m : upto[k] = Body(upto, k)
  <2> HIDE DEF upto, Body
  <2> QED
    BY <1>2, <1>8
<1> DEFINE S == {k \in 0 .. m : upto[k] = SubSeq(b, 1, p[k])}
<1> HIDE DEF upto, h
<1>10. 0 \in S
  <2>1. upto[0] = <<>>
    BY <1>1, <1>9
  <2>2. SubSeq(b, 1, p[0]) = <<>>
    BY <1>1, <1>3
  <2>3. 0 \in 0 .. m
    BY <1>1
  <2> QED
    BY <2>1, <2>2, <2>3
<1>11. ASSUME NEW k \in 0 .. m - 1, k \in S
       PROVE  k + 1 \in S
  <2>1. k + 1 \in 1 .. m /\ (k + 1) - 1 = k /\ k + 1 # 0 /\ k + 1 \in 0 .. m
    BY <1>1
  <2>2. upto[k + 1] = upto[k] \o Encoded(cps[k + 1])
    BY <1>9, <2>1
  <2>3. SubSeq(b, 1, p[k + 1]) = SubSeq(b, 1, p[k]) \o Encoded(cps[k + 1])
    BY <1>5, <2>1
  <2> QED
    BY <1>11, <2>1, <2>2, <2>3
<1>12. upto[m] = SubSeq(b, 1, n)
  <2> HIDE DEF S
  <2>1. \A k \in 0 .. m : k \in S
    BY <1>1, <1>10, <1>11, Induction
  <2> QED
    BY <1>1, <2>1 DEF S
<1>13. SubSeq(b, 1, n) \o <<0>> = b
  <2>1. SubSeq(b, p[0] + 1, p[m]) \o <<0>> = Bytes(Part(line, p, 0, m))
    <3> DEFINE first == 0
               final == m
    <3>1. first \in 0 .. m /\ final \in first .. m
      BY <1>1
    <3> HIDE DEF first, final
    <3>2. SubSeq(Bytes(line), p[first] + 1, p[final]) \o <<0>>
            = Bytes(Part(line, p, first, final))
      BY <3>1, PartBytes
    <3> QED
      BY <3>2 DEF first, final, b
  <2>2. Part(line, p, 0, m) = line
    BY <1>1 DEF Part, n
  <2>3. p[0] + 1 = 1
    BY <1>1
  <2> QED
    BY <1>1, <2>1, <2>2, <2>3 DEF b
<1> QED
  BY <1>2, <1>4, <1>12, <1>13 DEF cps, b

(* Two adjoining parts are the whole.                                      *)
LEMMA PartsJoin ==
    ASSUME NEW line \in Seq(Chars), NEW m, NEW p, Starts(line, m, p),
           NEW a \in 0 .. m
    PROVE  string_concat(StringOf(Part(line, p, 0, a), a - 0),
                         StringOf(Part(line, p, a, m), m - a)) = StringOf(line, m)
<1> DEFINE n == Len(line)
           x == p[a]
           s == Part(line, p, 0, a)
           t == Part(line, p, a, m)
           b == Bytes(line)
           c == Bytes(s)
           d == Bytes(t)
<1>1. /\ n \in Nat /\ m \in Nat /\ a \in Nat /\ p[0] = 0 /\ p[m] = n
      /\ x \in 0 .. n /\ 0 \in 0 .. m /\ a \in 0 .. m /\ m \in a .. m
  BY StartsGrow
<1>2. /\ s \in Seq(Chars) /\ Len(s) = x /\ \A k \in 1 .. x : s[k] = line[k]
  <2>1. /\ s \in Seq(Chars) /\ Len(s) = p[a] - p[0]
        /\ \A k \in 1 .. p[a] - p[0] : s[k] = line[p[0] + k]
    <3> DEFINE first == 0
    <3>1. first \in 0 .. m /\ a \in first .. m
      BY <1>1
    <3> HIDE DEF first
    <3>2. /\ Part(line, p, first, a) \in Seq(Chars)
          /\ Len(Part(line, p, first, a)) = p[a] - p[first]
          /\ \A k \in 1 .. p[a] - p[first] :
                Part(line, p, first, a)[k] = line[p[first] + k]
      BY <3>1, PartIs
    <3> QED
      BY <3>2 DEF first
  <2>2. x - 0 = x /\ \A k \in 1 .. x : 0 + k = k
    BY <1>1
  <2> HIDE DEF s
  <2> QED
    BY <1>1, <2>1, <2>2
<1>3. /\ t \in Seq(Chars) /\ Len(t) = n - x /\ \A k \in 1 .. n - x : t[k] = line[x + k]
  <2>1. /\ t \in Seq(Chars) /\ Len(t) = p[m] - p[a]
        /\ \A k \in 1 .. p[m] - p[a] : t[k] = line[p[a] + k]
    <3> DEFINE final == m
    <3>1. final \in a .. m
      BY <1>1
    <3> HIDE DEF final
    <3>2. /\ Part(line, p, a, final) \in Seq(Chars)
          /\ Len(Part(line, p, a, final)) = p[final] - p[a]
          /\ \A k \in 1 .. p[final] - p[a] :
                Part(line, p, a, final)[k] = line[p[a] + k]
      BY <3>1, PartIs
    <3> QED
      BY <3>2 DEF final
  <2> HIDE DEF t
  <2> QED
    BY <1>1, <2>1
<1>4. /\ b \in Seq(Nat) /\ Len(b) = n + 1 /\ b[n + 1] = 0
      /\ \A k \in 1 .. n : b[k] = Byte[line[k]]
  BY LineBytes
<1> HIDE DEF s, t, n, x, b
<1>5. /\ c \in Seq(Nat) /\ Len(c) = x + 1 /\ c # <<>>
      /\ \A k \in 1 .. x : c[k] = Byte[line[k]]
  <2>1. /\ c \in Seq(Nat) /\ Len(c) = Len(s) + 1
        /\ \A k \in 1 .. Len(s) : c[k] = Byte[s[k]]
    BY <1>2, LineBytes
  <2> HIDE DEF c
  <2> QED
    BY <1>1, <1>2, <2>1
<1>6. /\ d \in Seq(Nat) /\ Len(d) = n - x + 1 /\ d[n - x + 1] = 0 /\ d # <<>>
      /\ \A k \in 1 .. n - x : d[k] = Byte[line[x + k]]
  <2>1. /\ d \in Seq(Nat) /\ Len(d) = Len(t) + 1 /\ d[Len(t) + 1] = 0
        /\ \A k \in 1 .. Len(t) : d[k] = Byte[t[k]]
    BY <1>3, LineBytes
  <2> HIDE DEF d
  <2>2. \A k \in 1 .. n - x : d[k] = Byte[line[x + k]]
    BY <1>3, <2>1
  <2>3. Len(t) + 1 = n - x + 1 /\ d # <<>>
    BY <1>1, <1>3, <2>1
  <2> QED
    BY <2>1, <2>2, <2>3
<1> HIDE DEF c, d
<1> DEFINE e == SubSeq(c, 1, Len(c) - 1) \o d
<1>7. e = b
  <2>1. Len(c) - 1 = x
    BY <1>1, <1>5
  <2>2. SubSeq(c, 1, x) = [k \in 1 .. x |-> c[k]]
    BY <1>1, <1>5
  <2>3. e = [k \in 1 .. x + (n - x + 1) |-> IF k <= x THEN c[k] ELSE d[k - x]]
    <3> DEFINE r == SubSeq(c, 1, x)
               w == n - x + 1
    <3>1. r \in Seq(Nat) /\ Len(r) = x /\ \A k \in 1 .. x : r[k] = c[k]
      BY <1>1, <1>5, <2>2
    <3>2. d \in Seq(Nat) /\ Len(d) = w /\ w \in Nat
      BY <1>1, <1>6
    <3> HIDE DEF r, w
    <3>3. r \o d = [k \in 1 .. x + w |-> IF k <= x THEN r[k] ELSE d[k - x]]
      <4> DEFINE u == r \o d
      <4>1. /\ u \in Seq(Nat) /\ Len(u) = Len(r) + Len(d)
            /\ \A k \in 1 .. Len(r) + Len(d) :
                  u[k] = IF k <= Len(r) THEN r[k] ELSE d[k - Len(r)]
        BY <3>1, <3>2, ConcatProperties
      <4> HIDE DEF u
      <4>2. u = [k \in 1 .. Len(u) |-> u[k]]
        BY <4>1
      <4>3. u = [k \in 1 .. x + w |-> IF k <= x THEN r[k] ELSE d[k - x]]
        BY <3>1, <3>2, <4>1, <4>2
      <4> QED
        BY <4>3 DEF u
    <3>4. \A k \in 1 .. x + w : k <= x => k \in 1 .. x
      BY <1>1, <3>2
    <3>5. r \o d = [k \in 1 .. x + w |-> IF k <= x THEN c[k] ELSE d[k - x]]
      BY <3>1, <3>3, <3>4
    <3> QED
      BY <2>1, <3>5 DEF r, w
  <2>4. x + (n - x + 1) = n + 1
    BY <1>1
  <2>5. b = [k \in 1 .. n + 1 |-> b[k]]
    BY <1>4
  <2>6. ASSUME NEW k \in 1 .. n + 1
        PROVE  b[k] = IF k <= x THEN c[k] ELSE d[k - x]
    <3>1. CASE k <= x
      <4>1. k \in 1 .. x /\ k \in 1 .. n
        BY <1>1, <3>1
      <4> QED
        BY <1>4, <1>5, <3>1, <4>1
    <3>2. CASE ~(k <= x) /\ k <= n
      <4>1. k - x \in 1 .. n - x /\ x + (k - x) = k /\ k \in 1 .. n
        BY <1>1, <3>2
      <4>2. d[k - x] = Byte[line[x + (k - x)]]
        BY <1>6, <4>1
      <4> QED
        BY <1>4, <3>2, <4>1, <4>2
    <3>3. CASE k = n + 1
      <4>1. k - x = n - x + 1 /\ ~(k <= x)
        BY <1>1, <3>3
      <4> QED
        BY <1>4, <1>6, <3>3, <4>1
    <3> QED
      BY <1>1, <3>1, <3>2, <3>3
  <2> HIDE DEF e
  <2> QED
    BY <2>3, <2>4, <2>5, <2>6
<1> HIDE DEF e
<1>8. /\ a - 0 # INVALID_SIZE /\ m - a # INVALID_SIZE /\ (a - 0) + (m - a) = m
  BY <1>1 DEF INVALID_SIZE
<1>9. string_concat(StringOf(s, a - 0), StringOf(t, m - a))
        = [len |-> (a - 0) + (m - a), bytes |-> e]
  BY <1>5, <1>6, <1>8 DEF string_concat, StringOf, c, d, e
<1> QED
  BY <1>7, <1>8, <1>9 DEF StringOf, s, t, b

(* Any slice of a line's string iterates over the code points of its range.*)
LEMMA SliceCodes ==
    ASSUME NEW line \in Seq(Chars), NEW m, NEW p, Starts(line, m, p),
           NEW a \in 0 .. m, NEW b \in a .. m
    PROVE  ITERATE_OVER_STRING(StringOf(Part(line, p, a, b), b - a))
             = SubSeq(Codes(line, m, p), a + 1, b)
<1> DEFINE s == Part(line, p, a, b)
           q == [k \in 0 .. b - a |-> p[a + k] - p[a]]
           code(k) == Code(line[p[k - 1] + 1])
<1>1. m \in Nat /\ a \in Nat /\ b \in Nat /\ b - a \in Nat
  BY StartsGrow
<1>2. s \in Seq(Chars) /\ \A k \in 1 .. p[b] - p[a] : s[k] = line[p[a] + k]
  BY PartIs
<1>3. Starts(s, b - a, q)
  BY PartStarts
<1>4. ASSUME NEW k \in 1 .. b - a
      PROVE  Code(s[q[k - 1] + 1]) = code(a + k)
  <2> DEFINE i == a + (k - 1)
  <2>1. /\ i \in 0 .. m - 1 /\ i \in a .. b /\ i \in 0 .. m /\ i + 1 \in a .. b
        /\ k - 1 \in 0 .. b - a /\ (a + k) - 1 = i /\ i + 1 \in 0 .. m
        /\ b \in i + 1 .. m
        /\ i \in a .. m /\ a \in 0 .. m
    BY <1>1
  <2>2. q[k - 1] = p[i] - p[a]
    BY <2>1
  <2> HIDE DEF i, q
  <2>3. /\ p[a] \in 0 .. Len(line) /\ p[i] \in 0 .. Len(line) /\ p[b] \in 0 .. Len(line)
        /\ p[a] <= p[i]
    BY <2>1, StartsGrow
  <2>4. p[i] < p[i + 1] /\ p[i + 1] <= p[b] /\ p[i + 1] \in 0 .. Len(line)
    BY <2>1, StartsGrow
  <2>5. (p[i] - p[a]) + 1 \in 1 .. p[b] - p[a] /\ p[a] + ((p[i] - p[a]) + 1) = p[i] + 1
    BY <2>3, <2>4
  <2>6. s[(p[i] - p[a]) + 1] = line[p[i] + 1]
    <3> DEFINE w == (p[i] - p[a]) + 1
    <3>1. w \in 1 .. p[b] - p[a] /\ p[a] + w = p[i] + 1
      BY <2>5
    <3> HIDE DEF w, s
    <3>2. s[w] = line[p[a] + w]
      BY <1>2, <3>1
    <3> QED
      BY <3>1, <3>2 DEF w
  <2> QED
    BY <2>1, <2>2, <2>6
<1>5. Codes(s, b - a, q) = [k \in 1 .. b - a |-> code(a + k)]
  <2> HIDE DEF q, s, code
  <2> QED
    BY <1>4 DEF Codes
<1>6. SubSeq(Codes(line, m, p), a + 1, b) = [k \in 1 .. b - a |-> code(a + k)]
  <2> DEFINE cps == [k \in 1 .. m |-> code(k)]
  <2>1. Codes(line, m, p) = cps
    BY DEF Codes
  <2>2. \A k \in 1 .. b - a : a + k \in 1 .. m
    BY <1>1
  <2>3. \A k \in 1 .. b - a : cps[a + k] = code(a + k)
    BY <2>2
  <2>4. Len(cps) = m
    BY <1>1
  <2> HIDE DEF code, cps
  <2>5. SubSeq(cps, a + 1, b) = [k \in 1 .. b - a |-> cps[a + k]]
    BY <1>1, <2>4
  <2> QED
    BY <2>1, <2>3, <2>5
<1>7. ITERATE_OVER_STRING(StringOf(s, b - a)) = Codes(s, b - a, q)
  <2> HIDE DEF s, q
  <2> QED
    BY <1>2, <1>3, IterateIs
<1> QED
  BY <1>5, <1>6, <1>7 DEF s

LEMMA StartsWith ==
    ASSUME NEW line \in Seq(Chars), NEW m, NEW p, Starts(line, m, p),
           NEW a \in 0 .. m
    PROVE  string_startswith(StringOf(line, m), StringOf(Part(line, p, 0, a), a - 0))
<1> DEFINE s == Part(line, p, 0, a)
           x == p[a]
           first == 0
<1>1. /\ m \in Nat /\ a \in Nat /\ p[0] = 0 /\ x \in 0 .. Len(line)
      /\ first \in 0 .. m /\ a \in first .. m
  BY StartsGrow
<1>2. s \in Seq(Chars) /\ Len(s) = x /\ \A k \in 1 .. x : s[k] = line[k]
  <2>0. first \in 0 .. m /\ a \in first .. m
    BY <1>1
  <2> HIDE DEF first
  <2>1. /\ Part(line, p, first, a) \in Seq(Chars)
        /\ Len(Part(line, p, first, a)) = p[a] - p[first]
        /\ \A k \in 1 .. p[a] - p[first] :
              Part(line, p, first, a)[k] = line[p[first] + k]
    BY <2>0, PartIs
  <2>2. p[first] = 0
    BY <1>1 DEF first
  <2>3. x - 0 = x /\ \A k \in 1 .. x : 0 + k = k
    BY <1>1
  <2>4. s = Part(line, p, first, a)
    BY DEF first
  <2> HIDE DEF s, x
  <2> QED
    BY <1>1, <2>1, <2>2, <2>3, <2>4 DEF x
<1>3. /\ Bytes(line) \in Seq(Nat) /\ Len(Bytes(line)) = Len(line) + 1
      /\ \A k \in 1 .. Len(line) : Bytes(line)[k] = Byte[line[k]]
  BY LineBytes
<1> HIDE DEF s, x
<1>4. /\ Bytes(s) \in Seq(Nat) /\ Len(Bytes(s)) = x + 1
      /\ \A k \in 1 .. x : Bytes(s)[k] = Byte[s[k]]
  BY <1>2, LineBytes
<1>5. ASSUME NEW i \in 0 .. Len(Bytes(s)) - 2
      PROVE  At(Bytes(line), i) = At(Bytes(s), i)
  <2>1. i + 1 \in 1 .. x /\ i + 1 \in 1 .. Len(line)
    BY <1>1, <1>4
  <2> QED
    BY <1>2, <1>3, <1>4, <2>1 DEF At
<1>6. Bytes(line) # <<>> /\ Bytes(s) # <<>>
  BY <1>1, <1>3, <1>4
<1>7. m # INVALID_SIZE /\ a - 0 # INVALID_SIZE /\ m >= a - 0
  BY <1>1 DEF INVALID_SIZE
<1> QED
  BY <1>5, <1>6, <1>7 DEF string_startswith, StringOf, s

LEMMA ConsistentLine ==
    ASSUME NEW line \in Seq(Chars), WellFormed(line)
    PROVE  Consistent(string_from_bytes(Bytes(line)))
<1>1. PICK m, p : Starts(line, m, p)
  BY StartsExist
<1> DEFINE s == StringOf(line, m)
           cps == Codes(line, m, p)
           slice(a, b) == string_substring(s, a, b)
<1>2. string_from_bytes(Bytes(line)) = s
  BY <1>1, StringIs
<1>3. ITERATE_OVER_STRING(s) = cps /\ Encoding(cps) = Bytes(line)
  BY <1>1, IterateIs, EncodingIs
<1>4. m \in Nat /\ Len(cps) = m /\ s.len = m /\ s.bytes = Bytes(line)
  BY <1>1, StartsGrow DEF StringOf, Codes
<1> HIDE DEF s, cps
<1>5. ASSUME NEW a \in 0 .. m, NEW b \in a .. m, NEW start, NEW end,
             start = a \/ (start = INVALID_SIZE /\ a = 0), Capped(end, m) = b
      PROVE  slice(start, end) = StringOf(Part(line, p, a, b), b - a)
  BY <1>1, <1>5, SliceIs DEF s
<1>6. ASSUME NEW a \in 0 .. m
      PROVE  /\ string_concat(slice(INVALID_SIZE, a), slice(a, INVALID_SIZE)) = s
             /\ string_startswith(s, slice(0, a))
  <2> DEFINE first == 0
             final == m
  <2>1. /\ first \in 0 .. m /\ a \in first .. m /\ final \in a .. m
        /\ Capped(a, m) = a /\ Capped(INVALID_SIZE, m) = final /\ first = 0
        /\ a \in 0 .. m
    BY <1>4 DEF Capped, INVALID_SIZE
  <2> HIDE DEF first, final, slice
  <2>2. /\ slice(INVALID_SIZE, a) = StringOf(Part(line, p, first, a), a - first)
        /\ slice(first, a) = StringOf(Part(line, p, first, a), a - first)
    BY <1>5, <2>1
  <2>3. slice(a, INVALID_SIZE) = StringOf(Part(line, p, a, final), final - a)
    BY <1>5, <2>1
  <2>4. /\ string_concat(StringOf(Part(line, p, 0, a), a - 0),
                         StringOf(Part(line, p, a, m), m - a)) = s
        /\ string_startswith(s, StringOf(Part(line, p, 0, a), a - 0))
    BY <1>1, PartsJoin, StartsWith DEF s
  <2> QED
    BY <2>2, <2>3, <2>4 DEF first, final
<1>7. ASSUME NEW a \in 0 .. m, NEW b \in a .. m + 1
      PROVE  /\ ITERATE_OVER_STRING(slice(a, b)) = SubSeq(cps, a + 1, Capped(b, m))
             /\ slice(a, b).len = Capped(b, m) - a
  <2> DEFINE c == Capped(b, m)
  <2>1. c \in a .. m
    BY <1>4 DEF Capped, INVALID_SIZE
  <2> HIDE DEF c, slice
  <2>2. slice(a, b) = StringOf(Part(line, p, a, c), c - a)
    BY <1>5, <2>1 DEF c
  <2>3. ITERATE_OVER_STRING(StringOf(Part(line, p, a, c), c - a))
          = SubSeq(cps, a + 1, c)
    BY <1>1, <2>1, SliceCodes DEF cps
  <2>4. StringOf(Part(line, p, a, c), c - a).len = c - a
    BY DEF StringOf
  <2> QED
    BY <2>2, <2>3, <2>4 DEF c
<1> QED
  BY <1>2, <1>3, <1>4, <1>6, <1>7 DEF Consistent

-----------------------------------------------------------------------------
(* The line editor's own proofs, for the buffer of the prompt.             *)
BufferProofs == INSTANCE PasswdBuffer_proofs

LEMMA SameBuffer ==
    /\ BufferProofs!IInv <=> Buffer!IInv
    /\ BufferProofs!Init <=> Buffer!Init
    /\ \A ch : BufferProofs!Insert(ch) <=> Buffer!Insert(ch)
    /\ BufferProofs!Backspace <=> Buffer!Backspace
    /\ BufferProofs!Delete <=> Buffer!Delete
    /\ \A c : BufferProofs!MoveTo(c) <=> Buffer!MoveTo(c)
    /\ BufferProofs!Submit <=> Buffer!Submit
    /\ BufferProofs!NoOutput <=> Buffer!NoOutput
    /\ BufferProofs!Text(size) = Buffer!Text(size)
    /\ \A c : BufferProofs!Removed(c) = Buffer!Removed(c)
<1>1. BufferProofs!IInv <=> Buffer!IInv
  BY DEF BufferProofs!IInv, BufferProofs!TypeOK, BufferProofs!BufferBounds,
         BufferProofs!CleanTail, BufferProofs!NothingLeft, BufferProofs!Cells,
         Buffer!IInv, Buffer!TypeOK, Buffer!BufferBounds,
         Buffer!CleanTail, Buffer!NothingLeft, Buffer!Cells
<1>2. BufferProofs!Init <=> Buffer!Init
  BY DEF BufferProofs!Init, BufferProofs!Malloc, Buffer!Init, Buffer!Malloc
<1>3. \A ch : BufferProofs!Insert(ch) <=> Buffer!Insert(ch)
  <2>1. \A ch : BufferProofs!Inserted(ch) = Buffer!Inserted(ch)
    BY DEF BufferProofs!Inserted, Buffer!Inserted
  <2>2. \A buf, n : BufferProofs!LIST_APPENDED(buf, n) <=> Buffer!LIST_APPENDED(buf, n)
    BY DEF BufferProofs!LIST_APPENDED, Buffer!LIST_APPENDED,
           BufferProofs!Grown, Buffer!Grown,
           BufferProofs!mem_secure_delete, Buffer!mem_secure_delete
  <2> QED
    BY <2>1, <2>2 DEF BufferProofs!Insert, Buffer!Insert, BufferProofs!Typing,
       Buffer!Typing
<1>4. \A c : BufferProofs!Removed(c) = Buffer!Removed(c)
  BY DEF BufferProofs!Removed, Buffer!Removed
<1>5. BufferProofs!Backspace <=> Buffer!Backspace
  BY <1>4 DEF BufferProofs!Backspace, Buffer!Backspace, BufferProofs!Typing,
     Buffer!Typing
<1>6. BufferProofs!Delete <=> Buffer!Delete
  BY <1>4 DEF BufferProofs!Delete, Buffer!Delete, BufferProofs!Typing, Buffer!Typing
<1>7. \A c : BufferProofs!MoveTo(c) <=> Buffer!MoveTo(c)
  BY DEF BufferProofs!MoveTo, Buffer!MoveTo, BufferProofs!Typing, Buffer!Typing
<1>8. BufferProofs!Submit <=> Buffer!Submit
  BY DEF BufferProofs!Submit, Buffer!Submit, BufferProofs!Terminated, Buffer!Terminated
<1>9. BufferProofs!NoOutput <=> Buffer!NoOutput
  BY DEF BufferProofs!NoOutput, Buffer!NoOutput, BufferProofs!Terminated,
     Buffer!Terminated,
         BufferProofs!mem_secure_delete, Buffer!mem_secure_delete
<1>10. BufferProofs!Text(size) = Buffer!Text(size)
  BY DEF BufferProofs!Text, Buffer!Text
<1> QED
  BY <1>1, <1>2, <1>3, <1>4, <1>5, <1>6, <1>7, <1>8, <1>9, <1>10

LEMMA BufferInit ==
    ASSUME Buffer!Init
    PROVE  /\ Buffer!IInv /\ outcome = "typing" /\ cursor = 0
           /\ Buffer!Text(size) = <<>>
<1>1. BufferProofs!Init => BufferProofs!IInv
  BY BufferAssumption, BufferProofs!InitInv
<1>2. Buffer!IInv
  BY <1>1, SameBuffer
<1> QED
  BY <1>2 DEF Buffer!Init, Buffer!Text

(* The buffer's invariant is kept by each of its operations.               *)
LEMMA BufferStep ==
    ASSUME Buffer!IInv,
           \/ \E ch \in Chars : Buffer!Insert(ch)
           \/ Buffer!Backspace \/ Buffer!Delete
           \/ Buffer!MoveTo(0) \/ Buffer!MoveTo(size)
           \/ cursor < size /\ Buffer!MoveTo(cursor + 1)
           \/ cursor > 0 /\ Buffer!MoveTo(cursor - 1)
           \/ Buffer!Submit \/ Buffer!NoOutput
           \/ UNCHANGED bufferVars
    PROVE  Buffer!IInv'
<1>1. BufferProofs!IInv /\ [BufferProofs!Next]_(BufferProofs!vars) => BufferProofs!IInv'
  BY BufferAssumption, BufferProofs!StepInv
<1>2. [BufferProofs!Next]_(BufferProofs!vars)
  BY SameBuffer DEF BufferProofs!Next, BufferProofs!MoveCursor, BufferProofs!vars,
                    bufferVars
<1>3. BufferProofs!IInv /\ (BufferProofs!IInv' => Buffer!IInv')
  <2>1. BufferProofs!IInv' => Buffer!IInv'
    BY DEF BufferProofs!IInv, BufferProofs!TypeOK, BufferProofs!BufferBounds,
         BufferProofs!CleanTail, BufferProofs!NothingLeft, BufferProofs!Cells,
         Buffer!IInv, Buffer!TypeOK, Buffer!BufferBounds,
         Buffer!CleanTail, Buffer!NothingLeft, Buffer!Cells
  <2> QED
    BY <2>1, SameBuffer
<1> QED
  BY <1>1, <1>2, <1>3

(* What the operations do to the characters of the line.                   *)
LEMMA BufferLine ==
    ASSUME Buffer!IInv
    PROVE  /\ size \in Nat /\ cursor \in 0 .. size
           /\ Len(Buffer!Text(size)) = size /\ DOMAIN Buffer!Text(size) = 1 .. size
BY DEF Buffer!IInv, Buffer!TypeOK, Buffer!Text

LEMMA BufferInsert ==
    ASSUME Buffer!IInv, NEW ch \in Chars, Buffer!Insert(ch)
    PROVE  /\ outcome = "typing" /\ outcome' = "typing" /\ cursor' = cursor + 1
           /\ Buffer!Text(size)' =
                [j \in 1 .. size + 1 |->
                    IF j <= cursor THEN Buffer!Text(size)[j]
                    ELSE IF j = cursor + 1 THEN ch ELSE Buffer!Text(size)[j - 1]]
<1>1. BufferProofs!IInv /\ BufferProofs!Insert(ch)
  BY SameBuffer
<1>2. BufferProofs!Text(size)' =
                [j \in 1 .. size + 1 |->
                    IF j <= cursor THEN BufferProofs!Text(size)[j]
                    ELSE IF j = cursor + 1 THEN ch ELSE BufferProofs!Text(size)[j - 1]]
  BY <1>1, BufferAssumption, BufferProofs!InsertText
<1> QED
  BY <1>2 DEF Buffer!Insert, Buffer!Typing, BufferProofs!Text, Buffer!Text

LEMMA BufferRemove ==
    ASSUME Buffer!IInv, outcome = "typing", size > 0, NEW c \in 0 .. size - 1,
           passwd' = Buffer!Removed(c), size' = size - 1
    PROVE  Buffer!Text(size)' =
             [j \in 1 .. size - 1 |-> IF j < c + 1 THEN Buffer!Text(size)[j]
                                      ELSE Buffer!Text(size)[j + 1]]
<1>1. BufferProofs!IInv /\ passwd' = BufferProofs!Removed(c)
  BY SameBuffer
<1>2. BufferProofs!Text(size)' =
             [j \in 1 .. size - 1 |-> IF j < c + 1 THEN BufferProofs!Text(size)[j]
                                      ELSE BufferProofs!Text(size)[j + 1]]
  BY <1>1, BufferAssumption, BufferProofs!RemoveRefines
<1> QED
  BY <1>2 DEF BufferProofs!Text, Buffer!Text

LEMMA BufferSubmit ==
    ASSUME Buffer!IInv, Buffer!Submit
    PROVE  Buffer!Text(size - 1)' = Buffer!Text(size)
<1>1. BufferProofs!IInv /\ BufferProofs!Submit
  BY SameBuffer
<1>2. BufferProofs!Text(size - 1)' = BufferProofs!Text(size)
  BY <1>1, BufferAssumption, BufferProofs!SubmitText
<1> QED
  BY <1>2 DEF BufferProofs!Text, Buffer!Text

-----------------------------------------------------------------------------
(* The bytes of a key.                                                     *)
KeyLen(key) == Len(KeyBytes(key))

LEMMA SequenceKeys ==
    ASSUME NEW key \in DOMAIN Sequences
    PROVE  \/ key \in {"Up", "Down", "Right", "Left", "End", "Home", "Delete", "PgUp"}
           \/ key \in {"ShiftDelete", "CtrlLeft", "F1", "AltX", "AltEnter", "AltUp",
                       "AltFF", "Escape"}
BY DEF Sequences

(* The sign that separates the parameters of a sequence, under a name.     *)
Semicolon == ";"

LEMMA SemicolonIs == Semicolon \notin Letters \cup {"~", "[", "3", "5", "ff", "esc"}
BY Zenon DEF Semicolon, Letters

LEMMA SequenceOf ==
    /\ Sequences["Up"] = <<"[", "A">> /\ Sequences["Down"] = <<"[", "B">>
    /\ Sequences["Right"] = <<"[", "C">> /\ Sequences["Left"] = <<"[", "D">>
    /\ Sequences["End"] = <<"[", "F">> /\ Sequences["Home"] = <<"[", "H">>
    /\ Sequences["Delete"] = <<"[", "3", "~">> /\ Sequences["PgUp"] = <<"[", "5", "~">>
    /\ Sequences["ShiftDelete"] = <<"[", "3", Semicolon, "5", "~">>
    /\ Sequences["CtrlLeft"] = <<"[", "5", Semicolon, "5", "D">>
    /\ Sequences["F1"] = <<"[", "[", "A">> /\ Sequences["AltX"] = <<"x">>
    /\ Sequences["AltEnter"] = <<"enter">> /\ Sequences["AltUp"] = <<"esc", "[", "A">>
    /\ Sequences["AltFF"] = <<"ff">> /\ Sequences["Escape"] = <<>>
BY Zenon DEF Sequences, Semicolon

(* Every byte of an escape sequence.                                       *)
Signs == {"[", "A", "B", "C", "D", "F", "H", "3", "5", "~", "x", "enter", "esc", "ff",
          Semicolon}

LEMMA SequencesAre ==
    ASSUME NEW key \in DOMAIN Sequences
    PROVE  /\ Sequences[key] \in Seq(Signs)
           /\ Len(Sequences[key]) \in 0 .. 5
           /\ Len(Sequences[key]) = 0 <=> key = "Escape"
<1> DEFINE Has(k, n) == Sequences[k] \in Seq(Signs) /\ Len(Sequences[k]) = n
<1>0. /\ "[" \in Signs /\ "A" \in Signs /\ "B" \in Signs /\ "C" \in Signs
      /\ "D" \in Signs /\ "F" \in Signs /\ "H" \in Signs /\ "3" \in Signs
      /\ "5" \in Signs /\ "~" \in Signs /\ "x" \in Signs /\ "enter" \in Signs
      /\ "esc" \in Signs /\ "ff" \in Signs /\ Semicolon \in Signs
  BY DEF Signs
<1>1. Has("Up", 2) /\ Has("Down", 2) /\ Has("Right", 2) /\ Has("Left", 2)
      /\ Has("End", 2) /\ Has("Home", 2)
  BY <1>0, SequenceOf
<1>2. Has("Delete", 3) /\ Has("PgUp", 3) /\ Has("F1", 3) /\ Has("AltUp", 3)
  BY <1>0, SequenceOf
<1>3. Has("ShiftDelete", 5) /\ Has("CtrlLeft", 5)
  BY <1>0, SequenceOf
<1>4. Has("AltX", 1) /\ Has("AltEnter", 1) /\ Has("AltFF", 1)
  BY <1>0, SequenceOf
<1>5. Has("Escape", 0)
  BY <1>0, SequenceOf
<1> HIDE DEF Has
<1>6. \/ \E n \in 1 .. 5 : key # "Escape" /\ Has(key, n)
      \/ key = "Escape" /\ Has(key, 0)
  <2>1. 1 \in 1 .. 5 /\ 2 \in 1 .. 5 /\ 3 \in 1 .. 5 /\ 5 \in 1 .. 5
    OBVIOUS
  <2> QED
    BY <2>1, <1>1, <1>2, <1>3, <1>4, <1>5, SequenceKeys
<1>7. CASE key = "Escape"
  BY <1>6, <1>7 DEF Has
<1>8. ASSUME NEW n \in 1 .. 5, key # "Escape", Has(key, n)
      PROVE  /\ Sequences[key] \in Seq(Signs)
             /\ Len(Sequences[key]) \in 0 .. 5
             /\ Len(Sequences[key]) # 0
  BY <1>8 DEF Has
<1> QED
  BY <1>6, <1>7, <1>8

(* The bytes of a key that sends an escape sequence, and of the others.    *)
LEMMA EscapeBytes ==
    ASSUME NEW key \in DOMAIN Sequences
    PROVE  /\ KeyLen(key) = Len(Sequences[key]) + 1 /\ KeyLen(key) \in 1 .. 6
           /\ KeyLen(key) = 1 <=> key = "Escape"
           /\ KeyBytes(key)[1] = "esc"
           /\ \A p \in 1 .. KeyLen(key) - 1 : KeyBytes(key)[p + 1] = Sequences[key][p]
<1> DEFINE s == Sequences[key]
<1>1. /\ s \in Seq(Signs) /\ Len(s) \in 0 .. 5 /\ (Len(s) = 0 <=> key = "Escape")
      /\ KeyBytes(key) = <<"esc">> \o s
  BY SequencesAre DEF KeyBytes
<1> HIDE DEF s
<1>2. /\ Len(<<"esc">> \o s) = Len(s) + 1 /\ (<<"esc">> \o s)[1] = "esc"
      /\ \A p \in 1 .. Len(s) : (<<"esc">> \o s)[p + 1] = s[p]
  BY <1>1
<1>3. KeyLen(key) = Len(s) + 1
  BY <1>1, <1>2 DEF KeyLen
<1>4. KeyLen(key) - 1 = Len(s) /\ KeyLen(key) \in 1 .. 6
      /\ (KeyLen(key) = 1 <=> Len(s) = 0)
  <2> DEFINE n == Len(s)
             m == KeyLen(key)
  <2>1. n \in 0 .. 5 /\ m = n + 1
    BY <1>1, <1>3
  <2> HIDE DEF n, m
  <2>2. m - 1 = n /\ m \in 1 .. 6 /\ (m = 1 <=> n = 0)
    BY <2>1
  <2> QED
    BY <2>2 DEF n, m
<1> QED
  BY <1>1, <1>2, <1>3, <1>4 DEF s

LEMMA WideBytes ==
    ASSUME NEW key \in DOMAIN Wide
    PROVE  /\ KeyBytes(key) = Wide[key] /\ KeyLen(key) \in 1 .. 4
           /\ key \notin DOMAIN Sequences /\ key \notin DOMAIN Unknown
           /\ KeyLen(key) = Len(Wide[key])
           /\ Wide[key] \in Seq({"lead2", "lead3", "lead4", "cont"})
           /\ \A p \in 2 .. KeyLen(key) : Wide[key][p] = "cont"
<1>1. key \in {"pound", "block", "cuneiform", "latin1"}
  BY DEF Wide
<1>2. key \notin DOMAIN Sequences /\ key \notin DOMAIN Unknown
  BY <1>1 DEF Sequences, Unknown
<1>3. KeyBytes(key) = Wide[key] /\ KeyLen(key) = Len(Wide[key])
  BY <1>2 DEF KeyBytes, KeyLen
<1>4. /\ Wide["pound"] = <<"lead2", "cont">> /\ Wide["latin1"] = <<"lead3">>
      /\ Wide["block"] = <<"lead3", "cont", "cont">>
      /\ Wide["cuneiform"] = <<"lead4", "cont", "cont", "cont">>
  BY DEF Wide
<1> DEFINE Good(k) == /\ Len(Wide[k]) \in 1 .. 4
                      /\ Wide[k] \in Seq({"lead2", "lead3", "lead4", "cont"})
                      /\ \A p \in 2 .. Len(Wide[k]) : Wide[k][p] = "cont"
<1>5. Good("pound") /\ Good("latin1")
  BY <1>4
<1>6. Good("block") /\ Good("cuneiform")
  BY <1>4
<1>7. Good(key)
  <2> HIDE DEF Good
  <2> QED
    BY <1>1, <1>5, <1>6
<1> QED
  BY <1>2, <1>3, <1>7

(* And of a key for which the decoder reads a sequence that does not come. *)
LEMMA UnknownOf ==
    /\ Unknown["AltBracket"] = <<"[">> /\ Unknown["AltBackspace"] = <<"backspace">>
    /\ Unknown["AltSpace"] = <<"space">> /\ Unknown["AltEscape"] = <<"esc">>
    /\ Unknown["AltNul"] = <<"nul">> /\ Unknown["AltCtrl4"] = <<"fs">>
    /\ Unknown["AltPound"] = <<"lead2", "cont">>
BY Zenon DEF Unknown

LEMMA UnknownBytes ==
    ASSUME NEW key \in DOMAIN Unknown
    PROVE  /\ DOMAIN KeyBytes(key) = 1 .. KeyLen(key) /\ KeyBytes(key)[1] = "esc"
           /\ key \notin DOMAIN Sequences
           /\ \/ /\ KeyLen(key) = 2
                 /\ key = "AltBracket" <=> KeyBytes(key)[2] = "["
                 /\ KeyBytes(key)[2] \in {"[", "backspace", "space", "esc", "nul", "fs"}
              \/ /\ KeyLen(key) = 3 /\ key # "AltBracket"
                 /\ KeyBytes(key)[2] = "lead2" /\ KeyBytes(key)[3] = "cont"
<1>1. \/ key \in {"AltBracket", "AltBackspace", "AltSpace", "AltEscape", "AltNul",
                  "AltCtrl4"}
      \/ key = "AltPound"
  BY DEF Unknown
<1>2. key \notin DOMAIN Sequences
  BY <1>1 DEF Sequences
<1>3. KeyBytes(key) = <<"esc">> \o Unknown[key]
  BY <1>2 DEF KeyBytes
<1> DEFINE Signals == {"[", "backspace", "space", "esc", "nul", "fs", "lead2", "cont"}
<1>4. \A t \in Seq(Signals) :
         LET u == <<"esc">> \o t
         IN  /\ Len(u) = Len(t) + 1 /\ DOMAIN u = 1 .. Len(u)
             /\ u[1] = "esc" /\ \A k \in 1 .. Len(t) : u[k + 1] = t[k]
  <2> SUFFICES ASSUME NEW t \in Seq(Signals)
               PROVE  LET u == <<"esc">> \o t
                      IN  /\ Len(u) = Len(t) + 1 /\ DOMAIN u = 1 .. Len(u)
                          /\ u[1] = "esc" /\ \A k \in 1 .. Len(t) : u[k + 1] = t[k]
    OBVIOUS
  <2>1. "esc" \in Signals
    OBVIOUS
  <2> HIDE DEF Signals
  <2> QED
    BY <2>1
<1>5. CASE key = "AltPound"
  <2> DEFINE t == <<"lead2", "cont">>
  <2>1. KeyBytes(key) = <<"esc">> \o t
    BY <1>3, <1>5, UnknownOf
  <2>2. t \in Seq(Signals) /\ Len(t) = 2 /\ t[1] = "lead2" /\ t[2] = "cont"
    OBVIOUS
  <2> HIDE DEF t
  <2>3. /\ Len(KeyBytes(key)) = Len(t) + 1
        /\ DOMAIN KeyBytes(key) = 1 .. Len(KeyBytes(key)) /\ KeyBytes(key)[1] = "esc"
        /\ \A k \in 1 .. Len(t) : KeyBytes(key)[k + 1] = t[k]
    BY <1>4, <2>1, <2>2
  <2>4. KeyBytes(key)[1 + 1] = "lead2" /\ KeyBytes(key)[2 + 1] = "cont"
    BY <2>2, <2>3
  <2> QED
    BY <1>2, <1>5, <2>2, <2>3, <2>4 DEF KeyLen
<1>6. CASE key # "AltPound"
  <2>1. \E x \in {"[", "backspace", "space", "esc", "nul", "fs"} :
           /\ Unknown[key] = <<x>>
           /\ key = "AltBracket" <=> x = "["
    BY <1>1, <1>6, UnknownOf
  <2>2. PICK x \in {"[", "backspace", "space", "esc", "nul", "fs"} :
           /\ Unknown[key] = <<x>>
           /\ key = "AltBracket" <=> x = "["
    BY <2>1
  <2> DEFINE t == <<x>>
  <2>3. KeyBytes(key) = <<"esc">> \o t
    BY <1>3, <2>2
  <2>4. t \in Seq(Signals) /\ Len(t) = 1 /\ t[1] = x
    BY <2>2
  <2> HIDE DEF t
  <2>5. /\ Len(KeyBytes(key)) = Len(t) + 1
        /\ DOMAIN KeyBytes(key) = 1 .. Len(KeyBytes(key)) /\ KeyBytes(key)[1] = "esc"
        /\ \A k \in 1 .. Len(t) : KeyBytes(key)[k + 1] = t[k]
    BY <1>4, <2>3, <2>4
  <2>6. KeyBytes(key)[1 + 1] = x
    BY <2>4, <2>5
  <2>7. KeyLen(key) = 2 /\ DOMAIN KeyBytes(key) = 1 .. KeyLen(key) /\ KeyBytes(key)[2] = x
    BY <2>4, <2>5, <2>6 DEF KeyLen
  <2> QED
    BY <1>2, <2>2, <2>5, <2>7
<1> QED
  BY <1>5, <1>6

LEMMA PlainBytes ==
    ASSUME NEW key, key \notin DOMAIN Sequences, key \notin DOMAIN Unknown,
           key \notin DOMAIN Wide
    PROVE  KeyBytes(key) = <<key>> /\ KeyLen(key) = 1 /\ KeyBytes(key)[1] = key
BY DEF KeyBytes, KeyLen

-----------------------------------------------------------------------------
(* The path of a key through the decoder: the states between its bytes.    *)
Path ==
    [Up |-> <<"esc", "csi">>, Down |-> <<"esc", "csi">>, Right |-> <<"esc", "csi">>,
     Left |-> <<"esc", "csi">>, End |-> <<"esc", "csi">>, Home |-> <<"esc", "csi">>,
     Delete |-> <<"esc", "csi", "delete">>, PgUp |-> <<"esc", "csi", "skip">>,
     ShiftDelete |-> <<"esc", "csi", "delete", "skip", "skip">>,
     CtrlLeft |-> <<"esc", "csi", "skip", "skip", "skip">>,
     F1 |-> <<"esc", "csi", "skip">>, AltX |-> <<"esc">>, AltEnter |-> <<"esc">>,
     AltUp |-> <<"esc", "skip", "skip">>, AltFF |-> <<"esc">>, Escape |-> <<>>]

(* What a byte of a key asks of the decoder: where it was, the byte, and,  *)
(* unless the byte is the key's last, where it is next.                    *)
Decodes(key, p) ==
    LET d == Path[key][p]
        b == Sequences[key][p]
    IN  IF p = Len(Sequences[key])
        THEN \/ d = "esc" /\ <<key, b>> \in {<<"AltX", "x">>, <<"AltEnter", "enter">>,
                                            <<"AltFF", "ff">>}
             \/ d = "csi" /\ <<key, b>> \in {<<"Up", "A">>, <<"Down", "B">>,
                                            <<"Right", "C">>, <<"Left", "D">>,
                                            <<"End", "F">>, <<"Home", "H">>}
             \/ d = "delete" /\ key = "Delete" /\ b = "~"
             \/ d = "skip" /\ b \in {"A", "D", "~"}
                /\ key \in {"F1", "AltUp", "PgUp", "ShiftDelete", "CtrlLeft"}
        ELSE \/ d = "esc" /\ b = "[" /\ Path[key][p + 1] = "csi"
             \/ d = "esc" /\ b = "esc" /\ Path[key][p + 1] = "skip"
             \/ d = "csi" /\ b = "3" /\ Path[key][p + 1] = "delete"
             \/ d = "csi" /\ b \in {"5", "["} /\ Path[key][p + 1] = "skip"
             \/ d = "delete" /\ b = Semicolon /\ Path[key][p + 1] = "skip"
             \/ d = "skip" /\ b \in {"5", "[", Semicolon} /\ Path[key][p + 1] = "skip"

LEMMA KeyPath ==
    ASSUME NEW key \in DOMAIN Sequences, NEW p \in 1 .. Len(Sequences[key])
    PROVE  Decodes(key, p)
<1>1. CASE key = "Up"
  <2>1. Sequences[key] = <<"[", "A">>
        /\ Path[key] = <<"esc", "csi">>
    BY <1>1, SequenceOf DEF Path
  <2> QED
    BY <1>1, <2>1 DEF Decodes
<1>2. CASE key = "Down"
  <2>1. Sequences[key] = <<"[", "B">>
        /\ Path[key] = <<"esc", "csi">>
    BY <1>2, SequenceOf DEF Path
  <2> QED
    BY <1>2, <2>1 DEF Decodes
<1>3. CASE key = "Right"
  <2>1. Sequences[key] = <<"[", "C">>
        /\ Path[key] = <<"esc", "csi">>
    BY <1>3, SequenceOf DEF Path
  <2> QED
    BY <1>3, <2>1 DEF Decodes
<1>4. CASE key = "Left"
  <2>1. Sequences[key] = <<"[", "D">>
        /\ Path[key] = <<"esc", "csi">>
    BY <1>4, SequenceOf DEF Path
  <2> QED
    BY <1>4, <2>1 DEF Decodes
<1>5. CASE key = "End"
  <2>1. Sequences[key] = <<"[", "F">>
        /\ Path[key] = <<"esc", "csi">>
    BY <1>5, SequenceOf DEF Path
  <2> QED
    BY <1>5, <2>1 DEF Decodes
<1>6. CASE key = "Home"
  <2>1. Sequences[key] = <<"[", "H">>
        /\ Path[key] = <<"esc", "csi">>
    BY <1>6, SequenceOf DEF Path
  <2> QED
    BY <1>6, <2>1 DEF Decodes
<1>7. CASE key = "Delete"
  <2>1. Sequences[key] = <<"[", "3", "~">>
        /\ Path[key] = <<"esc", "csi", "delete">>
    BY <1>7, SequenceOf DEF Path
  <2> QED
    BY <1>7, <2>1 DEF Decodes
<1>8. CASE key = "PgUp"
  <2>1. Sequences[key] = <<"[", "5", "~">>
        /\ Path[key] = <<"esc", "csi", "skip">>
    BY <1>8, SequenceOf DEF Path
  <2> QED
    BY <1>8, <2>1 DEF Decodes
<1>9. CASE key = "ShiftDelete"
  <2>1. Sequences[key] = <<"[", "3", Semicolon, "5", "~">>
        /\ Path[key] = <<"esc", "csi", "delete", "skip", "skip">>
    BY <1>9, SequenceOf DEF Path
  <2> QED
    BY <1>9, <2>1 DEF Decodes
<1>10. CASE key = "CtrlLeft"
  <2>1. Sequences[key] = <<"[", "5", Semicolon, "5", "D">>
        /\ Path[key] = <<"esc", "csi", "skip", "skip", "skip">>
    BY <1>10, SequenceOf DEF Path
  <2> QED
    BY <1>10, <2>1 DEF Decodes
<1>11. CASE key = "F1"
  <2>1. Sequences[key] = <<"[", "[", "A">>
        /\ Path[key] = <<"esc", "csi", "skip">>
    BY <1>11, SequenceOf DEF Path
  <2> QED
    BY <1>11, <2>1 DEF Decodes
<1>12. CASE key = "AltX"
  <2>1. Sequences[key] = <<"x">>
        /\ Path[key] = <<"esc">>
    BY <1>12, SequenceOf DEF Path
  <2> QED
    BY <1>12, <2>1 DEF Decodes
<1>13. CASE key = "AltEnter"
  <2>1. Sequences[key] = <<"enter">>
        /\ Path[key] = <<"esc">>
    BY <1>13, SequenceOf DEF Path
  <2> QED
    BY <1>13, <2>1 DEF Decodes
<1>14. CASE key = "AltUp"
  <2>1. Sequences[key] = <<"esc", "[", "A">>
        /\ Path[key] = <<"esc", "skip", "skip">>
    BY <1>14, SequenceOf DEF Path
  <2> QED
    BY <1>14, <2>1 DEF Decodes
<1>15. CASE key = "AltFF"
  <2>1. Sequences[key] = <<"ff">>
        /\ Path[key] = <<"esc">>
    BY <1>15, SequenceOf DEF Path
  <2> QED
    BY <1>15, <2>1 DEF Decodes
<1>16. key # "Escape"
  BY SequencesAre
<1> QED
  BY <1>1, <1>2, <1>3, <1>4, <1>5, <1>6, <1>7, <1>8, <1>9, <1>10, <1>11, <1>12, <1>13,
     <1>14, <1>15, <1>16, SequenceKeys

-----------------------------------------------------------------------------
(* The queue of unread bytes: whole keys, but for the one being read.      *)
Pieces == [byte : Chars \cup Controls, key : Keys \cup {"none"}]

(* The bytes of key behind its first p stand at off in the queue s.        *)
Queued(s, off, key, p) ==
    /\ off + (KeyLen(key) - p) <= Len(s)
    /\ \A q \in 1 .. KeyLen(key) - p : s[off + q] = Tagged(key)[p + q]

WholeKey(s, off) == \E key \in Keys : Queued(s, off, key, 0)

QueueOK(s) ==
    /\ s \in Seq(Pieces)
    /\ s # <<>> => s[Len(s)].key # "none"
    /\ \A k \in 1 .. Len(s) - 1 : s[k].key # "none" => WholeKey(s, k)
    /\ \A k \in 1 .. Len(s) : s[k].key = "Escape" => k = Len(s)

LEMMA TaggedKey ==
    ASSUME NEW key \in Keys
    PROVE  /\ KeyLen(key) \in 1 .. 6
           /\ Tagged(key) \in Seq(Pieces) /\ Len(Tagged(key)) = KeyLen(key)
           /\ \A q \in 1 .. KeyLen(key) :
                /\ Tagged(key)[q].byte = KeyBytes(key)[q]
                /\ Tagged(key)[q].key = IF q = KeyLen(key) THEN key ELSE "none"
           /\ \A q \in 1 .. KeyLen(key) : KeyBytes(key)[q] \in Chars \cup Controls
           /\ key # "none"
<1> DEFINE n == KeyLen(key)
           b == KeyBytes(key)
<1>1. n \in 1 .. 6 /\ DOMAIN b = 1 .. n
  <2>1. CASE key \in DOMAIN Sequences
    <3>1. Sequences[key] \in Seq(Signs) /\ b = <<"esc">> \o Sequences[key]
      BY <2>1, SequencesAre DEF KeyBytes
    <3> HIDE DEF b
    <3>2. b \in Seq(Signs \cup {"esc"})
      BY <3>1
    <3>3. DOMAIN b = 1 .. Len(b)
      BY <3>2
    <3> QED
      BY <2>1, <3>3, EscapeBytes DEF KeyLen, b
  <2>2. CASE key \in DOMAIN Wide
    BY <2>2, WideBytes DEF KeyLen
  <2>3. CASE key \in DOMAIN Unknown
    BY <2>3, UnknownBytes DEF KeyLen
  <2>4. CASE /\ key \notin DOMAIN Sequences /\ key \notin DOMAIN Unknown
             /\ key \notin DOMAIN Wide
    <3>1. b = <<key>> /\ n = 1
      BY <2>4, PlainBytes
    <3>2. DOMAIN <<key>> = 1 .. 1
      OBVIOUS
    <3> HIDE DEF b, n
    <3> QED
      BY <3>1, <3>2
  <2> QED
    BY <2>1, <2>2, <2>3, <2>4
<1>2. \A q \in 1 .. n : b[q] \in Chars \cup Controls
  BY <1>1, BytesAssumption
<1>3. /\ Tagged(key) = [q \in 1 .. n |-> [byte |-> b[q],
                                      key |-> IF q = n THEN key ELSE "none"]]
      /\ key # "none"
  BY KeysAssumption DEF Tagged, KeyLen
<1> HIDE DEF n, b
<1>4. \A q \in 1 .. n :
         [byte |-> b[q], key |-> IF q = n THEN key ELSE "none"] \in Pieces
  BY <1>2 DEF Pieces
<1>5. Tagged(key) \in Seq(Pieces) /\ Len(Tagged(key)) = n
  BY <1>1, <1>3, <1>4
<1> QED
  BY <1>1, <1>2, <1>3, <1>5 DEF n, b

LEMMA QueueHead ==
    ASSUME NEW s \in Seq(Pieces), NEW key \in Keys, NEW p \in 0 .. KeyLen(key) - 1,
           Queued(s, 0, key, p)
    PROVE  /\ s # <<>> /\ Head(s).byte = KeyBytes(key)[p + 1]
           /\ Head(s).key = IF p + 1 = KeyLen(key) THEN key ELSE "none"
           /\ p + 1 # KeyLen(key) => Queued(Tail(s), 0, key, p + 1)
<1> DEFINE n == KeyLen(key)
<1>1. n \in 1 .. 6 /\ Len(s) \in Nat
  BY TaggedKey
<1>2. n - p <= Len(s) /\ \A q \in 1 .. n - p : s[q] = Tagged(key)[p + q]
  BY <1>1 DEF Queued
<1>3. s # <<>> /\ s[1] = Tagged(key)[p + 1] /\ Head(s) = s[1]
  <2>1. 1 \in 1 .. n - p /\ Len(s) >= 1
    <3>1. p \in 0 .. n - 1
      OBVIOUS
    <3> HIDE DEF n
    <3>2. n - p >= 1
      BY <1>1, <3>1
    <3> QED
      BY <1>1, <1>2, <3>1, <3>2
  <2> QED
    BY <1>2, <2>1
<1>4. p + 1 \in 1 .. n
  BY <1>1
<1>5. ASSUME p + 1 # n
      PROVE  Queued(Tail(s), 0, key, p + 1)
  <2>1. Len(Tail(s)) = Len(s) - 1 /\ \A q \in 1 .. Len(s) - 1 : Tail(s)[q] = s[q + 1]
    BY <1>3
  <2>2. ASSUME NEW q \in 1 .. n - (p + 1)
        PROVE  Tail(s)[0 + q] = Tagged(key)[(p + 1) + q]
    <3>1. q \in 1 .. Len(s) - 1 /\ q + 1 \in 1 .. n - p /\ p + (q + 1) = (p + 1) + q
          /\ 0 + q = q
      <4>1. p \in 0 .. n - 1 /\ q \in 1 .. n - (p + 1) /\ n - p <= Len(s)
        BY <1>2
      <4> HIDE DEF n
      <4> QED
        BY <1>1, <4>1
    <3> QED
      BY <1>2, <2>1, <3>1
  <2>3. 0 + (n - (p + 1)) <= Len(Tail(s))
    BY <1>1, <1>2, <2>1
  <2> QED
    BY <2>2, <2>3 DEF Queued
<1> QED
  BY <1>3, <1>4, <1>5, TaggedKey

LEMMA QueueTail ==
    ASSUME NEW s, QueueOK(s), s # <<>>
    PROVE  /\ QueueOK(Tail(s))
           /\ Head(s).key # "none" /\ Tail(s) # <<>> => WholeKey(Tail(s), 0)
           /\ Head(s).key = "Escape" => Tail(s) = <<>>
<1> DEFINE t == Tail(s)
<1>1. /\ s \in Seq(Pieces) /\ Len(s) \in Nat \ {0} /\ Head(s) = s[1]
      /\ t \in Seq(Pieces) /\ Len(t) = Len(s) - 1
      /\ \A k \in 1 .. Len(s) - 1 : t[k] = s[k + 1]
  BY DEF QueueOK
<1> HIDE DEF t
<1>2. \A k \in 0 .. Len(t) : WholeKey(s, k + 1) => WholeKey(t, k)
  <2> SUFFICES ASSUME NEW k \in 0 .. Len(t), NEW key \in Keys, Queued(s, k + 1, key, 0)
               PROVE  Queued(t, k, key, 0)
    BY DEF WholeKey
  <2>1. KeyLen(key) \in 1 .. 6
    BY TaggedKey
  <2>2. /\ (k + 1) + (KeyLen(key) - 0) <= Len(s)
        /\ \A q \in 1 .. KeyLen(key) - 0 : s[(k + 1) + q] = Tagged(key)[0 + q]
    BY DEF Queued
  <2>3. k + (KeyLen(key) - 0) <= Len(t)
    BY <1>1, <2>1, <2>2
  <2>4. ASSUME NEW q \in 1 .. KeyLen(key) - 0
        PROVE  t[k + q] = Tagged(key)[0 + q]
    <3>1. k + q \in 1 .. Len(s) - 1 /\ (k + q) + 1 = (k + 1) + q
      BY <1>1, <2>1, <2>3
    <3> QED
      BY <1>1, <2>2, <3>1
  <2> QED
    BY <2>3, <2>4 DEF Queued
<1>3. QueueOK(t)
  <2>1. t # <<>> => t[Len(t)].key # "none"
    <3> SUFFICES ASSUME t # <<>>
                 PROVE  t[Len(t)].key # "none"
      OBVIOUS
    <3>1. Len(t) \in 1 .. Len(s) - 1 /\ Len(t) + 1 = Len(s)
      BY <1>1
    <3> QED
      BY <1>1, <3>1 DEF QueueOK
  <2>2. ASSUME NEW k \in 1 .. Len(t) - 1, t[k].key # "none"
        PROVE  WholeKey(t, k)
    <3>1. t[k] = s[k + 1] /\ k + 1 \in 1 .. Len(s) - 1
      BY <1>1
    <3>2. WholeKey(s, k + 1)
      BY <2>2, <3>1 DEF QueueOK
    <3> QED
      BY <1>1, <1>2, <3>2
  <2>3. ASSUME NEW k \in 1 .. Len(t), t[k].key = "Escape"
        PROVE  k = Len(t)
    <3>1. t[k] = s[k + 1] /\ k + 1 \in 1 .. Len(s)
      BY <1>1
    <3>2. k + 1 = Len(s)
      BY <2>3, <3>1 DEF QueueOK
    <3> QED
      BY <1>1, <3>2
  <2> QED
    BY <1>1, <2>1, <2>2, <2>3 DEF QueueOK
<1>4. ASSUME s[1].key # "none", t # <<>>
      PROVE  WholeKey(t, 0)
  <2>1. 1 \in 1 .. Len(s) - 1 /\ 0 \in 0 .. Len(t) /\ 0 + 1 = 1
    BY <1>1, <1>4
  <2>2. WholeKey(s, 1)
    BY <1>4, <2>1 DEF QueueOK
  <2> QED
    BY <1>2, <2>1, <2>2
<1>5. ASSUME s[1].key = "Escape"
      PROVE  t = <<>>
  <2>1. 1 \in 1 .. Len(s)
    BY <1>1
  <2>2. Len(s) = 1
    BY <1>5, <2>1 DEF QueueOK
  <2> QED
    BY <1>1, <2>2
<1> QED
  BY <1>1, <1>3, <1>4, <1>5 DEF t

LEMMA QueueAppend ==
    ASSUME NEW s, QueueOK(s), NEW key \in Keys,
           s # <<>> => s[Len(s)].key # "Escape"
    PROVE  /\ QueueOK(s \o Tagged(key))
           /\ WholeKey(s \o Tagged(key), Len(s))
           /\ \A k \in Keys : \A off \in 0 .. Len(s) : \A p \in 0 .. KeyLen(k) - 1 :
                 Queued(s, off, k, p) => Queued(s \o Tagged(key), off, k, p)
<1> DEFINE t == Tagged(key)
           u == s \o t
           n == KeyLen(key)
<1>1. s \in Seq(Pieces) /\ Len(s) \in Nat /\ t \in Seq(Pieces) /\ Len(t) = n
      /\ n \in 1 .. 6
  BY TaggedKey DEF QueueOK
<1>2. \A q \in 1 .. n : t[q].key = IF q = n THEN key ELSE "none"
  BY TaggedKey
<1> HIDE DEF t
<1>3. /\ u \in Seq(Pieces) /\ Len(u) = Len(s) + n
      /\ \A k \in 1 .. Len(s) : u[k] = s[k]
      /\ \A q \in 1 .. n : u[Len(s) + q] = t[q]
  BY <1>1
<1> HIDE DEF u, n
<1>4. \A k \in 1 .. Len(u) : k \in 1 .. Len(s)
      \/ (k - Len(s) \in 1 .. n /\ u[k] = t[k - Len(s)])
  <2> SUFFICES ASSUME NEW k \in 1 .. Len(u), k \notin 1 .. Len(s)
               PROVE  k - Len(s) \in 1 .. n /\ u[k] = t[k - Len(s)]
    OBVIOUS
  <2>1. k - Len(s) \in 1 .. n /\ Len(s) + (k - Len(s)) = k
    BY <1>1, <1>3
  <2> QED
    BY <1>3, <2>1
<1>5. ASSUME NEW k \in Keys, NEW off \in 0 .. Len(s), NEW p \in 0 .. KeyLen(k) - 1,
             Queued(s, off, k, p)
      PROVE  Queued(u, off, k, p)
  <2>1. KeyLen(k) \in 1 .. 6
    BY TaggedKey
  <2>2. off + (KeyLen(k) - p) <= Len(s)
        /\ \A q \in 1 .. KeyLen(k) - p : s[off + q] = Tagged(k)[p + q]
    BY <1>5 DEF Queued
  <2>3. off + (KeyLen(k) - p) <= Len(u)
    BY <1>1, <1>3, <2>1, <2>2
  <2>4. ASSUME NEW q \in 1 .. KeyLen(k) - p
        PROVE  u[off + q] = Tagged(k)[p + q]
    <3> DEFINE l == KeyLen(k)
               z == Len(s)
    <3>1. z \in Nat /\ l \in 1 .. 6 /\ p \in 0 .. l - 1 /\ q \in 1 .. l - p
      BY <1>1, <2>1
    <3>2. off \in 0 .. z /\ off + (l - p) <= z
      BY <2>2
    <3> HIDE DEF l, z
    <3>3. off + q \in 1 .. z
      BY <3>1, <3>2
    <3> QED
      BY <1>3, <2>2, <3>3 DEF z
  <2> QED
    BY <2>3, <2>4 DEF Queued
<1>6. Queued(u, Len(s), key, 0)
  <2>1. Len(s) + (n - 0) <= Len(u) /\ n - 0 = n
    BY <1>1, <1>3
  <2>2. \A q \in 1 .. n : u[Len(s) + q] = Tagged(key)[0 + q]
    BY <1>1, <1>3 DEF t
  <2> QED
    BY <2>1, <2>2 DEF Queued, n
<1>7. QueueOK(u)
  <2>1. Len(u) \notin 1 .. Len(s) /\ Len(u) \in 1 .. Len(u) /\ Len(u) - Len(s) = n
    BY <1>1, <1>3
  <2>2. u[Len(u)].key # "none"
    <3>1. u[Len(u)] = t[n] /\ n \in 1 .. n
      BY <1>1, <1>4, <2>1
    <3> QED
      BY <1>2, <3>1, KeysAssumption
  <2>3. ASSUME NEW k \in 1 .. Len(u) - 1, u[k].key # "none"
        PROVE  WholeKey(u, k)
    <3>1. CASE k \in 1 .. Len(s) - 1
      <4>1. u[k] = s[k] /\ k \in 0 .. Len(s)
        BY <1>1, <1>3, <3>1
      <4>2. PICK kk \in Keys : Queued(s, k, kk, 0)
        BY <2>3, <3>1, <4>1 DEF QueueOK, WholeKey
      <4>3. 0 \in 0 .. KeyLen(kk) - 1
        BY TaggedKey
      <4>4. Queued(u, k, kk, 0)
        BY <1>5, <4>1, <4>2, <4>3
      <4> QED
        BY <4>4 DEF WholeKey
    <3>2. CASE k = Len(s)
      BY <1>6, <3>2 DEF WholeKey
    <3>3. CASE k \notin 1 .. Len(s)
      <4>1. k - Len(s) \in 1 .. n /\ u[k] = t[k - Len(s)] /\ k - Len(s) # n
        BY <1>1, <1>3, <1>4, <3>3
      <4> QED
        BY <1>2, <2>3, <4>1
    <3> QED
      BY <1>1, <3>1, <3>2, <3>3
  <2>4. ASSUME NEW k \in 1 .. Len(u), u[k].key = "Escape"
        PROVE  k = Len(u)
    <3>1. CASE k \in 1 .. Len(s)
      <4>1. s[k].key = "Escape" /\ s # <<>>
        BY <1>1, <1>3, <2>4, <3>1
      <4>2. k = Len(s)
        BY <3>1, <4>1 DEF QueueOK
      <4> QED
        BY <4>1, <4>2
    <3>2. CASE k \notin 1 .. Len(s)
      <4>1. k - Len(s) \in 1 .. n /\ u[k] = t[k - Len(s)]
        BY <1>4, <3>2
      <4>2. k - Len(s) = n
        BY <1>2, <2>4, <4>1
      <4> QED
        BY <1>1, <1>3, <4>2
    <3> QED
      BY <3>1, <3>2
  <2> QED
    BY <1>3, <2>2, <2>3, <2>4 DEF QueueOK
<1> QED
  BY <1>5, <1>6, <1>7 DEF WholeKey, u, t

-----------------------------------------------------------------------------
(* What the keys mean for the line.                                        *)
IntendedOK(st) ==
    /\ st \in [line : Seq(Chars), pos : Nat, outcome : {"typing", "accepted", "none"},
              swallow : {"no", "csi", "delete", "skip"}]
    /\ st.pos <= Len(st.line)

(* The prompt goes on, and the next key is not swallowed.                  *)
Live(st) == st.outcome = "typing" /\ st.swallow = "no"

(* line with the first p of chars put in at pos.                           *)
Spliced(line, pos, chars, p) ==
    [j \in 1 .. Len(line) + p |->
        IF j <= pos THEN line[j]
        ELSE IF j <= pos + p THEN chars[j - pos] ELSE line[j - p]]

Without(line, i) ==
    [j \in 1 .. Len(line) - 1 |-> IF j < i THEN line[j] ELSE line[j + 1]]

LEMMA ControlNames ==
    /\ \A key \in {"enter", "nul", "ff", "ctrl_c", "ctrl_d", "backspace",
                    "tab", "fs", "esc"} :
           /\ key \notin Chars /\ key \notin DOMAIN Sequences
           /\ key \notin DOMAIN Wide /\ key \notin DOMAIN Unknown
    /\ \A key \in DOMAIN Sequences : /\ key \notin Chars /\ key \notin DOMAIN Wide
                                       /\ key \notin DOMAIN Unknown
    /\ \A key \in DOMAIN Unknown : key \notin Chars /\ key \notin DOMAIN Wide
<1>1. \A key \in {"enter", "nul", "ff", "ctrl_c", "ctrl_d", "backspace", "tab", "fs",
                 "esc"} :
          key \notin DOMAIN Byte
  BY Zenon, ByteTable
<1>2. \A key \in DOMAIN Sequences : key \notin DOMAIN Byte
  BY Zenon, ByteTable DEF Sequences
<1>3. Chars \subseteq DOMAIN Byte
  BY CharsAssumption
<1>4. \A key \in {"enter", "nul", "ff", "ctrl_c", "ctrl_d", "backspace", "tab", "fs", "esc"} :
          /\ key \notin DOMAIN Sequences /\ key \notin DOMAIN Wide
          /\ key \notin DOMAIN Unknown
  BY DEF Sequences, Wide, Unknown
<1>5. \A key \in DOMAIN Sequences : key \notin DOMAIN Wide /\ key \notin DOMAIN Unknown
  BY DEF Sequences, Wide, Unknown
<1>6. \A key \in DOMAIN Unknown : key \notin DOMAIN Byte /\ key \notin DOMAIN Wide
  <2>1. \A key \in DOMAIN Unknown : key \notin DOMAIN Byte
    BY Zenon, ByteTable DEF Unknown
  <2>2. \A key \in DOMAIN Unknown : key \notin DOMAIN Wide
    BY DEF Unknown, Wide
  <2> QED
    BY <2>1, <2>2
<1> QED
  BY <1>1, <1>2, <1>3, <1>4, <1>5, <1>6, Zenon

LEMMA TypedSpliced ==
    ASSUME NEW st, IntendedOK(st), NEW chars \in Seq(Chars)
    PROVE  /\ IntendedOK(Typed(st, chars))
           /\ Typed(st, chars).line = Spliced(st.line, st.pos, chars, Len(chars))
           /\ Typed(st, chars).pos = st.pos + Len(chars)
           /\ Typed(st, chars).outcome = st.outcome
           /\ Typed(st, chars).swallow = st.swallow
<1> DEFINE line == st.line
           pos == st.pos
           n == Len(line)
           m == Len(chars)
           new == SubSeq(line, 1, pos) \o chars \o SubSeq(line, pos + 1, n)
<1>1. line \in Seq(Chars) /\ pos \in 0 .. n /\ n \in Nat /\ m \in Nat
  BY DEF IntendedOK
<1> HIDE DEF line, pos
<1>2. /\ SubSeq(line, 1, pos) \in Seq(Chars) /\ Len(SubSeq(line, 1, pos)) = pos
      /\ \A j \in 1 .. pos : SubSeq(line, 1, pos)[j] = line[j]
  BY <1>1
<1>3. /\ SubSeq(line, pos + 1, n) \in Seq(Chars)
      /\ Len(SubSeq(line, pos + 1, n)) = n - pos
      /\ \A j \in 1 .. n - pos : SubSeq(line, pos + 1, n)[j] = line[pos + j]
  BY <1>1
<1> DEFINE a == SubSeq(line, 1, pos)
           c == SubSeq(line, pos + 1, n)
<1> HIDE DEF a, c
<1>4. a \in Seq(Chars) /\ Len(a) = pos /\ \A j \in 1 .. pos : a[j] = line[j]
  BY <1>2 DEF a
<1>5. c \in Seq(Chars) /\ Len(c) = n - pos
      /\ \A j \in 1 .. n - pos : c[j] = line[pos + j]
  BY <1>3 DEF c
<1>6. /\ a \o chars \in Seq(Chars) /\ Len(a \o chars) = pos + m
      /\ \A j \in 1 .. pos : (a \o chars)[j] = line[j]
      /\ \A j \in pos + 1 .. pos + m : (a \o chars)[j] = chars[j - pos]
  BY <1>1, <1>4
<1> DEFINE d == a \o chars
<1> HIDE DEF d
<1>7. /\ d \o c \in Seq(Chars) /\ Len(d \o c) = n + m
      /\ \A j \in 1 .. pos + m : (d \o c)[j] = d[j]
      /\ \A j \in pos + m + 1 .. n + m : (d \o c)[j] = c[j - (pos + m)]
  <2>1. d \in Seq(Chars) /\ Len(d) = pos + m
    BY <1>6 DEF d
  <2>2. /\ d \o c \in Seq(Chars) /\ Len(d \o c) = Len(d) + Len(c)
        /\ \A j \in 1 .. Len(d) + Len(c) :
              (d \o c)[j] = IF j <= Len(d) THEN d[j] ELSE c[j - Len(d)]
    BY <1>5, <2>1, ConcatProperties
  <2>3. Len(c) = n - pos
    BY <1>5
  <2> HIDE DEF n, m
  <2>4. Len(d) + Len(c) = n + m
    BY <1>1, <2>1, <2>3
  <2>5. \A j \in 1 .. n + m :
         (d \o c)[j] = IF j <= pos + m THEN d[j] ELSE c[j - (pos + m)]
    BY <2>1, <2>2, <2>4
  <2>6. ASSUME NEW j \in 1 .. pos + m
        PROVE  (d \o c)[j] = d[j]
    <3>1. j \in 1 .. n + m /\ j <= pos + m
      BY <1>1, <2>6
    <3> QED
      BY <3>1, <2>5
  <2>7. ASSUME NEW j \in pos + m + 1 .. n + m
        PROVE  (d \o c)[j] = c[j - (pos + m)]
    <3>1. j \in 1 .. n + m /\ ~(j <= pos + m)
      BY <1>1, <2>7
    <3> QED
      BY <3>1, <2>5
  <2>8. d \o c \in Seq(Chars) /\ Len(d \o c) = n + m
    BY <2>2, <2>4
  <2> QED
    BY <2>6, <2>7, <2>8, Zenon
<1>8. new = d \o c
  BY DEF a, c, d
<1> HIDE DEF new
<1>9. \A j \in 1 .. n + m :
        new[j] = IF j <= pos THEN line[j]
                 ELSE IF j <= pos + m THEN chars[j - pos] ELSE line[j - m]
  <2> SUFFICES ASSUME NEW j \in 1 .. n + m
               PROVE  new[j] = IF j <= pos THEN line[j]
                 ELSE IF j <= pos + m THEN chars[j - pos] ELSE line[j - m]
    OBVIOUS
  <2> HIDE DEF n, m
  <2>1. CASE j <= pos
    BY <1>1, <1>6, <1>7, <1>8, <2>1 DEF d
  <2>2. CASE j > pos /\ j <= pos + m
    BY <1>1, <1>6, <1>7, <1>8, <2>2 DEF d
  <2>3. CASE j > pos + m
    <3>1. j - (pos + m) \in 1 .. n - pos /\ pos + (j - (pos + m)) = j - m
      BY <1>1, <2>3
    <3>2. new[j] = c[j - (pos + m)]
      <4>1. j \in pos + m + 1 .. n + m
        BY <1>1, <2>3
      <4> QED
        BY <1>7, <1>8, <4>1
    <3>3. ~(j <= pos) /\ ~(j <= pos + m)
      BY <1>1, <2>3
    <3> QED
      BY <1>5, <3>1, <3>2, <3>3
  <2> QED
    BY <1>1, <2>1, <2>2, <2>3
<1>10. new = Spliced(line, pos, chars, m)
  <2>1. new = [j \in 1 .. n + m |-> new[j]]
    <3>1. new \in Seq(Chars) /\ Len(new) = n + m
      BY <1>7, <1>8
    <3> HIDE DEF n, m
    <3> QED
      BY <3>1
  <2> QED
    BY <1>9, <2>1 DEF Spliced
<1>11. Typed(st, chars) = [st EXCEPT !.line = new, !.pos = pos + m]
  BY DEF Typed, new, line, pos
<1>12. new \in Seq(Chars) /\ Len(new) = n + m /\ pos + m \in Nat /\ pos + m <= n + m
  BY <1>1, <1>7, <1>8
<1> QED
  BY <1>10, <1>11, <1>12 DEF IntendedOK, line, pos

LEMMA RemovedAt ==
    ASSUME NEW line \in Seq(Chars), NEW i \in 1 .. Len(line)
    PROVE  /\ RemoveAt(line, i) \in Seq(Chars) /\ Len(RemoveAt(line, i)) = Len(line) - 1
           /\ RemoveAt(line, i) = Without(line, i)
<1> DEFINE n == Len(line)
           a == SubSeq(line, 1, i - 1)
           c == SubSeq(line, i + 1, n)
<1>1. n \in Nat
  OBVIOUS
<1>2. a \in Seq(Chars) /\ Len(a) = i - 1 /\ \A j \in 1 .. i - 1 : a[j] = line[j]
  OBVIOUS
<1>3. c \in Seq(Chars) /\ Len(c) = n - i /\ \A j \in 1 .. n - i : c[j] = line[i + j]
  OBVIOUS
<1>4. RemoveAt(line, i) = a \o c
  BY DEF RemoveAt
<1> HIDE DEF a, c
<1>5. /\ a \o c \in Seq(Chars) /\ Len(a \o c) = n - 1
      /\ \A j \in 1 .. i - 1 : (a \o c)[j] = line[j]
      /\ \A j \in i .. n - 1 : (a \o c)[j] = c[j - (i - 1)]
  <2>1. /\ a \o c \in Seq(Chars) /\ Len(a \o c) = Len(a) + Len(c)
        /\ \A j \in 1 .. Len(a) + Len(c) :
              (a \o c)[j] = IF j <= Len(a) THEN a[j] ELSE c[j - Len(a)]
    BY <1>2, <1>3, ConcatProperties
  <2>2. Len(a) = i - 1 /\ Len(c) = n - i /\ i \in 1 .. n
    BY <1>2, <1>3
  <2> HIDE DEF n
  <2>3. Len(a) + Len(c) = n - 1
    BY <1>1, <2>2
  <2>4. \A j \in 1 .. n - 1 : (a \o c)[j] = IF j <= i - 1 THEN a[j] ELSE c[j - (i - 1)]
    BY <2>1, <2>2, <2>3
  <2> QED
    BY <1>1, <1>2, <2>1, <2>2, <2>3, <2>4
<1>6. \A j \in i .. n - 1 : c[j - (i - 1)] = line[j + 1]
  <2> SUFFICES ASSUME NEW j \in i .. n - 1
               PROVE  c[j - (i - 1)] = line[j + 1]
    OBVIOUS
  <2>1. j - (i - 1) \in 1 .. n - i /\ i + (j - (i - 1)) = j + 1
    BY <1>1
  <2> QED
    BY <1>3, <2>1
<1>7. \A j \in 1 .. n - 1 : (a \o c)[j] = IF j < i THEN line[j] ELSE line[j + 1]
  BY <1>1, <1>5, <1>6
<1>8. a \o c = [j \in 1 .. n - 1 |-> (a \o c)[j]]
  <2> DEFINE d == a \o c
  <2>1. d \in Seq(Chars) /\ Len(d) = n - 1
    BY <1>5
  <2> HIDE DEF d, n
  <2>2. d = [j \in 1 .. n - 1 |-> d[j]]
    BY <2>1
  <2> QED
    BY <2>2 DEF d
<1> QED
  BY <1>4, <1>5, <1>7, <1>8 DEF Without

LEMMA Edits ==
    ASSUME NEW st, IntendedOK(st), NEW key
    PROVE  /\ key \in {"enter", "nul", "ff", "AltFF", "Escape"}
                => Meant(st, key) = Ending(st)
           /\ key = "ctrl_c" => Meant(st, key) = [st EXCEPT !.outcome = "none"]
           /\ key = "ctrl_d" => Meant(st, key) =
                IF st.line = <<>> THEN [st EXCEPT !.outcome = "none"] ELSE st
           /\ key \in Chars \cup DOMAIN Wide
                => Meant(st, key) = Typed(st, KeyBytes(key))
           /\ key = "backspace" => Meant(st, key) =
                IF st.pos > 0
                THEN [st EXCEPT !.line = RemoveAt(@, st.pos), !.pos = @ - 1] ELSE st
           /\ key = "Delete" => Meant(st, key) =
                IF st.pos < Len(st.line)
                THEN [st EXCEPT !.line = RemoveAt(@, st.pos + 1)] ELSE st
           /\ key \in {"Up", "Home"} => Meant(st, key) = [st EXCEPT !.pos = 0]
           /\ key \in {"Down", "End"}
                => Meant(st, key) = [st EXCEPT !.pos = Len(st.line)]
           /\ key = "Right" => Meant(st, key) =
                IF st.pos < Len(st.line) THEN [st EXCEPT !.pos = @ + 1] ELSE st
           /\ key = "Left" => Meant(st, key) =
                IF st.pos > 0 THEN [st EXCEPT !.pos = @ - 1] ELSE st
           /\ key \in {"tab", "fs", "AltX", "AltEnter"} => Meant(st, key) = st
           /\ key \in {"F1", "AltUp", "PgUp", "ShiftDelete", "CtrlLeft"}
                => Meant(st, key) = st
<1> DEFINE Text == Chars \cup DOMAIN Wide
<1>1. \A k \in {"enter", "nul", "ff", "ctrl_c", "ctrl_d", "backspace",
                    "tab", "fs", "esc"} : k \notin Text
  BY ControlNames
<1>2. \A k \in DOMAIN Sequences : k \notin Text
  BY ControlNames
<1>3. "AltFF" \notin Text /\ "Escape" \notin Text /\ "Delete" \notin Text
      /\ "Up" \notin Text /\ "Home" \notin Text /\ "Down" \notin Text
      /\ "End" \notin Text
  BY <1>2 DEF Sequences
<1>4. "Right" \notin Text /\ "Left" \notin Text /\ "F1" \notin Text
      /\ "AltX" \notin Text
      /\ "AltEnter" \notin Text /\ "AltUp" \notin Text /\ "PgUp" \notin Text
      /\ "ShiftDelete" \notin Text /\ "CtrlLeft" \notin Text
  BY <1>2 DEF Sequences
<1> HIDE DEF Text
<1>5. CASE key \in {"enter", "nul", "ff", "AltFF", "Escape"}
  BY <1>1, <1>3, <1>5 DEF Meant, Text
<1>6. CASE key \in {"ctrl_c", "ctrl_d"}
  BY <1>1, <1>6 DEF Meant, Text
<1>7. CASE key \in Text
  BY <1>1, <1>3, <1>4, <1>7 DEF Meant, Text
<1>8. CASE key \in {"backspace", "Delete"}
  BY <1>1, <1>3, <1>8 DEF Meant, Text
<1>9. CASE key \in {"Up", "Home", "Down", "End"}
  BY <1>3, <1>9 DEF Meant, Text
<1>10. CASE key \in {"Right", "Left"}
  BY <1>4, <1>10 DEF Meant, Text
<1>11. CASE key \in {"tab", "fs", "AltX", "AltEnter"}
  BY <1>1, <1>4, <1>11 DEF Meant, Text
<1>12. CASE key \in {"F1", "AltUp", "PgUp", "ShiftDelete", "CtrlLeft"}
  BY <1>4, <1>12 DEF Meant, Text
<1> QED
  BY <1>5, <1>6, <1>7, <1>8, <1>9, <1>10, <1>11, <1>12 DEF Text

-----------------------------------------------------------------------------
(* The invariant.  The line in the buffer is the one that is meant ...     *)
Synced == Buffer!Text(size) = intended.line /\ cursor = intended.pos

(* ... before the prompt and between two keys, ...                         *)
Flushing == dec = "flush" /\ Synced /\ Live(intended)

AtKey ==
    /\ dec = "key" /\ Synced /\ Live(intended)
    /\ input # <<>> => WholeKey(input, 0)

(* ... but for the bytes of a character that is being read, ...            *)
InWide ==
    /\ dec = "key" /\ Live(intended)
    /\ \E key \in Keys \cap DOMAIN Wide : \E p \in 1 .. KeyLen(key) - 1 :
         /\ Queued(input, 0, key, p)
         /\ Buffer!Text(size) = Spliced(intended.line, intended.pos, Wide[key], p)
         /\ cursor = intended.pos + p

(* ... inside an escape sequence, where the decoder is on the path of the  *)
(* key whose other bytes come next, and behind a lone escape byte, which   *)
(* ends the prompt.                                                        *)
InSequence ==
    /\ Synced /\ Live(intended)
    /\ \E key \in Keys \cap DOMAIN Sequences : \E p \in 1 .. KeyLen(key) - 1 :
         Queued(input, 0, key, p) /\ dec = Path[key][p]

AfterEscape ==
    /\ dec = "esc" /\ input = <<>> /\ Synced /\ intended.swallow = "no"
    /\ intended.outcome = Ending(intended).outcome

(* The keys for which the decoder reads a sequence that does not come: in  *)
(* such a key, and behind it, between two of the keys that are swallowed   *)
(* or inside one of them.                                                  *)
InUnknown ==
    /\ Synced /\ Live(intended)
    /\ \E key \in Keys \cap DOMAIN Unknown : \E p \in 1 .. KeyLen(key) - 1 :
         Queued(input, 0, key, p) /\ dec = IF p = 1 THEN "esc" ELSE "skip"

Inside == dec = "skip" /\ \E key \in Keys : \E p \in 1 .. KeyLen(key) - 1 :
                              Queued(input, 0, key, p)

Swallowing ==
    /\ Synced /\ intended.outcome = "typing"
    /\ intended.swallow \in {"csi", "delete", "skip"}
    /\ \/ dec = intended.swallow /\ (input # <<>> => WholeKey(input, 0))
       \/ Inside

Ended ==
    /\ outcome # "typing" /\ outcome = intended.outcome /\ intended.swallow = "no"
    /\ outcome = "accepted" =>
          Buffer!Text(size - 1) = intended.line /\ WellFormed(intended.line)

DecoderInv ==
    \/ Ended
    \/ outcome = "typing" /\ (Flushing \/ AtKey \/ InWide \/ InSequence \/ AfterEscape)
    \/ outcome = "typing" /\ (InUnknown \/ Swallowing)

IInv ==
    /\ Buffer!IInv
    /\ QueueOK(input)
    /\ IntendedOK(intended)
    /\ dec \in {"flush", "key", "esc", "csi", "delete", "skip"}
    /\ pressed \in 0 .. MaxKeys /\ hung_up \in BOOLEAN
    /\ DecoderInv

-----------------------------------------------------------------------------
LEMMA EndingOK ==
    ASSUME NEW st, IntendedOK(st)
    PROVE  /\ IntendedOK(Ending(st)) /\ Ending(st).line = st.line
           /\ Ending(st).pos = st.pos /\ Ending(st).swallow = st.swallow
           /\ Ending(st).outcome = IF WellFormed(st.line) THEN "accepted" ELSE "none"
           /\ Ending(Ending(st)).outcome = Ending(st).outcome
BY DEF IntendedOK, Ending

(* The end of the prompt gives the line that is meant, or none.            *)
LEMMA Finishes ==
    ASSUME Buffer!IInv, IntendedOK(intended), Synced, Finish
    PROVE  /\ Buffer!IInv' /\ outcome' = Ending(intended).outcome
           /\ outcome' # "typing"
           /\ outcome' = "accepted" => /\ Buffer!Text(size - 1)' = intended.line
                                       /\ WellFormed(intended.line)
<1>1. intended.line \in Seq(Chars) /\ Buffer!Text(size) = intended.line
  BY DEF IntendedOK, Synced
<1>2. string_from_bytes(Bytes(Buffer!Text(size))).len = INVALID_SIZE
        <=> ~WellFormed(intended.line)
  BY <1>1, RefusesBadLines
<1>3. CASE WellFormed(intended.line)
  <2>1. Buffer!Submit
    BY <1>2, <1>3 DEF Finish
  <2>2. outcome' = "accepted"
    BY <2>1 DEF Buffer!Submit
  <2> QED
    BY <1>1, <1>3, <2>1, <2>2, BufferSubmit, BufferStep, EndingOK
<1>4. CASE ~WellFormed(intended.line)
  <2>1. Buffer!NoOutput
    BY <1>2, <1>4 DEF Finish
  <2>2. outcome' = "none"
    BY <2>1 DEF Buffer!NoOutput
  <2> QED
    BY <1>4, <2>1, <2>2, BufferStep, EndingOK
<1> QED
  BY <1>3, <1>4

(* Byte p + 1 of a character joins the p bytes before it.                  *)
LEMMA Inserts ==
    ASSUME Buffer!IInv, NEW line \in Seq(Chars), NEW pos \in 0 .. Len(line),
           NEW chars \in Seq(Chars), NEW p \in 0 .. Len(chars) - 1,
           Buffer!Text(size) = Spliced(line, pos, chars, p), cursor = pos + p,
           Buffer!Insert(chars[p + 1])
    PROVE  /\ Buffer!IInv' /\ outcome' = "typing"
           /\ Buffer!Text(size)' = Spliced(line, pos, chars, p + 1)
           /\ cursor' = pos + (p + 1)
<1> DEFINE n == Len(line)
           ch == chars[p + 1]
           text == Buffer!Text(size)
<1>1. n \in Nat /\ p \in Nat /\ ch \in Chars /\ pos \in 0 .. n
  OBVIOUS
<1>2. size = n + p
  <2>1. Len(Spliced(line, pos, chars, p)) = n + p
    BY <1>1 DEF Spliced
  <2> QED
    BY <2>1, BufferLine
<1>3. \A j \in 1 .. n + p : text[j] = IF j <= pos THEN line[j]
                            ELSE IF j <= pos + p THEN chars[j - pos] ELSE line[j - p]
  BY DEF Spliced
<1>4. /\ outcome' = "typing" /\ cursor' = cursor + 1
      /\ Buffer!Text(size)' =
           [j \in 1 .. size + 1 |-> IF j <= cursor THEN text[j]
                                    ELSE IF j = cursor + 1 THEN ch ELSE text[j - 1]]
  BY <1>1, BufferInsert
<1> HIDE DEF n, text
<1>5. ASSUME NEW j \in 1 .. n + (p + 1)
      PROVE  (IF j <= cursor THEN text[j]
              ELSE IF j = cursor + 1 THEN ch ELSE text[j - 1])
               = IF j <= pos THEN line[j]
                 ELSE IF j <= pos + (p + 1) THEN chars[j - pos] ELSE line[j - (p + 1)]
  <2>1. CASE j <= pos
    BY <1>1, <1>3, <2>1
  <2>2. CASE j > pos /\ j <= pos + p
    BY <1>1, <1>3, <2>2
  <2>3. CASE j = (pos + p) + 1
    <3>1. j - pos = p + 1 /\ ~(j <= pos) /\ j <= pos + (p + 1) /\ ~(j <= cursor)
          /\ j = cursor + 1
      BY <1>1, <2>3
    <3> QED
      BY <3>1
  <2>4. CASE j > (pos + p) + 1
    <3>1. /\ j - 1 \in 1 .. n + p /\ ~(j - 1 <= pos) /\ ~(j - 1 <= pos + p)
          /\ (j - 1) - p = j - (p + 1)
          /\ ~(j <= pos) /\ ~(j <= pos + (p + 1)) /\ ~(j <= cursor) /\ j # cursor + 1
      BY <1>1, <2>4
    <3> QED
      BY <1>3, <3>1
  <2> QED
    BY <1>1, <2>1, <2>2, <2>3, <2>4
<1>6. (n + p) + 1 = n + (p + 1)
  BY <1>1
<1>7. Buffer!Text(size)' = Spliced(line, pos, chars, p + 1)
  BY <1>2, <1>4, <1>5, <1>6 DEF Spliced, n
<1>8. cursor' = pos + (p + 1)
  BY <1>1, <1>4
<1>9. Buffer!IInv'
  BY <1>1, BufferStep
<1> QED
  BY <1>4, <1>7, <1>8, <1>9

LEMMA SplicedNone ==
    ASSUME NEW line \in Seq(Chars), NEW pos \in 0 .. Len(line), NEW chars
    PROVE  Spliced(line, pos, chars, 0) = line
<1>1. Len(line) + 0 = Len(line) /\ Len(line) \in Nat
      /\ line = [j \in 1 .. Len(line) |-> line[j]]
  OBVIOUS
<1>2. \A j \in 1 .. Len(line) : (IF j <= pos THEN line[j]
                ELSE IF j <= pos + 0 THEN chars[j - pos] ELSE line[j - 0]) = line[j]
  BY <1>1
<1> QED
  BY <1>1, <1>2 DEF Spliced

(* A key that edits the line does to the buffer what it means.             *)
LEMMA EditsAgree ==
    ASSUME Buffer!IInv, NEW st, IntendedOK(st), Live(st), outcome = "typing",
           Buffer!Text(size) = st.line, cursor = st.pos, NEW key,
           intended' = Meant(st, key),
           \/ key = "backspace" /\ IF cursor = 0 THEN cursor_bell ELSE Buffer!Backspace
           \/ key = "Delete" /\ IF cursor = size THEN cursor_bell ELSE Buffer!Delete
           \/ key \in {"Up", "Home"} /\ Buffer!MoveTo(0)
           \/ key \in {"Down", "End"} /\ Buffer!MoveTo(size)
           \/ key = "Right" /\ IF cursor < size THEN Buffer!MoveTo(cursor + 1)
                                                ELSE cursor_bell
           \/ key = "Left" /\ IF cursor > 0 THEN Buffer!MoveTo(cursor - 1)
              ELSE cursor_bell
           \/ key \in {"tab", "fs", "AltX", "AltEnter"} /\ UNCHANGED bufferVars
           \/ key \in {"F1", "AltUp", "PgUp", "ShiftDelete", "CtrlLeft"}
              /\ UNCHANGED bufferVars
           \/ key = "ctrl_d" /\ size # 0 /\ UNCHANGED bufferVars
    PROVE  /\ Buffer!IInv' /\ IntendedOK(intended') /\ Synced'
           /\ Live(intended') /\ outcome' = "typing"
<1> DEFINE line == st.line
           pos == st.pos
<1>1. /\ line \in Seq(Chars) /\ pos \in 0 .. Len(line) /\ size = Len(line)
      /\ cursor = pos
      /\ Buffer!Text(size) = line /\ size \in Nat
      /\ st \in [line : Seq(Chars), pos : Nat,
                      outcome : {"typing", "accepted", "none"},
                            swallow : {"no", "csi", "delete", "skip"}]
  BY BufferLine DEF IntendedOK
<1>2. ASSUME intended' = st, UNCHANGED bufferVars
      PROVE  /\ Buffer!IInv' /\ IntendedOK(intended') /\ Synced'
             /\ Live(intended') /\ outcome' = "typing"
  <2>1. Buffer!IInv'
    BY <1>2, BufferStep
  <2>2. Buffer!Text(size)' = Buffer!Text(size) /\ cursor' = cursor /\ outcome' = outcome
    BY <1>2 DEF bufferVars, Buffer!Text
  <2>3. IntendedOK(intended')
    BY <1>2
  <2> QED
    BY <1>2, <2>1, <2>2, <2>3 DEF Synced
<1>3. ASSUME NEW c \in 0 .. size, Buffer!MoveTo(c),
                 intended' = [st EXCEPT !.pos = c],
             Buffer!IInv'
      PROVE  /\ Buffer!IInv' /\ IntendedOK(intended') /\ Synced'
             /\ Live(intended') /\ outcome' = "typing"
  <2>1. Buffer!Text(size)' = Buffer!Text(size) /\ cursor' = c /\ outcome' = "typing"
    BY <1>3 DEF Buffer!MoveTo, Buffer!Typing, Buffer!Text
  <2>2. IntendedOK(intended') /\ intended'.line = line /\ intended'.pos = c
        /\ Live(intended')
    BY <1>1, <1>3 DEF IntendedOK, Live
  <2> QED
    BY <1>1, <1>3, <2>1, <2>2 DEF Synced
<1>4. ASSUME NEW i \in 1 .. size, Buffer!IInv', outcome' = "typing",
             passwd' = Buffer!Removed(i - 1), size' = size - 1,
             \/ cursor' = pos /\ intended' = [st EXCEPT !.line = RemoveAt(@, i)]
                /\ pos < i
             \/ /\ cursor' = pos - 1 /\ pos = i
                /\ intended' = [st EXCEPT !.line = RemoveAt(@, i), !.pos = @ - 1]
      PROVE  /\ Buffer!IInv' /\ IntendedOK(intended') /\ Synced'
             /\ Live(intended') /\ outcome' = "typing"
  <2>1. /\ RemoveAt(line, i) \in Seq(Chars) /\ Len(RemoveAt(line, i)) = size - 1
        /\ RemoveAt(line, i) = Without(line, i)
    BY <1>1, RemovedAt
  <2>2. Buffer!Text(size)' = Without(line, i)
    <3>1. i - 1 \in 0 .. size - 1 /\ size > 0 /\ (i - 1) + 1 = i
      BY <1>1
    <3>2. Buffer!Text(size)' =
             [j \in 1 .. size - 1 |-> IF j < (i - 1) + 1 THEN Buffer!Text(size)[j]
                                      ELSE Buffer!Text(size)[j + 1]]
      BY <1>4, <3>1, BufferRemove
    <3> QED
      BY <1>1, <3>1, <3>2 DEF Without
  <2>3. /\ IntendedOK(intended') /\ intended'.line = RemoveAt(line, i)
        /\ intended'.pos = cursor' /\ Live(intended')
    <3>1. /\ intended'.line = RemoveAt(line, i) /\ intended'.pos = cursor'
          /\ Live(intended')
          /\ intended' \in [line : Seq(Chars), pos : Nat,
                            outcome : {"typing", "accepted", "none"},
                            swallow : {"no", "csi", "delete", "skip"}]
      <4>1. CASE /\ cursor' = pos /\ pos < i
                 /\ intended' = [st EXCEPT !.line = RemoveAt(@, i)]
        BY <1>1, <2>1, <4>1 DEF Live
      <4>2. CASE /\ cursor' = pos - 1 /\ pos = i
                 /\ intended' = [st EXCEPT !.line = RemoveAt(@, i), !.pos = @ - 1]
        <5>1. pos - 1 \in Nat
          BY <1>1, <4>2
        <5> QED
          BY <1>1, <2>1, <4>2, <5>1 DEF Live
      <4> QED
        BY <1>4, <4>1, <4>2
    <3>2. cursor' <= size - 1
      BY <1>1, <1>4
    <3> QED
      BY <2>1, <3>1, <3>2 DEF IntendedOK
  <2> QED
    BY <1>4, <2>1, <2>2, <2>3 DEF Synced
<1>5. CASE key = "backspace" /\ IF cursor = 0 THEN cursor_bell ELSE Buffer!Backspace
  <2>1. intended' = IF pos > 0
        THEN [st EXCEPT !.line = RemoveAt(@, pos), !.pos = @ - 1]
                    ELSE st
    BY <1>5, Edits
  <2>2. CASE cursor = 0
    BY <1>1, <1>2, <1>5, <2>1, <2>2 DEF cursor_bell
  <2>3. CASE cursor # 0
    <3>1. Buffer!Backspace /\ pos > 0 /\ pos \in 1 .. size
      BY <1>1, <1>5, <2>3
    <3>2. /\ outcome' = "typing" /\ passwd' = Buffer!Removed(pos - 1)
          /\ size' = size - 1
          /\ cursor' = pos - 1
      BY <1>1, <3>1 DEF Buffer!Backspace, Buffer!Typing
    <3>3. Buffer!IInv'
      BY <3>1, BufferStep
    <3> HIDE DEF pos
    <3> QED
      BY <1>4, <2>1, <3>1, <3>2, <3>3 DEF pos
  <2> QED
    BY <2>2, <2>3
<1>6. CASE key = "Delete" /\ IF cursor = size THEN cursor_bell ELSE Buffer!Delete
  <2>1. intended' = IF pos < Len(line)
        THEN [st EXCEPT !.line = RemoveAt(@, pos + 1)]
                    ELSE st
    BY <1>6, Edits
  <2>2. CASE cursor = size
    BY <1>1, <1>2, <1>6, <2>1, <2>2 DEF cursor_bell
  <2>3. CASE cursor # size
    <3>1. Buffer!Delete /\ pos < Len(line) /\ pos + 1 \in 1 .. size
          /\ (pos + 1) - 1 = pos
      BY <1>1, <1>6, <2>3
    <3>2. /\ outcome' = "typing" /\ passwd' = Buffer!Removed(pos) /\ size' = size - 1
          /\ cursor' = pos
      BY <1>1, <3>1 DEF Buffer!Delete, Buffer!Typing
    <3>3. Buffer!IInv'
      BY <3>1, BufferStep
    <3>4. pos < pos + 1
      BY <1>1
    <3> QED
      BY <1>4, <2>1, <3>1, <3>2, <3>3, <3>4
  <2> QED
    BY <2>2, <2>3
<1>7. CASE key \in {"Up", "Home"} /\ Buffer!MoveTo(0)
  <2>1. intended' = [st EXCEPT !.pos = 0]
    BY <1>7, Edits
  <2>2. 0 \in 0 .. size
    BY <1>1
  <2>3. Buffer!IInv'
    BY <1>7, BufferStep
  <2> QED
    BY <1>3, <1>7, <2>1, <2>2, <2>3
<1>8. CASE key \in {"Down", "End"} /\ Buffer!MoveTo(size)
  <2>1. intended' = [st EXCEPT !.pos = Len(line)]
    BY <1>8, Edits
  <2>2. size \in 0 .. size /\ size = Len(line)
    BY <1>1
  <2>3. Buffer!IInv'
    BY <1>8, BufferStep
  <2> QED
    BY <1>3, <1>8, <2>1, <2>2, <2>3
<1>9. CASE /\ key = "Right"
           /\ IF cursor < size THEN Buffer!MoveTo(cursor + 1) ELSE cursor_bell
  <2>1. intended' = IF pos < Len(line) THEN [st EXCEPT !.pos = @ + 1]
                                          ELSE st
    BY <1>9, Edits
  <2>2. CASE cursor < size
    <3>1. cursor + 1 \in 0 .. size /\ Buffer!MoveTo(cursor + 1)
          /\ intended' = [st EXCEPT !.pos = cursor + 1]
      BY <1>1, <1>9, <2>1, <2>2
    <3> QED
      BY <1>3, <2>2, <3>1, BufferStep
  <2>3. CASE ~(cursor < size)
    BY <1>1, <1>2, <1>9, <2>1, <2>3 DEF cursor_bell
  <2> QED
    BY <2>2, <2>3
<1>10. CASE /\ key = "Left"
            /\ IF cursor > 0 THEN Buffer!MoveTo(cursor - 1) ELSE cursor_bell
  <2>1. intended' = IF pos > 0 THEN [st EXCEPT !.pos = @ - 1] ELSE st
    BY <1>10, Edits
  <2>2. CASE cursor > 0
    <3>1. cursor - 1 \in 0 .. size /\ Buffer!MoveTo(cursor - 1)
          /\ intended' = [st EXCEPT !.pos = cursor - 1]
      BY <1>1, <1>10, <2>1, <2>2
    <3> QED
      BY <1>3, <2>2, <3>1, BufferStep
  <2>3. CASE ~(cursor > 0)
    BY <1>1, <1>2, <1>10, <2>1, <2>3 DEF cursor_bell
  <2> QED
    BY <2>2, <2>3
<1>11. CASE \/ key \in {"tab", "fs", "AltX", "AltEnter"} /\ UNCHANGED bufferVars
            \/ key \in {"F1", "AltUp", "PgUp", "ShiftDelete", "CtrlLeft"}
               /\ UNCHANGED bufferVars
  BY <1>2, <1>11, Edits
<1>12. CASE key = "ctrl_d" /\ size # 0 /\ UNCHANGED bufferVars
  <2>1. intended' = IF line = <<>> THEN [st EXCEPT !.outcome = "none"]
        ELSE st
    BY <1>12, Edits
  <2>2. line # <<>>
    BY <1>1, <1>12
  <2> QED
    BY <1>2, <1>12, <2>1, <2>2
<1> QED
  BY <1>5, <1>6, <1>7, <1>8, <1>9, <1>10, <1>11, <1>12

(* A key that gives up the password ends the prompt without one.           *)
LEMMA EndsAgree ==
    ASSUME Buffer!IInv, IntendedOK(intended), Buffer!NoOutput, Live(intended),
           intended' = [intended EXCEPT !.outcome = "none"]
    PROVE  Buffer!IInv' /\ IntendedOK(intended') /\ Ended'
<1>1. outcome' = "none"
  BY DEF Buffer!NoOutput
<1>2. IntendedOK(intended') /\ intended'.outcome = "none" /\ intended'.swallow = "no"
  BY DEF IntendedOK, Live
<1>3. Buffer!IInv'
  BY BufferStep
<1> QED
  BY <1>1, <1>2, <1>3 DEF Ended

(* And one that ends it, as the end of the input does, gives the line.     *)
LEMMA FinishAgrees ==
    ASSUME Buffer!IInv, IntendedOK(intended), Synced, Finish, intended.swallow = "no",
           \/ intended' = Ending(intended)
           \/ intended' = intended /\ intended.outcome = Ending(intended).outcome
    PROVE  Buffer!IInv' /\ IntendedOK(intended') /\ Ended'
<1>1. IntendedOK(intended') /\ intended'.line = intended.line
      /\ intended'.outcome = Ending(intended).outcome /\ intended'.swallow = "no"
  BY EndingOK
<1> QED
  BY <1>1, Finishes DEF Ended

-----------------------------------------------------------------------------
(* The steps.  Inside an escape sequence the next byte is the key's.       *)
LEMMA SequenceState ==
    ASSUME NEW key \in DOMAIN Sequences, NEW p \in 1 .. KeyLen(key) - 1
    PROVE  /\ p \in 1 .. Len(Sequences[key]) /\ Decodes(key, p)
           /\ p + 1 = KeyLen(key) <=> p = Len(Sequences[key])
           /\ p + 1 # KeyLen(key) => p + 1 \in 1 .. KeyLen(key) - 1
           /\ KeyBytes(key)[p + 1] = Sequences[key][p]
           /\ Path[key][p] \in {"esc", "csi", "delete", "skip"}
<1> DEFINE n == Len(Sequences[key])
           m == KeyLen(key)
<1>1. m = n + 1 /\ n \in 0 .. 5 /\ m \in 1 .. 6
  BY SequencesAre, EscapeBytes
<1>2. KeyBytes(key)[p + 1] = Sequences[key][p]
  BY EscapeBytes
<1>3. p \in 1 .. n /\ (p + 1 = m <=> p = n) /\ (p + 1 # m => p + 1 \in 1 .. m - 1)
  <2>1. p \in 1 .. m - 1
    OBVIOUS
  <2> HIDE DEF n, m
  <2> QED
    BY <1>1, <2>1
<1>4. Decodes(key, p)
  BY <1>3, KeyPath
<1>5. Path[key][p] \in {"esc", "csi", "delete", "skip"}
  BY <1>4 DEF Decodes
<1> QED
  BY <1>2, <1>3, <1>4, <1>5

(* While no key is swallowed, a key means what it says ...                 *)
LEMMA MeantOnly ==
    ASSUME NEW st, st.swallow = "no", NEW key, key \notin DOMAIN Unknown
    PROVE  Edited(st, key) = Meant(st, key)
<1>1. "AltBracket" \in DOMAIN Unknown
  BY DEF Unknown
<1> QED
  BY <1>1 DEF Edited

(* ... and the end of the input ends the prompt.                           *)
LEMMA EndsAwake ==
    ASSUME NEW st, st.swallow = "no"
    PROVE  HungUp(st) = Ending(st)
BY DEF HungUp

(* getchar takes byte p + 1 of key, which is its last or not.              *)
Takes(key, p, b) ==
    /\ Decodes(key, p) /\ dec = Path[key][p] /\ b = Sequences[key][p]
    /\ QueueOK(input')
    /\ IF p = Len(Sequences[key])
       THEN intended' = Meant(intended, key) /\ (input' # <<>> => WholeKey(input', 0))
       ELSE /\ p + 1 \in 1 .. KeyLen(key) - 1
            /\ intended' = intended /\ Queued(input', 0, key, p + 1)

LEMMA SequenceRead ==
    ASSUME QueueOK(input), InSequence, NEW b, getchar(b)
    PROVE  \E key \in Keys \cap DOMAIN Sequences :
               \E p \in 1 .. KeyLen(key) - 1 : Takes(key, p, b)
<1>0. PICK key \in Keys \cap DOMAIN Sequences : \E p \in 1 .. KeyLen(key) - 1 :
        Queued(input, 0, key, p) /\ dec = Path[key][p]
  BY DEF InSequence
<1>1. PICK p \in 1 .. KeyLen(key) - 1 : Queued(input, 0, key, p) /\ dec = Path[key][p]
  BY <1>0
<1>2. input \in Seq(Pieces) /\ KeyLen(key) \in 1 .. 6 /\ p \in 0 .. KeyLen(key) - 1
      /\ key # "none" /\ key \in Keys /\ key \in DOMAIN Sequences
  <2>1. input \in Seq(Pieces) /\ key \in Keys /\ key \in DOMAIN Sequences
    BY DEF QueueOK
  <2>2. KeyLen(key) \in 1 .. 6 /\ key # "none"
    BY <2>1, TaggedKey
  <2> QED
    BY <2>1, <2>2
<1>3. /\ input # <<>> /\ Head(input).byte = KeyBytes(key)[p + 1]
      /\ Head(input).key = IF p + 1 = KeyLen(key) THEN key ELSE "none"
      /\ p + 1 # KeyLen(key) => Queued(Tail(input), 0, key, p + 1)
  BY <1>1, <1>2, QueueHead
<1>4. /\ QueueOK(Tail(input))
      /\ Head(input).key # "none" /\ Tail(input) # <<>> => WholeKey(Tail(input), 0)
  BY <1>3, QueueTail
<1>5. /\ Decodes(key, p) /\ KeyBytes(key)[p + 1] = Sequences[key][p]
      /\ p + 1 = KeyLen(key) <=> p = Len(Sequences[key])
      /\ p + 1 # KeyLen(key) => p + 1 \in 1 .. KeyLen(key) - 1
      /\ Path[key][p] # "flush"
  BY <1>2, SequenceState
<1>6. /\ b = Head(input).byte /\ input' = Tail(input)
      /\ intended' = IF Head(input).key = "none" THEN intended
                     ELSE Edited(intended, Head(input).key)
  BY <1>1, <1>3, <1>5 DEF getchar
<1>7. CASE p = Len(Sequences[key])
  <2>1. Head(input).key = key /\ key # "none"
    BY <1>2, <1>3, <1>5, <1>7
  <2>2. intended' = Meant(intended, key)
    <3>1. key \notin DOMAIN Unknown
      BY <1>2, ControlNames
    <3>2. Edited(intended, key) = Meant(intended, key)
      BY <3>1, MeantOnly DEF InSequence, Live
    <3> QED
      BY <1>6, <2>1, <3>2
  <2> QED
    BY <1>1, <1>3, <1>4, <1>5, <1>6, <1>7, <2>1, <2>2 DEF Takes
<1>8. CASE p # Len(Sequences[key])
  <2>1. Head(input).key = "none" /\ Queued(Tail(input), 0, key, p + 1)
    BY <1>3, <1>5, <1>8
  <2> QED
    BY <1>1, <1>3, <1>4, <1>5, <1>6, <1>8, <2>1 DEF Takes
<1> QED
  BY <1>7, <1>8

(* What getchar leaves alone, and the parts of the invariant.              *)
LEMMA Kept ==
    ASSUME IInv, NEW b, getchar(b), Buffer!IInv', QueueOK(input'),
           IntendedOK(intended'),
           dec' \in {"flush", "key", "esc", "csi", "delete", "skip"}, DecoderInv'
    PROVE  IInv'
BY DEF IInv, getchar

LEMMA SequenceGoesOn ==
    ASSUME IInv, InSequence, NEW b, getchar(b), UNCHANGED bufferVars,
           NEW key \in Keys \cap DOMAIN Sequences, NEW p \in 1 .. KeyLen(key) - 1,
           p + 1 \in 1 .. KeyLen(key) - 1, QueueOK(input'),
           intended' = intended, Queued(input', 0, key, p + 1), dec' = Path[key][p + 1]
    PROVE  IInv'
<1>1. Buffer!IInv' /\ outcome' = outcome /\ outcome = "typing"
  BY BufferStep DEF IInv, bufferVars, getchar
<1>2. Synced' /\ Live(intended') /\ IntendedOK(intended')
  <2>1. Buffer!Text(size)' = Buffer!Text(size) /\ cursor' = cursor
    BY DEF bufferVars, Buffer!Text
  <2> QED
    BY <2>1 DEF InSequence, Synced, IInv
<1>3. InSequence'
  BY <1>2 DEF InSequence
<1>4. dec' \in {"esc", "csi", "delete", "skip"}
  BY SequenceState
<1>5. DecoderInv'
  BY <1>1, <1>3 DEF DecoderInv
<1> QED
  BY <1>1, <1>2, <1>4, <1>5, Kept

LEMMA KeyEnds ==
    ASSUME IInv, NEW b, getchar(b), QueueOK(input'),
           input' # <<>> => WholeKey(input', 0),
           dec' = "key", Buffer!IInv', IntendedOK(intended'),
           \/ Synced' /\ Live(intended') /\ outcome' = "typing"
           \/ Ended'
    PROVE  IInv'
<1>1. DecoderInv'
  BY DEF DecoderInv, AtKey
<1> QED
  BY <1>1, Kept

LEMMA InSequenceOK ==
    ASSUME IInv, InSequence, NEW b, getchar(b)
    PROVE  /\ Buffer!IInv /\ IntendedOK(intended) /\ Synced /\ outcome = "typing"
           /\ Live(intended) /\ QueueOK(input)
BY DEF IInv, InSequence, getchar

(* The states in which a part of the decoder can be.                       *)
LEMMA DecoderAt ==
    ASSUME IInv, outcome = "typing"
    PROVE  /\ dec = "flush" => Flushing
           /\ dec = "key" => AtKey \/ InWide
           /\ dec = "esc" => InSequence \/ AfterEscape \/ InUnknown
           /\ dec \in {"csi", "delete"} => InSequence \/ Swallowing
           /\ dec = "skip" => InSequence \/ InUnknown \/ Swallowing
<1>1. InSequence => dec \in {"esc", "csi", "delete", "skip"}
  BY SequenceState DEF InSequence
<1>2. (InUnknown => dec \in {"esc", "skip"})
      /\ (Swallowing => dec \in {"csi", "delete", "skip"})
  BY DEF InUnknown, Swallowing, Inside
<1> QED
  BY <1>1, <1>2 DEF IInv, DecoderInv, Ended, Flushing, AtKey, InWide, AfterEscape

(* Which bytes end a sequence.                                             *)
LEMMA ByteClasses ==
    /\ "x" \in Letters /\ "A" \in Letters /\ "D" \in Letters
    /\ "enter" \in AltControls /\ "enter" \notin Letters
    /\ "[" \notin AltControls \cup Letters \cup AltMarks
    /\ "esc" \notin AltControls \cup Letters \cup AltMarks
    /\ \A b \in {"[", "5", "esc", Semicolon} : b \notin Terminators
BY Zenon DEF Letters, AltControls, AltMarks, Semicolon, Terminators

LEMMA ReadEscapeSequence ==
    ASSUME IInv, InSequence, NEW b, ReadEscape(b)
    PROVE  IInv'
<1>1. dec = "esc" /\ b # "ff" /\ getchar(b) /\ outcome = "typing"
      /\ UNCHANGED bufferVars
  BY DEF ReadEscape, getchar
<1>2. InSequence
  OBVIOUS
<1>3. PICK key \in Keys \cap DOMAIN Sequences :
        \E p \in 1 .. KeyLen(key) - 1 : Takes(key, p, b)
  BY <1>1, <1>2, SequenceRead DEF IInv
<1>4. PICK p \in 1 .. KeyLen(key) - 1 : Takes(key, p, b)
  BY <1>3
<1> USE DEF Takes
<1>5. CASE p = Len(Sequences[key])
  <2>1. \/ key = "AltX" /\ b = "x"
        \/ key = "AltEnter" /\ b = "enter"
    BY <1>1, <1>4, <1>5 DEF Decodes
  <2>2. dec' = "key"
    BY <2>1, ByteClasses, Zenon DEF ReadEscape
  <2>3. /\ Buffer!IInv' /\ IntendedOK(intended') /\ Synced'
        /\ Live(intended') /\ outcome' = "typing"
    <3>1. intended' = Meant(intended, key) /\ key \in {"tab", "fs", "AltX", "AltEnter"}
      BY <1>4, <1>5, <2>1
    <3> QED
      BY <1>1, <1>2, <3>1, InSequenceOK, EditsAgree DEF Synced
  <2> QED
    BY <1>1, <1>4, <1>5, <2>2, <2>3, KeyEnds
<1>6. CASE p # Len(Sequences[key])
  <2>1. \/ b = "[" /\ Path[key][p + 1] = "csi"
        \/ b = "esc" /\ Path[key][p + 1] = "skip"
    BY <1>1, <1>4, <1>6 DEF Decodes
  <2>2. dec' = Path[key][p + 1]
    BY <2>1, ByteClasses, Zenon DEF ReadEscape, _ignore_escape_seq
  <2> QED
    BY <1>1, <1>2, <1>4, <1>6, <2>2, SequenceGoesOn
<1> QED
  BY <1>5, <1>6

LEMMA EscapeKeyStep ==
    ASSUME IInv, EscapeKey
    PROVE  IInv'
<1>1. /\ dec = "esc" /\ dec' = "key" /\ outcome = "typing" /\ Finish
      /\ InSequence \/ AfterEscape \/ InUnknown
  BY DecoderAt DEF EscapeKey, getchar
<1>2. Buffer!IInv /\ IntendedOK(intended) /\ Synced /\ intended.swallow = "no"
  BY <1>1 DEF IInv, InSequence, AfterEscape, InUnknown, Live
<1>3. CASE InSequence
  <2>1. input # <<>>
    <3>1. \A key \in Keys : \A p \in 1 .. KeyLen(key) - 1 : p \in 0 .. KeyLen(key) - 1
      BY TaggedKey
    <3> QED
      BY <1>3, <3>1, QueueHead DEF InSequence, IInv, QueueOK
  <2>2. getchar("ff")
    BY <2>1 DEF EscapeKey
  <2>3. PICK key \in Keys \cap DOMAIN Sequences :
        \E p \in 1 .. KeyLen(key) - 1 : Takes(key, p, "ff")
    BY <1>3, <2>2, SequenceRead DEF IInv
  <2>4. key = "AltFF" /\ intended' = Meant(intended, key) /\ QueueOK(input')
        /\ (input' # <<>> => WholeKey(input', 0))
    BY <1>1, <2>3 DEF Decodes, Takes
  <2>5. intended' = Ending(intended)
    BY <1>2, <2>4, Edits
  <2>6. Buffer!IInv' /\ IntendedOK(intended') /\ Ended'
    BY <1>1, <1>2, <2>5, FinishAgrees
  <2> QED
    BY <1>1, <2>2, <2>4, <2>6, KeyEnds
<1>4. CASE AfterEscape
  <2>1. /\ input = <<>> /\ input' = input
        /\ UNCHANGED <<pressed, hung_up>>
        /\ intended' = intended \/ intended' = Ending(intended)
    BY <1>2, <1>4, EndsAwake DEF AfterEscape, EscapeKey, getchar
  <2>2. Buffer!IInv' /\ IntendedOK(intended') /\ Ended'
    BY <1>1, <1>2, <1>4, <2>1, FinishAgrees DEF AfterEscape
  <2> QED
    BY <1>1, <2>1, <2>2 DEF IInv, DecoderInv
<1>5. CASE InUnknown
  <2>1. PICK key \in Keys \cap DOMAIN Unknown : \E p \in 1 .. KeyLen(key) - 1 :
          Queued(input, 0, key, p) /\ dec = IF p = 1 THEN "esc" ELSE "skip"
    BY <1>5 DEF InUnknown
  <2>2. PICK p \in 1 .. KeyLen(key) - 1 : Queued(input, 0, key, p) /\ p = 1
    BY <1>1, <2>1
  <2>3. input \in Seq(Pieces) /\ 1 \in 0 .. KeyLen(key) - 1
    BY <2>2, TaggedKey DEF IInv, QueueOK
  <2>4. input # <<>> /\ Head(input).byte = KeyBytes(key)[1 + 1]
    BY <2>2, <2>3, QueueHead
  <2>5. KeyBytes(key)[1 + 1] # "ff"
    BY UnknownBytes
  <2> QED
    BY <2>4, <2>5 DEF EscapeKey, getchar
<1> QED
  BY <1>1, <1>3, <1>4, <1>5

LEMMA ReadCSISequence ==
    ASSUME IInv, InSequence, NEW b, ReadCSI(b)
    PROVE  IInv'
<1>1. dec = "csi" /\ getchar(b) /\ outcome = "typing" /\ InSequence
  BY DEF ReadCSI, getchar
<1>2. PICK key \in Keys \cap DOMAIN Sequences :
        \E p \in 1 .. KeyLen(key) - 1 : Takes(key, p, b)
  BY <1>1, SequenceRead DEF IInv
<1>3. PICK p \in 1 .. KeyLen(key) - 1 : Takes(key, p, b)
  BY <1>2
<1> USE DEF Takes
<1>4. CASE p = Len(Sequences[key])
  <2>1. <<key, b>> \in {<<"Up", "A">>, <<"Down", "B">>, <<"Right", "C">>,
                        <<"Left", "D">>, <<"End", "F">>, <<"Home", "H">>}
    BY <1>1, <1>3, <1>4 DEF Decodes
  <2>2. CursorKey(b) /\ dec' = "key"
    BY <2>1 DEF ReadCSI
  <2>3. /\ Buffer!IInv' /\ IntendedOK(intended') /\ Synced'
        /\ Live(intended') /\ outcome' = "typing"
    <3>1. intended' = Meant(intended, key) /\ key \in Keys
      BY <1>3, <1>4
    <3>2. \/ key \in {"Up", "Home"} /\ Buffer!MoveTo(0)
          \/ key \in {"Down", "End"} /\ Buffer!MoveTo(size)
          \/ key = "Right" /\ IF cursor < size THEN Buffer!MoveTo(cursor + 1)
                                               ELSE cursor_bell
          \/ key = "Left" /\ IF cursor > 0 THEN Buffer!MoveTo(cursor - 1)
             ELSE cursor_bell
      BY <2>1, <2>2 DEF CursorKey
    <3> QED
      BY <1>1, <3>1, <3>2, InSequenceOK, EditsAgree DEF Synced
  <2> QED
    BY <1>1, <1>3, <1>4, <2>2, <2>3, KeyEnds
<1>5. CASE p # Len(Sequences[key])
  <2>1. \/ b = "3" /\ Path[key][p + 1] = "delete"
        \/ b \in {"5", "["} /\ Path[key][p + 1] = "skip"
    BY <1>1, <1>3, <1>5 DEF Decodes
  <2>2. b \notin {"A", "B", "C", "D", "F", "H"}
    BY <2>1
  <2>3. ~CursorKey(b)
    BY <2>2 DEF CursorKey
  <2>4. dec' = Path[key][p + 1] /\ UNCHANGED bufferVars
    <3>1. CASE b = "3"
      BY <2>1, <2>3, <3>1 DEF ReadCSI
    <3>2. CASE b \in {"5", "["}
      <4>1. b \notin Terminators
        BY <3>2, ByteClasses, Zenon
      <4>2. Path[key][p + 1] = "skip" /\ b # "3"
        BY <2>1, <3>2
      <4> QED
        BY <2>3, <4>1, <4>2 DEF ReadCSI, _ignore_escape_seq
    <3> QED
      BY <2>1, <3>1, <3>2
  <2> QED
    BY <1>1, <1>3, <1>5, <2>4, SequenceGoesOn
<1> QED
  BY <1>4, <1>5

LEMMA ReadDeleteSequence ==
    ASSUME IInv, InSequence, NEW b, ReadDelete(b)
    PROVE  IInv'
<1>1. dec = "delete" /\ getchar(b) /\ outcome = "typing" /\ InSequence
  BY DEF ReadDelete, getchar
<1>2. PICK key \in Keys \cap DOMAIN Sequences :
        \E p \in 1 .. KeyLen(key) - 1 : Takes(key, p, b)
  BY <1>1, SequenceRead DEF IInv
<1>3. PICK p \in 1 .. KeyLen(key) - 1 : Takes(key, p, b)
  BY <1>2
<1> USE DEF Takes
<1>4. CASE p = Len(Sequences[key])
  <2>1. key = "Delete" /\ b = "~"
    BY <1>1, <1>3, <1>4 DEF Decodes
  <2>2. dec' = "key" /\ IF cursor = size THEN cursor_bell ELSE Buffer!Delete
    BY <2>1 DEF ReadDelete
  <2>3. /\ Buffer!IInv' /\ IntendedOK(intended') /\ Synced'
        /\ Live(intended') /\ outcome' = "typing"
    <3>1. intended' = Meant(intended, key) /\ key \in Keys
      BY <1>3, <1>4
    <3> QED
      BY <1>1, <2>1, <2>2, <3>1, InSequenceOK, EditsAgree DEF Synced
  <2> QED
    BY <1>1, <1>3, <1>4, <2>2, <2>3, KeyEnds
<1>5. CASE p # Len(Sequences[key])
  <2>1. b = Semicolon /\ Path[key][p + 1] = "skip"
    BY <1>1, <1>3, <1>5 DEF Decodes
  <2>2. b \notin Terminators
    BY <2>1, ByteClasses, Zenon DEF Terminators
  <2>3. dec' = Path[key][p + 1] /\ UNCHANGED bufferVars
    BY <2>1, <2>2 DEF ReadDelete, _ignore_escape_seq, Terminators
  <2> QED
    BY <1>1, <1>3, <1>5, <2>3, SequenceGoesOn
<1> QED
  BY <1>4, <1>5

LEMMA SkipSequence ==
    ASSUME IInv, InSequence, NEW b, Skip(b)
    PROVE  IInv'
<1>1. /\ dec = "skip" /\ getchar(b) /\ outcome = "typing" /\ InSequence
      /\ UNCHANGED bufferVars
  BY DEF Skip, getchar
<1>2. PICK key \in Keys \cap DOMAIN Sequences :
        \E p \in 1 .. KeyLen(key) - 1 : Takes(key, p, b)
  BY <1>1, SequenceRead DEF IInv
<1>3. PICK p \in 1 .. KeyLen(key) - 1 : Takes(key, p, b)
  BY <1>2
<1> USE DEF Takes
<1>4. CASE p = Len(Sequences[key])
  <2>1. b \in {"A", "D", "~"}
        /\ key \in {"F1", "AltUp", "PgUp", "ShiftDelete", "CtrlLeft"}
    BY <1>1, <1>3, <1>4 DEF Decodes
  <2>2. b \in Terminators
    BY <2>1, ByteClasses, Zenon DEF Terminators
  <2>3. dec' = "key"
    BY <2>2 DEF Skip, _ignore_escape_seq
  <2>4. /\ Buffer!IInv' /\ IntendedOK(intended') /\ Synced'
        /\ Live(intended') /\ outcome' = "typing"
    <3>1. intended' = Meant(intended, key) /\ key \in Keys
      BY <1>3, <1>4
    <3> QED
      BY <1>1, <2>1, <3>1, InSequenceOK, EditsAgree DEF Synced
  <2> QED
    BY <1>1, <1>3, <1>4, <2>3, <2>4, KeyEnds
<1>5. CASE p # Len(Sequences[key])
  <2>1. b \in {"5", "[", Semicolon} /\ Path[key][p + 1] = "skip"
    BY <1>1, <1>3, <1>5 DEF Decodes
  <2>2. b \notin Terminators
    BY <2>1, ByteClasses, Zenon DEF Terminators
  <2>3. dec' = Path[key][p + 1]
    BY <2>1, <2>2 DEF Skip, _ignore_escape_seq
  <2> QED
    BY <1>1, <1>3, <1>5, <2>3, SequenceGoesOn
<1> QED
  BY <1>4, <1>5

(* The keys that put the decoder to sleep, and what they swallow.          *)
LEMMA KeyRead ==
    ASSUME QueueOK(input), dec # "flush", NEW b, getchar(b), NEW key \in Keys,
           NEW p \in 0 .. KeyLen(key) - 1, Queued(input, 0, key, p)
    PROVE  /\ b = KeyBytes(key)[p + 1] /\ QueueOK(input')
           /\ p + 1 = KeyLen(key) =>
                 /\ intended' = Edited(intended, key)
                 /\ input' # <<>> => WholeKey(input', 0)
           /\ p + 1 # KeyLen(key) =>
                 /\ p + 1 \in 1 .. KeyLen(key) - 1
                 /\ intended' = intended /\ Queued(input', 0, key, p + 1)
<1>1. input \in Seq(Pieces) /\ KeyLen(key) \in 1 .. 6 /\ key # "none"
  BY TaggedKey DEF QueueOK
<1>2. /\ input # <<>> /\ Head(input).byte = KeyBytes(key)[p + 1]
      /\ Head(input).key = IF p + 1 = KeyLen(key) THEN key ELSE "none"
      /\ p + 1 # KeyLen(key) => Queued(Tail(input), 0, key, p + 1)
  BY <1>1, QueueHead
<1>3. /\ QueueOK(Tail(input))
      /\ Head(input).key # "none" /\ Tail(input) # <<>> => WholeKey(Tail(input), 0)
  BY <1>2, QueueTail
<1>4. /\ b = Head(input).byte /\ input' = Tail(input)
      /\ intended' = IF Head(input).key = "none" THEN intended
                     ELSE Edited(intended, Head(input).key)
  BY <1>2 DEF getchar
<1>5. p + 1 # KeyLen(key) => p + 1 \in 1 .. KeyLen(key) - 1
  <2> DEFINE n == KeyLen(key)
  <2>1. n \in 1 .. 6 /\ p \in 0 .. n - 1
    BY <1>1
  <2> HIDE DEF n
  <2>2. p + 1 # n => p + 1 \in 1 .. n - 1
    BY <2>1
  <2> QED
    BY <2>2 DEF n
<1> QED
  BY <1>1, <1>2, <1>3, <1>4, <1>5

(* No byte of a key but the last ends a sequence.                          *)
LEMMA SilentBytes ==
    ASSUME NEW key \in Keys, NEW p \in 1 .. KeyLen(key) - 1
    PROVE  KeyBytes(key)[p] \notin Terminators /\ (p = 1 => KeyBytes(key)[p] # "3")
<1>0. \A b \in {"[", "3", "5", "esc", Semicolon, "lead2", "lead3", "lead4", "cont"} :
         b \notin Terminators
  BY Zenon DEF Terminators, Letters, Semicolon
<1>1. KeyLen(key) \in 1 .. 6
  BY TaggedKey
<1>2. CASE key \in DOMAIN Sequences
  <2>1. CASE p = 1
    BY <1>0, <1>2, <2>1, EscapeBytes
  <2>2. CASE p # 1
    <3> DEFINE q == p - 1
    <3>1. q \in 1 .. KeyLen(key) - 1 /\ q + 1 = p /\ p # KeyLen(key)
      BY <1>1, <2>2
    <3> HIDE DEF q
    <3>2. /\ Decodes(key, q) /\ KeyBytes(key)[q + 1] = Sequences[key][q]
          /\ q # Len(Sequences[key])
      BY <1>2, <3>1, SequenceState
    <3>3. Sequences[key][q] \in {"[", "3", "5", "esc", Semicolon}
      BY <3>2 DEF Decodes
    <3> QED
      BY <1>0, <2>2, <3>1, <3>2, <3>3
  <2> QED
    BY <2>1, <2>2
<1>3. CASE key \in DOMAIN Unknown
  <2>1. p = 1 \/ (KeyLen(key) = 3 /\ p = 2)
    BY <1>3, UnknownBytes
  <2> QED
    BY <1>0, <1>3, <2>1, UnknownBytes
<1>4. CASE key \in DOMAIN Wide
  <2> DEFINE s == Wide[key]
  <2>1. /\ s \in Seq({"lead2", "lead3", "lead4", "cont"}) /\ KeyLen(key) = Len(s)
        /\ KeyBytes(key) = s
    BY <1>4, WideBytes
  <2> HIDE DEF s
  <2>2. s[p] \in {"lead2", "lead3", "lead4", "cont"}
    <3>1. p \in 1 .. Len(s)
      BY <1>1, <2>1
    <3> QED
      BY <2>1, <3>1
  <2> QED
    BY <1>0, <2>1, <2>2
<1>5. CASE /\ key \notin DOMAIN Sequences /\ key \notin DOMAIN Unknown
           /\ key \notin DOMAIN Wide
  BY <1>5, PlainBytes
<1> QED
  BY <1>2, <1>3, <1>4, <1>5

(* The keys that go on with the sequence of a cursor key are single bytes. *)
Letterlike == DOMAIN CursorKeys \cup {"3", "~"}

LEMMA LetterlikeKey ==
    ASSUME NEW key \in Keys
    PROVE  /\ key \in Letterlike => KeyLen(key) = 1 /\ KeyBytes(key)[1] = key
           /\ KeyLen(key) = 1 /\ KeyBytes(key)[1] \in Letterlike
                => key = KeyBytes(key)[1]
<1>0. Letterlike = {"A", "B", "C", "D", "F", "H", "3", "~"}
  BY DEF Letterlike, CursorKeys
<1>1. CASE key \in Letterlike
  <2>1. key \notin DOMAIN Sequences /\ key \notin DOMAIN Unknown /\ key \notin DOMAIN Wide
    BY <1>0, <1>1 DEF Sequences, Unknown, Wide
  <2> QED
    BY <2>1, PlainBytes
<1>2. CASE key \notin Letterlike /\ KeyLen(key) = 1
  <2>1. CASE key \in DOMAIN Sequences
    BY <1>0, <1>2, <2>1, EscapeBytes
  <2>2. CASE key \in DOMAIN Unknown
    BY <1>2, <2>2, UnknownBytes
  <2>3. CASE key \in DOMAIN Wide
    <3>1. KeyBytes(key) = Wide[key] /\ 1 \in 1 .. Len(Wide[key])
          /\ Wide[key] \in Seq({"lead2", "lead3", "lead4", "cont"})
      BY <1>2, <2>3, WideBytes
    <3>2. KeyBytes(key)[1] \in {"lead2", "lead3", "lead4", "cont"}
      BY <3>1
    <3> QED
      BY <1>0, <1>2, <3>2
  <2>4. CASE /\ key \notin DOMAIN Sequences /\ key \notin DOMAIN Unknown
             /\ key \notin DOMAIN Wide
    BY <2>4, PlainBytes
  <2> QED
    BY <1>2, <2>1, <2>2, <2>3, <2>4
<1> QED
  BY <1>1, <1>2

(* What a key means where keys are swallowed.                              *)
Awakened(st) == [st EXCEPT !.swallow = "no"]

Completes(st, key) ==
    \/ st.swallow = "csi" /\ key \in DOMAIN CursorKeys \cup {"3"}
    \/ st.swallow = "delete" /\ key = "~"

LEMMA Swallowed ==
    ASSUME NEW st, st.swallow \in {"csi", "delete", "skip"}, NEW key
    PROVE  /\ st.swallow = "csi" /\ key = "3"
                => Edited(st, key) = [st EXCEPT !.swallow = "delete"]
           /\ st.swallow = "csi" /\ key \in DOMAIN CursorKeys
                => Edited(st, key) = Meant(Awakened(st), CursorKeys[key])
           /\ st.swallow = "delete" /\ key = "~"
                => Edited(st, key) = Meant(Awakened(st), "Delete")
           /\ ~Completes(st, key) =>
                Edited(st, key) = [st EXCEPT !.swallow =
                    IF Last(KeyBytes(key)) \in Terminators THEN "no" ELSE "skip"]
<1>1. "3" \notin DOMAIN CursorKeys
  BY DEF CursorKeys
<1> QED
  BY <1>1 DEF Edited, Awakened, Completes

LEMMA Sleeps ==
    ASSUME NEW st, st.swallow = "no", NEW key \in DOMAIN Unknown
    PROVE  Edited(st, key) = [st EXCEPT !.swallow =
                                 IF key = "AltBracket" THEN "csi" ELSE "skip"]
BY DEF Edited

(* A key that is swallowed, or the last of them, leaves the line alone.    *)
LEMMA SleepsOn ==
    ASSUME IInv, Synced, intended.outcome = "typing", outcome = "typing",
           NEW b, getchar(b), UNCHANGED bufferVars, QueueOK(input'),
           input' # <<>> => WholeKey(input', 0),
           NEW mode \in {"no", "csi", "delete", "skip"},
           intended' = [intended EXCEPT !.swallow = mode],
           dec' = IF mode = "no" THEN "key" ELSE mode
    PROVE  IInv'
<1>1. Buffer!IInv' /\ Buffer!Text(size)' = Buffer!Text(size) /\ cursor' = cursor
      /\ outcome' = "typing"
  BY BufferStep DEF IInv, bufferVars, Buffer!Text
<1>2. /\ IntendedOK(intended') /\ intended'.outcome = "typing"
      /\ intended'.line = intended.line /\ intended'.pos = intended.pos
      /\ intended'.swallow = mode
  BY DEF IInv, IntendedOK
<1>3. Synced'
  BY <1>1, <1>2 DEF Synced
<1>4. CASE mode = "no"
  <2>1. AtKey'
    BY <1>2, <1>3, <1>4 DEF AtKey, Live
  <2> QED
    BY <1>1, <1>2, <1>4, <2>1, Kept DEF DecoderInv
<1>5. CASE mode # "no"
  <2>1. Swallowing'
    BY <1>2, <1>3, <1>5 DEF Swallowing
  <2> QED
    BY <1>1, <1>2, <1>5, <2>1, Kept DEF DecoderInv
<1> QED
  BY <1>4, <1>5

(* The bytes of a key that is swallowed, but for the last.                 *)
LEMMA StaysInside ==
    ASSUME IInv, Swallowing, outcome = "typing", NEW b, getchar(b),
           UNCHANGED bufferVars, QueueOK(input'), intended' = intended, dec' = "skip",
           NEW key \in Keys, NEW p \in 1 .. KeyLen(key) - 1, Queued(input', 0, key, p)
    PROVE  IInv'
<1>1. Buffer!IInv' /\ Buffer!Text(size)' = Buffer!Text(size) /\ cursor' = cursor
      /\ outcome' = "typing"
  BY BufferStep DEF IInv, bufferVars, Buffer!Text
<1>2. Inside'
  BY DEF Inside
<1>3. Swallowing' /\ IntendedOK(intended')
  BY <1>1, <1>2 DEF Swallowing, Synced, IInv
<1> QED
  BY <1>1, <1>3, Kept DEF DecoderInv

(* What a byte does that is neither part of the sequence of a cursor key.  *)
LEMMA Ignores ==
    ASSUME NEW b, ReadCSI(b) \/ ReadDelete(b) \/ Skip(b),
           dec = "csi" => b \notin DOMAIN CursorKeys \cup {"3"},
           dec = "delete" => b # "~"
    PROVE  UNCHANGED bufferVars /\ dec' = IF b \in Terminators THEN "key" ELSE "skip"
<1>1. CASE Skip(b)
  BY <1>1 DEF Skip, _ignore_escape_seq
<1>2. CASE ReadDelete(b)
  BY <1>2 DEF ReadDelete, _ignore_escape_seq
<1>3. CASE ReadCSI(b)
  <2>1. dec = "csi" /\ b \notin {"A", "B", "C", "D", "F", "H", "3"}
    BY <1>3 DEF ReadCSI, CursorKeys
  <2>2. ~CursorKey(b)
    BY <2>1 DEF CursorKey
  <2> QED
    BY <1>3, <2>1, <2>2 DEF ReadCSI, _ignore_escape_seq
<1> QED
  BY <1>1, <1>2, <1>3

LEMMA SwallowStep ==
    ASSUME IInv, Swallowing, NEW b, ReadCSI(b) \/ ReadDelete(b) \/ Skip(b)
    PROVE  IInv'
<1>1. /\ getchar(b) /\ outcome = "typing" /\ QueueOK(input) /\ dec # "flush"
      /\ input \in Seq(Pieces) /\ Synced /\ intended.outcome = "typing"
      /\ intended.swallow \in {"csi", "delete", "skip"}
      /\ Buffer!IInv /\ IntendedOK(intended)
  BY DEF ReadCSI, ReadDelete, Skip, getchar, IInv, QueueOK, Swallowing
<1>2. DOMAIN CursorKeys \subseteq Terminators /\ "~" \in Terminators
  BY DEF CursorKeys, Terminators, Letters
<1>3. CASE Inside
  <2>1. PICK key \in Keys : \E p \in 1 .. KeyLen(key) - 1 : Queued(input, 0, key, p)
    BY <1>3 DEF Inside
  <2>2. PICK p \in 1 .. KeyLen(key) - 1 : Queued(input, 0, key, p)
    BY <2>1
  <2>3. p \in 0 .. KeyLen(key) - 1 /\ KeyLen(key) # 1 /\ KeyLen(key) \in 1 .. 6
    BY <2>2, TaggedKey
  <2>4. /\ b = KeyBytes(key)[p + 1] /\ QueueOK(input')
        /\ p + 1 = KeyLen(key) =>
              /\ intended' = Edited(intended, key)
              /\ input' # <<>> => WholeKey(input', 0)
        /\ p + 1 # KeyLen(key) =>
              /\ p + 1 \in 1 .. KeyLen(key) - 1
              /\ intended' = intended /\ Queued(input', 0, key, p + 1)
    BY <1>1, <2>2, <2>3, KeyRead
  <2>5. UNCHANGED bufferVars /\ dec' = IF b \in Terminators THEN "key" ELSE "skip"
    BY <1>3, Ignores DEF Inside
  <2>6. CASE p + 1 # KeyLen(key)
    <3>1. b \notin Terminators
      BY <2>4, <2>6, SilentBytes
    <3> QED
      BY <1>1, <2>4, <2>5, <2>6, <3>1, StaysInside
  <2>7. CASE p + 1 = KeyLen(key)
    <3> DEFINE mode == IF b \in Terminators THEN "no" ELSE "skip"
    <3>1. ~Completes(intended, key)
      BY <2>3, LetterlikeKey DEF Completes, Letterlike
    <3>2. Last(KeyBytes(key)) = b
      BY <2>4, <2>7 DEF Last, KeyLen
    <3>3. intended' = [intended EXCEPT !.swallow = mode]
      BY <1>1, <2>4, <2>7, <3>1, <3>2, Swallowed
    <3>4. dec' = IF mode = "no" THEN "key" ELSE mode
      BY <2>5
    <3>5. mode \in {"no", "csi", "delete", "skip"}
      OBVIOUS
    <3> HIDE DEF mode
    <3> QED
      BY <1>1, <2>4, <2>5, <2>7, <3>3, <3>4, <3>5, SleepsOn
  <2> QED
    BY <2>6, <2>7
<1>4. CASE ~Inside /\ input = <<>>
  <2>1. b = "ff" /\ intended' = [intended EXCEPT !.swallow = "skip"] /\ input' = <<>>
    BY <1>1, <1>4 DEF getchar, HungUp
  <2>2. "ff" \notin DOMAIN CursorKeys \cup {"3", "~"} /\ "ff" \notin Terminators
    BY DEF CursorKeys, Terminators, Letters
  <2>3. UNCHANGED bufferVars /\ dec' = "skip"
    BY <2>1, <2>2, Ignores
  <2>4. QueueOK(input')
    BY <1>1, <1>4, <2>1
  <2> DEFINE mode == "skip"
  <2>5. mode \in {"no", "csi", "delete", "skip"}
    OBVIOUS
  <2>6. intended' = [intended EXCEPT !.swallow = mode]
        /\ dec' = IF mode = "no" THEN "key" ELSE mode
    BY <2>1, <2>3
  <2> HIDE DEF mode
  <2> QED
    BY <1>1, <2>1, <2>3, <2>4, <2>5, <2>6, SleepsOn
<1>5. CASE ~Inside /\ input # <<>>
  <2>1. dec = intended.swallow /\ WholeKey(input, 0)
    BY <1>5 DEF Swallowing
  <2>2. PICK key \in Keys : Queued(input, 0, key, 0)
    BY <2>1 DEF WholeKey
  <2> DEFINE first == 0
  <2>3. first \in 0 .. KeyLen(key) - 1 /\ KeyLen(key) \in 1 .. 6 /\ first + 1 = 1
    BY TaggedKey
  <2>4. Queued(input, 0, key, first)
    BY <2>2
  <2> HIDE DEF first
  <2>5. /\ b = KeyBytes(key)[1] /\ QueueOK(input')
        /\ 1 = KeyLen(key) =>
              /\ intended' = Edited(intended, key)
              /\ input' # <<>> => WholeKey(input', 0)
        /\ 1 # KeyLen(key) =>
              /\ 1 \in 1 .. KeyLen(key) - 1
              /\ intended' = intended /\ Queued(input', 0, key, 1)
    <3>1. /\ b = KeyBytes(key)[first + 1] /\ QueueOK(input')
          /\ first + 1 = KeyLen(key) =>
                /\ intended' = Edited(intended, key)
                /\ input' # <<>> => WholeKey(input', 0)
          /\ first + 1 # KeyLen(key) =>
                /\ first + 1 \in 1 .. KeyLen(key) - 1
                /\ intended' = intended /\ Queued(input', 0, key, first + 1)
      BY <1>1, <2>3, <2>4, KeyRead
    <3> QED
      BY <2>3, <3>1
  <2>6. CASE KeyLen(key) # 1
    <3>1. b \notin Terminators /\ b # "3"
      BY <2>5, <2>6, SilentBytes
    <3>2. UNCHANGED bufferVars /\ dec' = "skip"
      BY <1>2, <3>1, Ignores
    <3> QED
      BY <1>1, <2>5, <2>6, <3>2, StaysInside
  <2>7. CASE KeyLen(key) = 1 /\ ~Completes(intended, key)
    <3> DEFINE mode == IF b \in Terminators THEN "no" ELSE "skip"
    <3>1. /\ dec = "csi" => b \notin DOMAIN CursorKeys \cup {"3"}
          /\ dec = "delete" => b # "~"
      BY <2>1, <2>5, <2>7, LetterlikeKey DEF Completes, Letterlike
    <3>2. UNCHANGED bufferVars /\ dec' = IF b \in Terminators THEN "key" ELSE "skip"
      BY <3>1, Ignores
    <3>3. Last(KeyBytes(key)) = b
      BY <2>5, <2>7 DEF Last, KeyLen
    <3>4. intended' = [intended EXCEPT !.swallow = mode]
      BY <1>1, <2>5, <2>7, <3>3, Swallowed
    <3>5. dec' = IF mode = "no" THEN "key" ELSE mode
      BY <3>2
    <3>6. mode \in {"no", "csi", "delete", "skip"}
      OBVIOUS
    <3> HIDE DEF mode
    <3> QED
      BY <1>1, <2>5, <2>7, <3>2, <3>4, <3>5, <3>6, SleepsOn
  <2>8. CASE KeyLen(key) = 1 /\ Completes(intended, key)
    <3>1. b = key /\ intended' = Edited(intended, key)
      BY <2>5, <2>8, LetterlikeKey DEF Completes, Letterlike
    <3> DEFINE st == Awakened(intended)
    <3>2. /\ IntendedOK(st) /\ Live(st) /\ Buffer!Text(size) = st.line
          /\ cursor = st.pos
      BY <1>1 DEF Awakened, IntendedOK, Live, Synced
    <3> HIDE DEF st
    <3>3. CASE intended.swallow = "csi" /\ key = "3"
      <4>1. dec' = "delete" /\ UNCHANGED bufferVars
        BY <2>1, <3>1, <3>3 DEF ReadCSI, ReadDelete, Skip, CursorKey
      <4> DEFINE mode == "delete"
      <4>2. mode \in {"no", "csi", "delete", "skip"}
            /\ dec' = IF mode = "no" THEN "key" ELSE mode
        BY <4>1
      <4>3. intended' = [intended EXCEPT !.swallow = mode]
        BY <1>1, <3>1, <3>3, Swallowed
      <4> HIDE DEF mode
      <4> QED
        BY <1>1, <2>5, <2>8, <4>1, <4>2, <4>3, SleepsOn
    <3>4. CASE intended.swallow = "csi" /\ key \in DOMAIN CursorKeys
      <4>1. key # "3" /\ key \in {"A", "B", "C", "D", "F", "H"}
        BY <3>4 DEF CursorKeys
      <4>2. CursorKey(b) /\ dec' = "key"
        BY <2>1, <3>1, <3>4, <4>1 DEF ReadCSI, ReadDelete, Skip
      <4> DEFINE means == CursorKeys[key]
      <4>3. intended' = Meant(st, means)
        BY <1>1, <3>1, <3>4, Swallowed DEF st
      <4>4. <<b, means>> \in {<<"A", "Up">>, <<"B", "Down">>, <<"C", "Right">>,
                              <<"D", "Left">>, <<"F", "End">>, <<"H", "Home">>}
        BY <3>1, <4>1 DEF CursorKeys
      <4> HIDE DEF means
      <4>5. \/ means \in {"Up", "Home"} /\ Buffer!MoveTo(0)
            \/ means \in {"Down", "End"} /\ Buffer!MoveTo(size)
            \/ means = "Right" /\ IF cursor < size THEN Buffer!MoveTo(cursor + 1)
                                                    ELSE cursor_bell
            \/ means = "Left" /\ IF cursor > 0 THEN Buffer!MoveTo(cursor - 1)
               ELSE cursor_bell
        BY <4>2, <4>4 DEF CursorKey
      <4>6. /\ Buffer!IInv' /\ IntendedOK(intended') /\ Synced'
            /\ Live(intended') /\ outcome' = "typing"
        BY <1>1, <3>2, <4>3, <4>5, EditsAgree
      <4> QED
        BY <1>1, <2>5, <2>8, <4>2, <4>6, KeyEnds
    <3>5. CASE intended.swallow = "delete" /\ key = "~"
      <4>1. dec' = "key" /\ IF cursor = size THEN cursor_bell ELSE Buffer!Delete
        BY <2>1, <3>1, <3>5 DEF ReadCSI, ReadDelete, Skip
      <4>2. intended' = Meant(st, "Delete")
        BY <1>1, <3>1, <3>5, Swallowed DEF st
      <4>3. /\ Buffer!IInv' /\ IntendedOK(intended') /\ Synced'
            /\ Live(intended') /\ outcome' = "typing"
        BY <1>1, <3>2, <4>1, <4>2, EditsAgree
      <4> QED
        BY <1>1, <2>5, <2>8, <4>1, <4>3, KeyEnds
    <3> QED
      BY <2>8, <3>3, <3>4, <3>5 DEF Completes
  <2> QED
    BY <2>6, <2>7, <2>8
<1> QED
  BY <1>3, <1>4, <1>5

(* The last bytes of a key that puts the decoder to sleep.                 *)
LEMMA UnknownStep ==
    ASSUME IInv, InUnknown, NEW b, ReadEscape(b) \/ Skip(b)
    PROVE  IInv'
<1>1. /\ getchar(b) /\ outcome = "typing" /\ QueueOK(input) /\ dec # "flush"
      /\ Synced /\ Live(intended) /\ UNCHANGED bufferVars
      /\ Buffer!IInv /\ IntendedOK(intended)
  BY DEF ReadEscape, Skip, getchar, IInv, InUnknown
<1>2. PICK key \in Keys \cap DOMAIN Unknown : \E p \in 1 .. KeyLen(key) - 1 :
        Queued(input, 0, key, p) /\ dec = IF p = 1 THEN "esc" ELSE "skip"
  BY DEF InUnknown
<1>3. PICK p \in 1 .. KeyLen(key) - 1 :
        Queued(input, 0, key, p) /\ dec = IF p = 1 THEN "esc" ELSE "skip"
  BY <1>2
<1>4. p \in 0 .. KeyLen(key) - 1 /\ KeyLen(key) \in 1 .. 6
  BY TaggedKey
<1>5. /\ b = KeyBytes(key)[p + 1] /\ QueueOK(input')
      /\ p + 1 = KeyLen(key) =>
            /\ intended' = Edited(intended, key)
            /\ input' # <<>> => WholeKey(input', 0)
      /\ p + 1 # KeyLen(key) =>
            /\ p + 1 \in 1 .. KeyLen(key) - 1
            /\ intended' = intended /\ Queued(input', 0, key, p + 1)
  BY <1>1, <1>3, <1>4, KeyRead
<1>6. \A c \in {"[", "backspace", "space", "esc", "nul", "fs", "lead2", "cont"} :
        c \notin AltControls \cup Letters \cup AltMarks /\ c \notin Terminators
  BY Zenon DEF AltControls, Letters, AltMarks, Terminators
<1>7. Edited(intended, key) =
        [intended EXCEPT !.swallow = IF key = "AltBracket" THEN "csi" ELSE "skip"]
  BY <1>1, Sleeps DEF Live
<1> DEFINE mode == IF key = "AltBracket" THEN "csi" ELSE "skip"
<1>8. mode \in {"no", "csi", "delete", "skip"} /\ mode # "no"
  OBVIOUS
<1>9. CASE p + 1 = KeyLen(key)
  <2>1. dec' = mode
    <3>1. CASE p = 1
      <4>1. /\ key = "AltBracket" <=> b = "["
            /\ b \in {"[", "backspace", "space", "esc", "nul", "fs"}
        BY <1>5, <1>9, <3>1, UnknownBytes
      <4>2. ReadEscape(b)
        BY <1>3, <3>1 DEF Skip
      <4>3. CASE b = "["
        BY <1>6, <4>1, <4>2, <4>3 DEF ReadEscape
      <4>4. CASE b # "["
        <5>1. b \notin AltControls \cup Letters \cup AltMarks /\ b \notin Terminators
          BY <1>6, <4>1
        <5> QED
          BY <4>1, <4>2, <4>4, <5>1 DEF ReadEscape, _ignore_escape_seq
      <4> QED
        BY <4>3, <4>4
    <3>2. CASE p # 1
      <4>1. b = "cont" /\ key # "AltBracket"
        BY <1>5, <1>9, <3>2, UnknownBytes
      <4>2. Skip(b)
        BY <1>3, <3>2 DEF ReadEscape
      <4> QED
        BY <1>6, <4>1, <4>2 DEF Skip, _ignore_escape_seq
    <3> QED
      BY <3>1, <3>2
  <2>2. intended' = [intended EXCEPT !.swallow = mode]
    BY <1>5, <1>7, <1>9
  <2> HIDE DEF mode
  <2> QED
    BY <1>1, <1>5, <1>8, <1>9, <2>1, <2>2, SleepsOn DEF Live
<1>10. CASE p + 1 # KeyLen(key)
  <2>1. KeyLen(key) = 3 /\ p = 1 /\ b = "lead2"
    BY <1>5, <1>10, UnknownBytes
  <2>2. ReadEscape(b)
    BY <1>3, <2>1 DEF Skip
  <2>3. b \notin AltControls \cup Letters \cup AltMarks /\ b \notin Terminators
        /\ b # "["
    BY <1>6, <2>1
  <2>4. dec' = "skip"
    BY <2>2, <2>3 DEF ReadEscape, _ignore_escape_seq
  <2>5. Buffer!IInv' /\ Buffer!Text(size)' = Buffer!Text(size) /\ cursor' = cursor
        /\ outcome' = "typing"
    BY <1>1, BufferStep DEF bufferVars, Buffer!Text
  <2>6. p + 1 \in 1 .. KeyLen(key) - 1 /\ p + 1 # 1
    BY <1>5, <1>10, <2>1
  <2>7. Queued(input', 0, key, p + 1) /\ intended' = intended
    BY <1>5, <1>10
  <2>8. Synced'
    BY <1>1, <2>5, <2>7 DEF Synced
  <2>9. InUnknown'
    BY <1>1, <2>4, <2>6, <2>7, <2>8 DEF InUnknown
  <2>10. DecoderInv'
    BY <2>5, <2>9 DEF DecoderInv
  <2> QED
    BY <1>1, <1>5, <2>4, <2>5, <2>7, <2>10, Kept
<1> QED
  BY <1>9, <1>10

(* The states of the decoder, sequence or sleep.                           *)
LEMMA ReadEscapeStep ==
    ASSUME IInv, NEW b, ReadEscape(b)
    PROVE  IInv'
<1>1. dec = "esc" /\ b # "ff" /\ getchar(b) /\ outcome = "typing"
  BY DEF ReadEscape, getchar
<1>2. InSequence \/ AfterEscape \/ InUnknown
  BY <1>1, DecoderAt
<1>3. ~AfterEscape
  BY <1>1 DEF AfterEscape, getchar
<1> QED
  BY <1>2, <1>3, ReadEscapeSequence, UnknownStep

LEMMA SleepStep ==
    ASSUME IInv, NEW b, ReadCSI(b) \/ ReadDelete(b) \/ Skip(b)
    PROVE  IInv'
<1>1. dec \in {"csi", "delete", "skip"} /\ outcome = "typing"
  BY DEF ReadCSI, ReadDelete, Skip, getchar
<1>2. InSequence \/ Swallowing \/ (dec = "skip" /\ InUnknown)
  BY <1>1, DecoderAt
<1>3. CASE InSequence
  BY <1>3, ReadCSISequence, ReadDeleteSequence, SkipSequence
<1>4. CASE Swallowing
  BY <1>4, SwallowStep
<1>5. CASE dec = "skip" /\ InUnknown
  <2>1. Skip(b)
    BY <1>5 DEF ReadCSI, ReadDelete
  <2> QED
    BY <1>5, <2>1, UnknownStep
<1> QED
  BY <1>2, <1>3, <1>4, <1>5

(* A byte of a character joins the line; the last one completes it.        *)
LEMMA WideRead ==
    ASSUME IInv, outcome = "typing", dec = "key", dec' = "key", NEW b, getchar(b),
           NEW key \in Keys \cap (Chars \cup DOMAIN Wide),
               NEW p \in 0 .. KeyLen(key) - 1,
           Queued(input, 0, key, p), Live(intended),
           Buffer!Text(size) = Spliced(intended.line, intended.pos, KeyBytes(key), p),
           cursor = intended.pos + p, KeyBytes(key) \in Seq(Chars),
           Buffer!Insert(b)
    PROVE  IInv'
<1> DEFINE chars == KeyBytes(key)
           line == intended.line
           pos == intended.pos
<1>1. /\ input \in Seq(Pieces) /\ QueueOK(input) /\ Buffer!IInv /\ IntendedOK(intended)
      /\ line \in Seq(Chars) /\ pos \in 0 .. Len(line)
  BY DEF IInv, QueueOK, IntendedOK
<1>2. /\ input # <<>> /\ Head(input).byte = chars[p + 1]
      /\ Head(input).key = IF p + 1 = KeyLen(key) THEN key ELSE "none"
      /\ p + 1 # KeyLen(key) => Queued(Tail(input), 0, key, p + 1)
  BY <1>1, QueueHead
<1>3. /\ QueueOK(Tail(input))
      /\ Head(input).key # "none" /\ Tail(input) # <<>> => WholeKey(Tail(input), 0)
  BY <1>1, <1>2, QueueTail
<1>4. KeyLen(key) \in 1 .. 6 /\ key # "none" /\ KeyLen(key) = Len(chars)
  BY TaggedKey DEF KeyLen
<1>5. /\ b = chars[p + 1] /\ input' = Tail(input)
      /\ intended' = IF Head(input).key = "none" THEN intended
                     ELSE Edited(intended, Head(input).key)
  BY <1>2 DEF getchar
<1>6. /\ Buffer!IInv' /\ outcome' = "typing"
      /\ Buffer!Text(size)' = Spliced(line, pos, chars, p + 1)
      /\ cursor' = pos + (p + 1)
  <2> HIDE DEF chars, line, pos
  <2>1. p \in 0 .. Len(chars) - 1 /\ chars \in Seq(Chars)
    BY <1>4 DEF chars
  <2>2. Buffer!Text(size) = Spliced(line, pos, chars, p) /\ cursor = pos + p
    BY DEF chars, line, pos
  <2>3. Buffer!Insert(chars[p + 1])
    BY <1>5
  <2> QED
    BY <1>1, <2>1, <2>2, <2>3, Inserts
<1>7. CASE p + 1 = KeyLen(key)
  <2>1. intended' = Typed(intended, chars)
    <3>1. intended' = Edited(intended, key)
      BY <1>2, <1>4, <1>5, <1>7
    <3>2. key \notin DOMAIN Unknown
      BY ControlNames, WideBytes
    <3>3. intended' = Meant(intended, key)
      BY <3>1, <3>2, MeantOnly DEF Live
    <3> QED
      BY <1>1, <3>3, Edits
  <2>2. /\ IntendedOK(intended') /\ intended'.line = Spliced(line, pos, chars, p + 1)
        /\ intended'.pos = pos + (p + 1) /\ Live(intended')
    BY <1>1, <1>4, <1>7, <2>1, TypedSpliced DEF Live
  <2>3. Synced'
    BY <1>6, <2>2 DEF Synced
  <2>4. input' # <<>> => WholeKey(input', 0)
    BY <1>2, <1>3, <1>4, <1>5, <1>7
  <2> QED
    BY <1>3, <1>5, <1>6, <2>2, <2>3, <2>4, KeyEnds
<1>8. CASE p + 1 # KeyLen(key)
  <2>1. intended' = intended /\ Queued(input', 0, key, p + 1)
    BY <1>2, <1>5, <1>8
  <2>2. key \in DOMAIN Wide /\ chars = Wide[key]
    <3>1. key \notin DOMAIN Sequences /\ key \notin DOMAIN Unknown
      BY ControlNames, WideBytes
    <3>2. KeyLen(key) # 1
      BY <1>4, <1>8
    <3>3. key \in DOMAIN Wide
      BY <3>1, <3>2, PlainBytes
    <3> QED
      BY <3>3, WideBytes
  <2>3. p + 1 \in 1 .. KeyLen(key) - 1
    BY <1>4, <1>8
  <2>4. InWide'
    BY <1>6, <2>1, <2>2, <2>3 DEF InWide
  <2>5. DecoderInv'
    BY <1>6, <2>4 DEF DecoderInv
  <2> QED
    BY <1>1, <1>3, <1>5, <1>6, <2>1, <2>5, Kept
<1> QED
  BY <1>7, <1>8

LEMMA WideInChars ==
    ASSUME NEW key \in Keys \cap DOMAIN Wide
    PROVE  KeyBytes(key) \in Seq(Chars)
<1>1. /\ KeyBytes(key) \in Seq({"lead2", "lead3", "lead4", "cont"})
      /\ KeyLen(key) = Len(KeyBytes(key))
  BY WideBytes
<1>2. \A ch \in {"lead2", "lead3", "lead4", "cont"} : ch \notin Controls
  BY DEF Controls, AltControls
<1>3. \A q \in 1 .. Len(KeyBytes(key)) : KeyBytes(key)[q] \in Chars
  <2>1. \A q \in 1 .. KeyLen(key) : KeyBytes(key)[q] \in Chars \cup Controls
    BY TaggedKey
  <2> DEFINE s == KeyBytes(key)
  <2> HIDE DEF s
  <2>2. \A q \in 1 .. Len(s) : s[q] \in {"lead2", "lead3", "lead4", "cont"}
    BY <1>1 DEF s
  <2> QED
    BY <1>1, <1>2, <2>1, <2>2 DEF s
<1> DEFINE s == KeyBytes(key)
<1> HIDE DEF s
<1>4. s \in Seq({"lead2", "lead3", "lead4", "cont"})
      /\ \A q \in 1 .. Len(s) : s[q] \in Chars
  BY <1>1, <1>3 DEF s
<1>5. s \in Seq(Chars)
  BY <1>4
<1> QED
  BY <1>5 DEF s

(* The bytes that are keys of their own.                                   *)
LEMMA ReadPlain ==
    ASSUME IInv, outcome = "typing", AtKey, NEW b, ReadKey(b), NEW key \in Keys,
           Queued(input, 0, key, 0), key \notin DOMAIN Sequences,
           key \notin DOMAIN Unknown, key \notin DOMAIN Wide
    PROVE  IInv'
<1>1. KeyBytes(key) = <<key>> /\ KeyLen(key) = 1 /\ KeyBytes(key)[1] = key
  BY PlainBytes
<1>2. /\ input \in Seq(Pieces) /\ QueueOK(input) /\ Buffer!IInv /\ IntendedOK(intended)
      /\ Synced /\ Live(intended) /\ dec = "key" /\ getchar(b)
  BY DEF IInv, QueueOK, AtKey, ReadKey
<1>3. /\ input # <<>> /\ Head(input).byte = key /\ Head(input).key = key /\ key # "none"
      /\ key \in Chars \cup Controls
  <2>1. /\ 0 \in 0 .. KeyLen(key) - 1 /\ key # "none"
        /\ KeyBytes(key)[1] \in Chars \cup Controls
        /\ 0 + 1 = KeyLen(key)
    BY <1>1, TaggedKey
  <2> QED
    BY <1>1, <1>2, <2>1, QueueHead
<1>4. /\ QueueOK(Tail(input))
      /\ Tail(input) # <<>> => WholeKey(Tail(input), 0)
  BY <1>2, <1>3, QueueTail
<1>5. b = key /\ input' = Tail(input) /\ intended' = Meant(intended, key)
  <2>1. b = key /\ input' = Tail(input) /\ intended' = Edited(intended, key)
    BY <1>2, <1>3 DEF getchar
  <2> QED
    BY <1>2, <2>1, MeantOnly DEF Live
<1>6. key # "esc"
  BY KeysAssumption
<1>7. dec' = "key"
  BY <1>5, <1>6 DEF ReadKey
<1>8. CASE key \in Chars
  <2>1. key \notin {"enter", "nul", "ff", "ctrl_c", "ctrl_d", "backspace", "tab",
                   "fs", "esc"}
    BY <1>8, ControlNames
  <2>2. Buffer!Insert(b)
    BY <1>5, <2>1 DEF ReadKey
  <2>3. KeyBytes(key) \in Seq(Chars) /\ 0 \in 0 .. KeyLen(key) - 1
    BY <1>1, <1>8
  <2>4. /\ Buffer!Text(size) = Spliced(intended.line, intended.pos, KeyBytes(key), 0)
        /\ cursor = intended.pos + 0
    <3>1. intended.line \in Seq(Chars) /\ intended.pos \in 0 .. Len(intended.line)
      BY <1>2 DEF IntendedOK
    <3> QED
      BY <1>2, <3>1, SplicedNone DEF Synced
  <2> QED
    BY <1>2, <1>7, <1>8, <2>2, <2>3, <2>4, WideRead
<1>9. CASE key \notin Chars
  <2>1. key \in {"enter", "ctrl_c", "ctrl_d", "nul", "tab", "fs", "backspace", "ff"}
    BY <1>3, <1>6, <1>9 DEF Controls, AltControls
  <2>2. CASE key \in {"nul", "enter", "ff"}
    <3>1. Finish
      BY <1>5, <1>9, <2>2 DEF ReadKey
    <3>2. intended' = Ending(intended)
      BY <1>2, <1>5, <2>2, Edits
    <3>3. Buffer!IInv' /\ IntendedOK(intended') /\ Ended'
      BY <1>2, <3>1, <3>2, FinishAgrees DEF Live
    <3> QED
      BY <1>2, <1>4, <1>5, <1>7, <3>3, KeyEnds
  <2>3. CASE key = "ctrl_c" \/ (key = "ctrl_d" /\ size = 0)
    <3>1. Buffer!NoOutput
      BY <1>5, <1>9, <2>3 DEF ReadKey
    <3>2. size = 0 => intended.line = <<>>
      BY <1>2, BufferLine DEF Synced, IntendedOK
    <3>3. intended' = [intended EXCEPT !.outcome = "none"]
      BY <1>2, <1>5, <2>3, <3>2, Edits
    <3>4. Buffer!IInv' /\ IntendedOK(intended') /\ Ended'
      BY <1>2, <3>1, <3>3, EndsAgree
    <3> QED
      BY <1>2, <1>4, <1>5, <1>7, <3>4, KeyEnds
  <2>4. CASE key \in {"tab", "fs", "backspace"} \/ (key = "ctrl_d" /\ size # 0)
    <3>1. \/ key = "backspace" /\ IF cursor = 0 THEN cursor_bell ELSE Buffer!Backspace
          \/ key \in {"tab", "fs", "AltX", "AltEnter"} /\ UNCHANGED bufferVars
          \/ key = "ctrl_d" /\ size # 0 /\ UNCHANGED bufferVars
      BY <1>5, <1>9, <2>4 DEF ReadKey
    <3>2. /\ Buffer!IInv' /\ IntendedOK(intended') /\ Synced'
          /\ Live(intended') /\ outcome' = "typing"
      BY <1>2, <1>5, <3>1, EditsAgree DEF Synced
    <3> QED
      BY <1>2, <1>4, <1>5, <1>7, <3>2, KeyEnds
  <2>5. CASE key = "ctrl_d"
    <3>1. CASE size = 0
      BY <2>3, <2>5, <3>1
    <3>2. CASE size # 0
      BY <2>4, <2>5, <3>2
    <3> QED
      BY <3>1, <3>2
  <2>6. CASE key = "ctrl_c"
    BY <2>3, <2>6
  <2>7. CASE key \in {"tab", "fs", "backspace"}
    BY <2>4, <2>7
  <2>8. \/ key \in {"nul", "enter", "ff"} \/ key = "ctrl_d" \/ key = "ctrl_c"
        \/ key \in {"tab", "fs", "backspace"}
    BY <2>1, Zenon
  <2> QED
    BY <2>2, <2>5, <2>6, <2>7, <2>8, Zenon
<1> QED
  BY <1>8, <1>9

(* The first byte of an escape sequence.                                   *)
LEMMA ReadEsc ==
    ASSUME IInv, outcome = "typing", AtKey, NEW b, ReadKey(b),
           NEW key \in Keys \cap DOMAIN Sequences, Queued(input, 0, key, 0)
    PROVE  IInv'
<1>1. KeyLen(key) \in 1 .. 6 /\ (KeyLen(key) = 1 <=> key = "Escape")
      /\ KeyBytes(key)[1] = "esc" /\ key # "none" /\ 0 \in 0 .. KeyLen(key) - 1
  BY EscapeBytes, TaggedKey
<1>2. /\ input \in Seq(Pieces) /\ QueueOK(input) /\ Buffer!IInv /\ IntendedOK(intended)
      /\ Synced /\ Live(intended) /\ dec = "key" /\ getchar(b)
  BY DEF IInv, QueueOK, AtKey, ReadKey
<1>3. /\ input # <<>> /\ Head(input).byte = "esc"
      /\ Head(input).key = IF 1 = KeyLen(key) THEN key ELSE "none"
      /\ 1 # KeyLen(key) => Queued(Tail(input), 0, key, 1)
  BY <1>1, <1>2, QueueHead
<1>4. QueueOK(Tail(input)) /\ (Head(input).key = "Escape" => Tail(input) = <<>>)
  BY <1>2, <1>3, QueueTail
<1>5. b = "esc" /\ input' = Tail(input) /\ dec' = "esc"
  BY <1>2, <1>3 DEF getchar, ReadKey
<1>6. UNCHANGED bufferVars
  <2>1. "esc" \notin Chars
    BY ControlNames
  <2> QED
    BY <1>5, <2>1 DEF ReadKey
<1>7. /\ Buffer!IInv' /\ Buffer!Text(size)' = Buffer!Text(size) /\ cursor' = cursor
      /\ outcome' = "typing"
  BY <1>2, <1>6, BufferStep DEF bufferVars, Buffer!Text
<1>8. CASE key = "Escape"
  <2>1. intended' = Ending(intended) /\ input' = <<>>
    <3>1. Head(input).key = "Escape" /\ key # "none"
      BY <1>1, <1>3, <1>8
    <3>2. intended' = Meant(intended, key)
      <4>1. intended' = Edited(intended, key)
        BY <1>1, <1>2, <1>3, <1>8, <3>1 DEF getchar
      <4>2. key \notin DOMAIN Unknown
        BY ControlNames
      <4> QED
        BY <1>2, <4>1, <4>2, MeantOnly DEF Live
    <3> QED
      BY <1>2, <1>4, <1>5, <1>8, <3>1, <3>2, Edits
  <2>2. AfterEscape' /\ IntendedOK(intended')
    BY <1>2, <1>5, <1>7, <2>1, EndingOK DEF AfterEscape, Synced, Live
  <2>3. DecoderInv'
    BY <1>7, <2>2 DEF DecoderInv
  <2> QED
    BY <1>2, <1>4, <1>5, <1>7, <2>2, <2>3, Kept
<1>9. CASE key # "Escape"
  <2>1. intended' = intended /\ Queued(input', 0, key, 1)
    BY <1>1, <1>2, <1>3, <1>5, <1>9 DEF getchar
  <2>2. 1 \in 1 .. KeyLen(key) - 1
    BY <1>1, <1>9
  <2>3. Path[key][1] = "esc"
    BY <1>9, SequenceKeys DEF Path
  <2>4. InSequence'
    BY <1>2, <1>5, <1>7, <2>1, <2>2, <2>3 DEF InSequence, Synced
  <2>5. DecoderInv'
    BY <1>7, <2>4 DEF DecoderInv
  <2> QED
    BY <1>2, <1>4, <1>5, <1>7, <2>1, <2>5, Kept
<1> QED
  BY <1>8, <1>9

LEMMA ReadUnknown ==
    ASSUME IInv, outcome = "typing", AtKey, NEW b, ReadKey(b),
           NEW key \in Keys \cap DOMAIN Unknown, Queued(input, 0, key, 0)
    PROVE  IInv'
<1>1. KeyLen(key) \in 2 .. 3 /\ KeyBytes(key)[1] = "esc" /\ 0 \in 0 .. KeyLen(key) - 1
  BY UnknownBytes
<1>2. /\ input \in Seq(Pieces) /\ QueueOK(input) /\ Buffer!IInv /\ IntendedOK(intended)
      /\ Synced /\ Live(intended) /\ dec = "key" /\ getchar(b)
  BY DEF IInv, QueueOK, AtKey, ReadKey
<1>3. /\ input # <<>> /\ Head(input).byte = "esc" /\ Head(input).key = "none"
      /\ Queued(Tail(input), 0, key, 1)
  BY <1>1, <1>2, QueueHead
<1>4. QueueOK(Tail(input))
  BY <1>2, <1>3, QueueTail
<1>5. b = "esc" /\ input' = Tail(input) /\ dec' = "esc" /\ intended' = intended
  BY <1>2, <1>3 DEF getchar, ReadKey
<1>6. UNCHANGED bufferVars
  <2>1. "esc" \notin Chars
    BY ControlNames
  <2> QED
    BY <1>5, <2>1 DEF ReadKey
<1>7. /\ Buffer!IInv' /\ Buffer!Text(size)' = Buffer!Text(size) /\ cursor' = cursor
      /\ outcome' = "typing"
  BY <1>2, <1>6, BufferStep DEF bufferVars, Buffer!Text
<1>8. Queued(input', 0, key, 1) /\ 1 \in 1 .. KeyLen(key) - 1
  BY <1>1, <1>3, <1>5
<1>9. InUnknown'
  BY <1>2, <1>5, <1>7, <1>8 DEF InUnknown, Synced
<1>10. DecoderInv'
  BY <1>7, <1>9 DEF DecoderInv
<1> QED
  BY <1>2, <1>4, <1>5, <1>7, <1>10, Kept

LEMMA ReadKeyStep ==
    ASSUME IInv, ReadKey(Next_byte)
    PROVE  IInv'
<1> DEFINE b == Next_byte
<1>1. /\ dec = "key" /\ getchar(b) /\ outcome = "typing"
      /\ Buffer!IInv /\ QueueOK(input) /\ IntendedOK(intended) /\ input \in Seq(Pieces)
  BY DEF ReadKey, getchar, IInv, QueueOK
<1>2. AtKey \/ InWide
  BY <1>1, DecoderAt
<1>3. CASE AtKey /\ input = <<>>
  <2>1. b = "ff" /\ intended' = Ending(intended) /\ input' = input /\ dec' = "key"
    <3>1. b = "ff" /\ intended' = HungUp(intended) /\ input' = input /\ dec' = "key"
      BY <1>1, <1>3 DEF getchar, ReadKey
    <3> QED
      BY <1>3, <3>1, EndsAwake DEF AtKey, Live
  <2>2. Finish
    <3>1. "ff" \notin Chars
      BY ControlNames
    <3> QED
      BY <2>1, <3>1 DEF ReadKey
  <2>3. Buffer!IInv' /\ IntendedOK(intended') /\ Ended'
    BY <1>1, <1>3, <2>1, <2>2, FinishAgrees DEF AtKey, Live
  <2>4. QueueOK(input') /\ input' = <<>>
    BY <1>1, <1>3, <2>1
  <2> QED
    BY <1>1, <2>1, <2>3, <2>4, KeyEnds
<1>4. CASE AtKey /\ input # <<>>
  <2>1. PICK key \in Keys : Queued(input, 0, key, 0)
    BY <1>4 DEF AtKey, WholeKey
  <2>2. CASE key \in DOMAIN Sequences
    BY <1>1, <1>4, <2>1, <2>2, ReadEsc
  <2>3. CASE key \in DOMAIN Wide
    <3>1. KeyBytes(key) \in Seq(Chars) /\ KeyLen(key) \in 1 .. 6
          /\ KeyLen(key) = Len(KeyBytes(key))
      BY <2>3, WideInChars, TaggedKey DEF KeyLen
    <3>2. 0 \in 0 .. KeyLen(key) - 1
      BY <3>1
    <3>3. Head(input).byte = KeyBytes(key)[1] /\ input # <<>>
      BY <1>1, <2>1, <3>2, QueueHead
    <3>4. b \in Chars
      <4>1. KeyBytes(key)[1] \in Chars
        BY <3>1
      <4> QED
        BY <3>3, <4>1 DEF Next_byte
    <3>5. b \notin {"enter", "nul", "ff", "ctrl_c", "ctrl_d", "backspace", "tab",
                   "fs", "esc"}
      BY <3>4, ControlNames
    <3> HIDE DEF b
    <3>6. Buffer!Insert(b) /\ dec' = "key"
      <4>1. ReadKey(b)
        BY DEF b
      <4> QED
        BY <3>5, <4>1 DEF ReadKey
    <3>7. /\ Buffer!Text(size) = Spliced(intended.line, intended.pos, KeyBytes(key), 0)
          /\ cursor = intended.pos + 0 /\ Live(intended)
      <4>1. intended.line \in Seq(Chars) /\ intended.pos \in 0 .. Len(intended.line)
        BY <1>1 DEF IntendedOK
      <4> QED
        BY <1>4, <4>1, SplicedNone DEF Synced, AtKey
    <3> QED
      BY <1>1, <2>1, <2>3, <3>1, <3>2, <3>6, <3>7, WideRead
  <2>4. CASE key \in DOMAIN Unknown
    BY <1>1, <1>4, <2>1, <2>4, ReadUnknown
  <2>5. CASE /\ key \notin DOMAIN Sequences /\ key \notin DOMAIN Unknown
             /\ key \notin DOMAIN Wide
    BY <1>1, <1>4, <2>1, <2>5, ReadPlain
  <2> QED
    BY <2>2, <2>3, <2>4, <2>5
<1>5. CASE InWide
  <2>1. PICK key \in Keys \cap DOMAIN Wide : \E p \in 1 .. KeyLen(key) - 1 :
         /\ Queued(input, 0, key, p)
         /\ Buffer!Text(size) = Spliced(intended.line, intended.pos, Wide[key], p)
         /\ cursor = intended.pos + p
    BY <1>5 DEF InWide
  <2>2. PICK p \in 1 .. KeyLen(key) - 1 :
         /\ Queued(input, 0, key, p)
         /\ Buffer!Text(size) = Spliced(intended.line, intended.pos, Wide[key], p)
         /\ cursor = intended.pos + p
    BY <2>1
  <2>3. KeyLen(key) \in 1 .. 6 /\ p \in 0 .. KeyLen(key) - 1
        /\ KeyBytes(key) = Wide[key]
        /\ KeyBytes(key) \in Seq(Chars) /\ KeyLen(key) = Len(KeyBytes(key))
    BY TaggedKey, WideBytes, WideInChars
  <2>4. Head(input).byte = KeyBytes(key)[p + 1] /\ input # <<>>
    BY <1>1, <2>2, <2>3, QueueHead
  <2>5. b \in Chars
    <3>1. p + 1 \in 1 .. Len(KeyBytes(key))
      BY <2>3
    <3>2. KeyBytes(key)[p + 1] \in Chars
      BY <2>3, <3>1
    <3> QED
      BY <2>4, <3>2 DEF Next_byte
  <2>6. b \notin {"enter", "nul", "ff", "ctrl_c", "ctrl_d", "backspace", "tab",
                 "fs", "esc"}
    BY <2>5, ControlNames
  <2> HIDE DEF b
  <2>7. Buffer!Insert(b) /\ dec' = "key"
    <3>1. ReadKey(b)
      BY DEF b
    <3> QED
      BY <2>6, <3>1 DEF ReadKey
  <2>8. Live(intended)
    BY <1>5 DEF InWide
  <2> QED
    BY <1>1, <2>2, <2>3, <2>7, <2>8, WideRead
<1> QED
  BY <1>2, <1>3, <1>4, <1>5

(* The flush drops whole keys: what it leaves behind is a key.             *)
LEMMA FlushStep ==
    ASSUME IInv, FlushByte(Next_byte) \/ FlushEnd
    PROVE  IInv'
<1>1. dec = "flush" /\ UNCHANGED bufferVars /\ Buffer!IInv /\ QueueOK(input)
      /\ IntendedOK(intended) /\ intended' = intended
  BY DEF FlushByte, FlushEnd, getchar, IInv
<1>2. Buffer!IInv' /\ Buffer!Text(size)' = Buffer!Text(size) /\ cursor' = cursor
      /\ outcome' = outcome /\ Buffer!Text(size - 1)' = Buffer!Text(size - 1)
  BY <1>1, BufferStep DEF bufferVars, Buffer!Text
<1>3. QueueOK(input')
  BY <1>1, QueueTail DEF FlushByte, FlushEnd, getchar
<1>4. CASE outcome # "typing"
  <2>1. Ended'
    BY <1>1, <1>2, <1>4 DEF IInv, DecoderInv, Ended
  <2> QED
    BY <1>1, <1>2, <1>3, <2>1 DEF IInv, DecoderInv, FlushByte, FlushEnd, getchar
<1>5. CASE outcome = "typing"
  <2>1. Flushing
    BY <1>1, <1>5, DecoderAt
  <2>2. Flushing' \/ AtKey'
    BY <1>1, <1>2, <2>1 DEF FlushByte, FlushEnd, Flushing, AtKey, Synced
  <2>3. DecoderInv'
    BY <1>2, <1>5, <2>2 DEF DecoderInv
  <2> QED
    BY <1>1, <1>2, <1>3, <2>3 DEF IInv, FlushByte, FlushEnd, getchar
<1> QED
  BY <1>4, <1>5

(* What leaves the decoder and the line as they are.                       *)
LEMMA StillThere ==
    ASSUME IInv, UNCHANGED <<dec, intended, bufferVars>>,
           \/ input' = input
           \/ \E key \in Keys : /\ input' = input \o Tagged(key)
                                /\ ~EscapePending
    PROVE  QueueOK(input') /\ DecoderInv' /\ Buffer!IInv' /\ IntendedOK(intended')
<1>1. /\ Buffer!IInv /\ QueueOK(input) /\ IntendedOK(intended)
      /\ input \in Seq(Pieces)
  BY DEF IInv, QueueOK
<1>2. Buffer!IInv' /\ Buffer!Text(size)' = Buffer!Text(size) /\ cursor' = cursor
      /\ outcome' = outcome /\ Buffer!Text(size - 1)' = Buffer!Text(size - 1)
      /\ IntendedOK(intended') /\ intended' = intended /\ dec' = dec
  BY <1>1, BufferStep DEF bufferVars, Buffer!Text
<1>3. CASE input' = input
  <2>1. Synced <=> Synced'
    BY <1>2 DEF Synced
  <2>2. (InUnknown => InUnknown') /\ (Swallowing => Swallowing')
    BY <1>2, <1>3, <2>1 DEF InUnknown, Swallowing, Inside
  <2>3. (Flushing => Flushing') /\ (AtKey => AtKey') /\ (AfterEscape => AfterEscape')
    BY <1>2, <1>3, <2>1 DEF Flushing, AtKey, AfterEscape
  <2>4. (InWide => InWide') /\ (InSequence => InSequence')
    BY <1>2, <1>3, <2>1 DEF InWide, InSequence
  <2>5. Ended => Ended'
    BY <1>2 DEF Ended
  <2> QED
    BY <1>1, <1>2, <1>3, <2>2, <2>3, <2>4, <2>5 DEF IInv, DecoderInv
<1>4. ASSUME NEW key \in Keys, input' = input \o Tagged(key), ~EscapePending
      PROVE  QueueOK(input') /\ DecoderInv'
  <2>1. input # <<>> => input[Len(input)].key # "Escape"
    BY <1>4 DEF EscapePending, Last
  <2>2. /\ QueueOK(input') /\ WholeKey(input', Len(input))
        /\ \A k \in Keys : \A off \in 0 .. Len(input) : \A p \in 0 .. KeyLen(k) - 1 :
              Queued(input, off, k, p) => Queued(input', off, k, p)
    BY <1>1, <1>4, <2>1, QueueAppend
  <2>3. \A k \in Keys : \A p \in 0 .. KeyLen(k) - 1 :
          Queued(input, 0, k, p) => Queued(input', 0, k, p)
    BY <1>1, <2>2
  <2>4. \A k \in Keys : 0 \in 0 .. KeyLen(k) - 1
                        /\ \A p \in 1 .. KeyLen(k) - 1 : p \in 0 .. KeyLen(k) - 1
    BY TaggedKey
  <2>5. WholeKey(input', 0)
      \/ ~(input = <<>> \/ WholeKey(input, 0))
    <3>1. CASE input = <<>>
      BY <2>2, <3>1
    <3>2. CASE WholeKey(input, 0)
      BY <2>3, <2>4, <3>2 DEF WholeKey
    <3> QED
      BY <3>1, <3>2
  <2>6. CASE Ended
    BY <1>2, <2>2, <2>6 DEF DecoderInv, Ended
  <2>7. CASE outcome = "typing" /\ Flushing
    BY <1>2, <2>2, <2>7 DEF DecoderInv, Flushing, Synced
  <2>8. CASE outcome = "typing" /\ AtKey
    BY <1>2, <2>2, <2>5, <2>8 DEF DecoderInv, AtKey, Synced
  <2>9. CASE outcome = "typing" /\ InWide
    <3>1. InWide'
      BY <1>2, <2>3, <2>4, <2>9 DEF InWide
    <3> QED
      BY <1>2, <2>2, <2>9, <3>1 DEF DecoderInv
  <2>10. CASE outcome = "typing" /\ InSequence
    <3>1. InSequence'
      BY <1>2, <2>3, <2>4, <2>10 DEF InSequence, Synced
    <3> QED
      BY <1>2, <2>2, <2>10, <3>1 DEF DecoderInv
  <2>11. CASE outcome = "typing" /\ AfterEscape
    BY <1>4, <2>11 DEF AfterEscape, EscapePending
  <2>12. CASE outcome = "typing" /\ InUnknown
    <3>1. InUnknown'
      BY <1>2, <2>3, <2>4, <2>12 DEF InUnknown, Synced
    <3> QED
      BY <1>2, <2>2, <2>12, <3>1 DEF DecoderInv
  <2>13. CASE outcome = "typing" /\ Swallowing
    <3>1. Inside => Inside'
      BY <1>2, <2>3, <2>4 DEF Inside
    <3>2. Swallowing'
      BY <1>2, <2>5, <2>13, <3>1 DEF Swallowing, Synced
    <3> QED
      BY <1>2, <2>2, <2>13, <3>2 DEF DecoderInv
  <2> QED
    BY <2>6, <2>7, <2>8, <2>9, <2>10, <2>11, <2>12, <2>13 DEF IInv, DecoderInv
<1> QED
  BY <1>2, <1>3, <1>4

LEMMA InitInv == Init => IInv
<1> SUFFICES ASSUME Init
             PROVE  IInv
  OBVIOUS
<1>1. Buffer!IInv /\ outcome = "typing" /\ cursor = 0 /\ Buffer!Text(size) = <<>>
  BY BufferInit DEF Init
<1>2. QueueOK(input)
  BY DEF Init, QueueOK
<1>3. IntendedOK(intended) /\ Flushing
  BY <1>1 DEF Init, IntendedOK, Flushing, Synced, Live
<1>4. DecoderInv /\ dec \in {"flush", "key", "esc", "csi", "delete", "skip"}
  BY <1>1, <1>3 DEF Init, DecoderInv
<1>5. pressed \in 0 .. MaxKeys /\ hung_up \in BOOLEAN
  <2>1. pressed = 0 /\ hung_up = FALSE
    BY DEF Init
  <2>2. 0 \in 0 .. MaxKeys
    BY BoundsAssumption
  <2>3. pressed \in 0 .. MaxKeys
    BY <2>1, <2>2
  <2>4. hung_up \in BOOLEAN
    BY <2>1
  <2> QED
    BY <2>3, <2>4
<1> QED
  BY <1>1, <1>2, <1>3, <1>4, <1>5 DEF IInv

LEMMA StepInv == IInv /\ [Next]_vars => IInv'
<1> SUFFICES ASSUME IInv, [Next]_vars
             PROVE  IInv'
  OBVIOUS
<1>1. CASE FlushByte(Next_byte) \/ FlushEnd
  BY <1>1, FlushStep
<1>2. CASE ReadKey(Next_byte)
  BY <1>2, ReadKeyStep
<1>3. CASE ReadEscape(Next_byte)
  BY <1>3, ReadEscapeStep
<1>4. CASE EscapeKey
  BY <1>4, EscapeKeyStep
<1>5. CASE ReadCSI(Next_byte)
  BY <1>5, SleepStep
<1>6. CASE ReadDelete(Next_byte)
  BY <1>6, SleepStep
<1>7. CASE Skip(Next_byte)
  BY <1>7, SleepStep
<1>8. ASSUME NEW key \in Keys, Press(key)
      PROVE  IInv'
  <2>1. QueueOK(input') /\ DecoderInv' /\ Buffer!IInv' /\ IntendedOK(intended')
    BY <1>8, StillThere DEF Press
  <2>2. pressed' \in 0 .. MaxKeys /\ hung_up' = hung_up /\ dec' = dec
    BY <1>8, BoundsAssumption DEF Press, IInv
  <2> QED
    BY <2>1, <2>2 DEF IInv
<1>9. CASE HangUp
  <2>1. QueueOK(input') /\ DecoderInv' /\ Buffer!IInv' /\ IntendedOK(intended')
    BY <1>9, StillThere DEF HangUp
  <2> QED
    BY <1>9, <2>1 DEF HangUp, IInv
<1>10. CASE UNCHANGED vars
  <2>1. QueueOK(input') /\ DecoderInv' /\ Buffer!IInv' /\ IntendedOK(intended')
    BY <1>10, StillThere DEF vars
  <2> QED
    BY <1>10, <2>1 DEF vars, IInv
<1> QED
  BY <1>1, <1>2, <1>3, <1>4, <1>5, <1>6, <1>7, <1>8, <1>9, <1>10
  DEF Next, Program, User

(* The invariant holds of every reachable state.                           *)
THEOREM Invariance == Spec => []IInv
  BY InitInv, StepInv, PTL DEF Spec

(* The buffer keeps its type and its cursor its place in the line, however *)
(* the decoder drives it, and the bytes queued are bytes of keys.          *)
THEOREM TypeCorrect == Spec => []TypeOK
<1>1. IInv => TypeOK
  <2> SUFFICES ASSUME IInv
               PROVE  TypeOK
    OBVIOUS
  <2>1. \A k \in DOMAIN input : input[k].key \in Keys \cup {"none"}
    <3>1. input \in Seq(Pieces)
      BY DEF IInv, QueueOK
    <3>2. \A k \in DOMAIN input : input[k] \in Pieces
      BY <3>1
    <3>3. \A x \in Pieces : x.key \in Keys \cup {"none"}
      BY DEF Pieces
    <3> QED
      BY <3>2, <3>3
  <2>2. Buffer!TypeOK
    BY DEF IInv, Buffer!IInv
  <2> QED
    BY <2>1, <2>2 DEF IInv, TypeOK
<1> QED
  BY <1>1, Invariance, PTL

(* Between two keys the buffer holds the line the keys stand for, and the  *)
(* prompt has ended as they say, for any of the keys of the module in any  *)
(* order and number: the bytes of a key neither reach the line nor the     *)
(* next key, but for the unknown keys with [Alt], which swallow what comes *)
(* up to the first key that ends in a letter or a tilde, no more and no    *)
(* less.                                                                   *)
THEOREM StaysInStep == Spec => []InStep
<1>1. IInv => InStep
  <2> SUFFICES ASSUME IInv, BetweenKeys \/ outcome # "typing"
               PROVE  /\ intended.swallow = "no"
                      /\ outcome = intended.outcome
                      /\ outcome = "typing" =>
                           Buffer!Text(size) = intended.line /\ cursor = intended.pos
                      /\ outcome = "accepted" => Buffer!Text(size - 1) = intended.line
    BY DEF InStep
  <2>1. CASE outcome # "typing"
    BY <2>1 DEF IInv, DecoderInv, Ended
  <2>2. CASE outcome = "typing"
    <3>1. dec = "key" /\ Next_byte # "cont"
      BY <2>2 DEF BetweenKeys
    <3>2. ~InWide
      <4> SUFFICES ASSUME InWide
                   PROVE  FALSE
        OBVIOUS
      <4>1. PICK key \in Keys \cap DOMAIN Wide : \E p \in 1 .. KeyLen(key) - 1 :
                    Queued(input, 0, key, p)
        BY DEF InWide
      <4>2. PICK p \in 1 .. KeyLen(key) - 1 : Queued(input, 0, key, p)
        BY <4>1
      <4>3. /\ p \in 0 .. KeyLen(key) - 1 /\ p + 1 \in 2 .. KeyLen(key)
            /\ input \in Seq(Pieces) /\ KeyBytes(key)[p + 1] = Wide[key][p + 1]
        BY TaggedKey, WideBytes DEF IInv, QueueOK
      <4>4. Wide[key][p + 1] = "cont"
        BY <4>3, WideBytes
      <4>5. input # <<>> /\ Head(input).byte = "cont"
        BY <4>2, <4>3, <4>4, QueueHead
      <4> QED
        BY <3>1, <4>5 DEF Next_byte
    <3>3. AtKey
      BY <2>2, <3>1, <3>2, DecoderAt
    <3> QED
      BY <2>2, <3>3 DEF AtKey, Synced, Live
  <2> QED
    BY <2>1, <2>2
<1> QED
  BY <1>1, Invariance, PTL

(* The password is a string that string.c's functions agree about, however *)
(* long the line and whatever was inserted and deleted to get to it.       *)
THEOREM ReadsBack == Spec => []PasswordReadsBack
<1>1. ASSUME IInv, outcome = "accepted"
      PROVE  Consistent(string_from_bytes(Bytes(Buffer!Text(size - 1))))
  <2>1. Buffer!Text(size - 1) = intended.line /\ WellFormed(intended.line)
    BY <1>1 DEF IInv, DecoderInv, Ended
  <2>2. intended.line \in Seq(Chars)
    BY <1>1 DEF IInv, IntendedOK
  <2>3. Consistent(string_from_bytes(Bytes(intended.line)))
    BY <2>1, <2>2, ConsistentLine
  <2> QED
    BY <2>1, <2>3
<1>2. IInv => PasswordReadsBack
  BY <1>1 DEF PasswordReadsBack
<1> QED
  BY <1>2, Invariance, PTL
=============================================================================
