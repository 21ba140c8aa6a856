-------------------------- MODULE PromptLine_proofs --------------------------
(***************************************************************************)
(* Proofs about PromptLine, for terminals of any width, prompts and lines  *)
(* of any length.                                                          *)
(***************************************************************************)
EXTENDS PromptLine, PasswdBuffer_proofs

-----------------------------------------------------------------------------
(* Division, by a divisor that is not a constant.                          *)
LEMMA DivBounds ==
    ASSUME NEW x \in Nat, NEW c \in Nat, c >= 1
    PROVE  /\ x \div c \in Nat /\ x % c \in 0 .. c - 1
           /\ x = c * (x \div c) + (x % c)
OBVIOUS

LEMMA DivUnique ==
    ASSUME NEW x \in Nat, NEW c \in Nat, c >= 1,
           NEW q \in Nat, NEW r \in 0 .. c - 1, x = c * q + r
    PROVE  x \div c = q /\ x % c = r
<1>1. x = c * (x \div c) + (x % c) /\ x \div c \in Nat /\ x % c \in 0 .. c - 1
  BY DivBounds
<1>2. CASE x \div c > q
  BY <1>1, <1>2
<1>3. CASE x \div c < q
  BY <1>1, <1>3
<1> QED
  BY <1>1, <1>2, <1>3

LEMMA DivMonotone ==
    ASSUME NEW c \in Nat, c >= 1, NEW a \in Nat, NEW b \in Nat, a <= b
    PROVE  a \div c <= b \div c
<1>1. /\ a = c * (a \div c) + (a % c) /\ a \div c \in Nat /\ a % c \in 0 .. c - 1
      /\ b = c * (b \div c) + (b % c) /\ b \div c \in Nat /\ b % c \in 0 .. c - 1
  BY DivBounds
<1>2. CASE a \div c > b \div c
  BY <1>1, <1>2
<1> QED
  BY <1>1, <1>2

LEMMA DivAdd ==
    ASSUME NEW c \in Nat, c >= 1, NEW q \in Nat, NEW b \in Nat
    PROVE  (c * q + b) \div c = q + (b \div c)
<1>0. b \div c \in Nat /\ b % c \in 0 .. c - 1 /\ b = c * (b \div c) + (b % c)
  BY DivBounds
<1> DEFINE x == c * q + b
           d == q + (b \div c)
<1>1. x \in Nat /\ d \in Nat
  BY <1>0
<1>2. x = c * d + (b % c)
  BY <1>0
<1> HIDE DEF x, d
<1>3. x \div c = d
  BY <1>0, <1>1, <1>2, DivUnique
<1> QED
  BY <1>3 DEF x, d

(* From one column to the next.                                            *)
LEMMA DivNext ==
    ASSUME NEW x \in Nat, NEW c \in Nat, c >= 2
    PROVE  /\ x \div c \in Nat /\ x % c \in 0 .. c - 1
           /\ (x % c) + 1 < c =>
                (x + 1) \div c = x \div c /\ (x + 1) % c = (x % c) + 1
           /\ (x % c) + 1 = c =>
                (x + 1) \div c = (x \div c) + 1 /\ (x + 1) % c = 0
<1> DEFINE q == x \div c
           r == x % c
<1>0. c >= 1
  OBVIOUS
<1>1. q \in Nat /\ r \in 0 .. c - 1 /\ x = c * q + r
  BY <1>0, DivBounds
<1> HIDE DEF q, r
<1>2. ASSUME r + 1 < c
      PROVE  (x + 1) \div c = q /\ (x + 1) % c = r + 1
  <2>1. x + 1 = c * q + (r + 1) /\ r + 1 \in 0 .. c - 1 /\ x + 1 \in Nat
    BY <1>1, <1>2
  <2> QED
    BY <1>0, <1>1, <2>1, DivUnique
<1>3. ASSUME r + 1 = c
      PROVE  (x + 1) \div c = q + 1 /\ (x + 1) % c = 0
  <2> DEFINE q1 == q + 1
  <2>1. x + 1 = c * q1 + 0 /\ 0 \in 0 .. c - 1 /\ x + 1 \in Nat /\ q1 \in Nat
    BY <1>1, <1>3
  <2> HIDE DEF q1
  <2>2. (x + 1) \div c = q1 /\ (x + 1) % c = 0
    BY <1>0, <2>1, DivUnique
  <2> QED
    BY <2>2 DEF q1
<1> QED
  BY <1>1, <1>2, <1>3 DEF q, r

LEMMA DivSmall ==
    ASSUME NEW x \in Nat, NEW c \in Nat, c >= 1, x < c
    PROVE  x \div c = 0 /\ x % c = x
<1>1. x = c * 0 + x /\ x \in 0 .. c - 1
  OBVIOUS
<1> QED
  BY <1>1, DivUnique

-----------------------------------------------------------------------------
LEMMA TermFacts ==
    ASSUME term \in Terminals
    PROVE  /\ term.cols \in Nat /\ term.cols >= 2
           /\ term.prompt \in Nat /\ term.prompt >= 2
BY TerminalsAssumption

(* How far a redraw falls short of the row the old line ended on: never    *)
(* for a character that was inserted, by one row at most else.             *)
LEMMA RedrawRows ==
    ASSUME term \in Terminals, size \in Nat
    PROVE  /\ Missed(size + 1) = 0
           /\ Missed(size) \in {0, 1}
           /\ size > 0 => Missed(size - 1) \in {0, 1}
<1> DEFINE c == term.cols
           x == term.prompt + size - 1
<1>1. c \in Nat /\ c >= 2 /\ x \in Nat
  BY TermFacts
<1>2. LastRow(size) = x \div c
  <2>1. Length(size) - 1 = x
    BY TermFacts DEF Length
  <2> QED
    BY <2>1 DEF LastRow
<1>3. /\ rows_to_clear(size + 1) =
             (x + 2) \div c - (IF (x + 2) % c <= 1 THEN 1 ELSE 0) + 1
      /\ rows_to_clear(size) =
             (x + 1) \div c - (IF (x + 1) % c <= 1 THEN 1 ELSE 0) + 1
      /\ rows_to_clear(size - 1) = x \div c - (IF x % c <= 1 THEN 1 ELSE 0) + 1
  <2>1. /\ Length(size + 1) = x + 2 /\ Length(size) = x + 1
        /\ Length(size - 1) = x
    BY TermFacts DEF Length
  <2> QED
    BY <2>1 DEF rows_to_clear
<1> HIDE DEF c, x
<1>4. /\ x \div c \in Nat /\ x % c \in 0 .. c - 1
      /\ (x % c) + 1 < c =>
           (x + 1) \div c = x \div c /\ (x + 1) % c = (x % c) + 1
      /\ (x % c) + 1 = c =>
           (x + 1) \div c = (x \div c) + 1 /\ (x + 1) % c = 0
  BY <1>1, DivNext
<1>5. /\ ((x + 1) % c) + 1 < c =>
           (x + 2) \div c = (x + 1) \div c /\ (x + 2) % c = ((x + 1) % c) + 1
      /\ ((x + 1) % c) + 1 = c =>
           (x + 2) \div c = ((x + 1) \div c) + 1 /\ (x + 2) % c = 0
  <2> DEFINE y == x + 1
  <2>1. y \in Nat /\ y + 1 = x + 2
    BY <1>1
  <2> HIDE DEF y
  <2>2. /\ (y % c) + 1 < c =>
             (y + 1) \div c = y \div c /\ (y + 1) % c = (y % c) + 1
        /\ (y % c) + 1 = c =>
             (y + 1) \div c = (y \div c) + 1 /\ (y + 1) % c = 0
    BY <1>1, <2>1, DivNext
  <2> QED
    BY <2>1, <2>2 DEF y
<1> QED
  BY <1>1, <1>2, <1>3, <1>4, <1>5 DEF Missed

(* In a row that the prompt and the buffer fit into, none is missed.       *)
LEMMA OneRow ==
    ASSUME term \in Terminals, size \in Nat, capacity \in Nat, size + 1 < capacity,
           term.prompt + capacity <= term.cols
    PROVE  /\ Missed(size + 1) = 0 /\ Missed(size) = 0
           /\ size > 0 => Missed(size - 1) = 0
<1> DEFINE c == term.cols
<1>1. c \in Nat /\ c >= 2 /\ term.prompt \in Nat /\ term.prompt >= 2
  BY TermFacts
<1>2. ASSUME NEW n \in Nat, n <= size + 1
      PROVE  rows_to_clear(n) = 1
  <2>1. Length(n) \in Nat /\ Length(n) < c /\ Length(n) >= 2
    BY <1>1, <1>2 DEF Length
  <2>2. Length(n) \div c = 0 /\ Length(n) % c = Length(n)
    BY <1>1, <2>1, DivSmall
  <2> QED
    BY <2>1, <2>2 DEF rows_to_clear
<1>3. LastRow(size) = 0
  <2>1. Length(size) - 1 \in Nat /\ Length(size) - 1 < c
    BY <1>1 DEF Length
  <2> QED
    BY <1>1, <2>1, DivSmall DEF LastRow
<1>4. size + 1 \in Nat /\ (size > 0 => size - 1 \in Nat)
  OBVIOUS
<1> QED
  BY <1>2, <1>3, <1>4 DEF Missed

(* The final clearing: the blanks printed reach at least the row of the    *)
(* capacity's last column, and the row of the prompt where all fits there. *)
LEMMA ClearRows ==
    ASSUME term \in Terminals, size \in Nat, cursor \in 0 .. size,
           capacity \in Nat, size + 1 < capacity
    PROVE  LET m == (LastRow(size)
                      + ((Column + capacity - cursor - 1) \div term.cols))
                      - (capacity \div term.cols)
           IN  /\ m \in Nat
               /\ term.prompt + capacity <= term.cols => m = 0
<1> DEFINE c == term.cols
           x == term.prompt + size - 1
           q == x \div c
           r == x % c
           blank == Column + capacity - cursor - 1
<1>1. /\ c \in Nat /\ c >= 1 /\ c >= 2 /\ x \in Nat
      /\ term.prompt \in Nat /\ term.prompt >= 2
  BY TermFacts
<1>2. Length(size) - 1 = x /\ LastRow(size) = q
  <2>1. Length(size) - 1 = x
    BY TermFacts DEF Length
  <2> QED
    BY <2>1 DEF LastRow
<1>3. q \in Nat /\ r \in 0 .. c - 1 /\ x = c * q + r
  BY <1>1, DivBounds
<1>4. LET at == IF r + 1 = c THEN r ELSE r + 1
      IN  Column = IF cursor = size THEN r + 1
                   ELSE IF at > size - cursor THEN at - (size - cursor) ELSE 0
  <2> DEFINE behind == ((Length(size) - 1) % term.cols) + 1
             at == IF behind = term.cols THEN behind - 1 ELSE behind
  <2>1. behind = r + 1
    BY <1>2
  <2>2. r \in Int
    BY <1>3
  <2>3. Column = IF cursor = size THEN behind
                 ELSE IF at > size - cursor THEN at - (size - cursor) ELSE 0
    BY DEF Column
  <2> HIDE DEF r, q, x, behind
  <2>4. at = IF r + 1 = c THEN r ELSE r + 1
    BY <2>1, <2>2
  <2> HIDE DEF at
  <2> QED
    BY <2>1, <2>3, <2>4
<1>5. x = term.prompt + size - 1
  OBVIOUS
<1>6. c = term.cols
  OBVIOUS
<1> HIDE DEF c, x, q, r
<1>7. blank \in Nat /\ blank >= capacity - size + r - 1
  BY <1>1, <1>3, <1>4
<1>8. x - r \in Nat /\ x - r = c * q
  BY <1>1, <1>3
<1>9. c * q + blank >= capacity
  BY <1>1, <1>3, <1>5, <1>7, <1>8
<1>10. (c * q + blank) \div c = q + (blank \div c)
  BY <1>1, <1>3, <1>7, DivAdd
<1>11. capacity \div c <= (c * q + blank) \div c
  <2> DEFINE b == c * q + blank
  <2>1. b \in Nat /\ capacity <= b
    BY <1>3, <1>7, <1>8, <1>9
  <2> HIDE DEF b
  <2>2. capacity \div c <= b \div c
    BY <1>1, <2>1, DivMonotone
  <2> QED
    BY <2>2 DEF b
<1>12. capacity \div c \in Nat /\ blank \div c \in Nat
  BY <1>1, <1>7, DivBounds
<1>13. ASSUME term.prompt + capacity <= c
       PROVE  q = 0 /\ blank \div c = 0 /\ capacity \div c = 0
  <2>1. x < c /\ capacity < c
    BY <1>1, <1>5, <1>13
  <2>2. q = 0 /\ r = x
    BY <1>1, <2>1, DivSmall DEF q, r
  <2>3. blank < c
    BY <1>1, <1>4, <1>5, <1>13, <2>2
  <2> QED
    BY <1>1, <1>7, <2>1, <2>2, <2>3, DivSmall
<1> QED
  BY <1>2, <1>3, <1>6, <1>10, <1>11, <1>12, <1>13

-----------------------------------------------------------------------------
(* PromptLine adds a screen to PasswdBuffer and changes nothing in it.     *)
LEMMA PromptStep == [PromptNext]_<<vars, lineVars>> => [Next]_vars
<1> SUFFICES ASSUME [PromptNext]_<<vars, lineVars>>
             PROVE  [Next]_vars
  OBVIOUS
<1>1. CASE \/ \E ch \in Chars : Insert(ch)
           \/ Backspace \/ Delete \/ MoveCursor \/ Submit \/ NoOutput
  BY <1>1 DEF Next
<1>2. CASE OtherKey
  BY <1>2 DEF OtherKey, Typing, vars
<1>3. CASE UNCHANGED <<vars, lineVars>>
  BY <1>3 DEF vars
<1> QED
  BY <1>1, <1>2, <1>3 DEF PromptNext

LEMMA PromptImplements == PromptSpec => Spec
BY PromptStep, PTL DEF PromptSpec, PromptInit, Spec

(* Where the prompt and the buffer fit into one row, no row is missed.     *)
RowsInv ==
    /\ term \in Terminals
    /\ missed \in Nat
    /\ term.prompt + capacity <= term.cols => missed = 0 /\ ~stale

LEMMA RowsInit == PromptInit => RowsInv
BY DEF PromptInit, RowsInv

(* A row more is only missed when something is.                            *)
LEMMA StaleStays ==
    ASSUME NEW m, stale' = (stale \/ m > 0), ~stale, ~(m > 0)
    PROVE  ~stale'
OBVIOUS

LEMMA RowsStep ==
    ASSUME IInv, RowsInv, PromptNext
    PROVE  RowsInv'
<1>1. /\ term \in Terminals /\ size \in Nat /\ cursor \in 0 .. size
      /\ capacity \in Nat
      /\ outcome = "typing" => size + 1 < capacity
  BY DEF RowsInv, IInv, TypeOK, BufferBounds
<1>2. term.prompt \in Nat /\ term.cols \in Nat
  BY <1>1, TermFacts
<1>3. ASSUME outcome = "typing", NEW n \in {size + 1, size, size - 1},
             n = size - 1 => size > 0, Redraw(n),
             capacity' \in Nat, capacity' >= capacity
      PROVE  RowsInv'
  <2>1. term' = term /\ missed' = Missed(n)
    BY <1>3 DEF Redraw
  <2>2. missed' \in Nat
    BY <1>1, <1>3, <2>1, RedrawRows
  <2>3. ASSUME term.prompt + capacity' <= term.cols
        PROVE  missed' = 0 /\ ~stale'
    <3>1. term.prompt + capacity <= term.cols
      BY <1>1, <1>2, <1>3, <2>3
    <3>2. Missed(n) = 0 /\ ~stale
      BY <1>1, <1>3, <3>1, OneRow DEF RowsInv
    <3>3. ~(Missed(n) > 0)
      BY <3>2
    <3>4. ~stale'
      BY <1>3, <3>2, <3>3, StaleStays DEF Redraw
    <3> QED
      BY <2>1, <3>2, <3>4
  <2> QED
    BY <1>1, <2>1, <2>2, <2>3 DEF RowsInv
<1>4. ASSUME outcome = "typing", ClearLine, capacity' = capacity
      PROVE  RowsInv'
  <2> DEFINE m == (LastRow(size)
                    + ((Column + capacity - cursor - 1) \div term.cols))
                    - (capacity \div term.cols)
  <2>1. m \in Nat /\ (term.prompt + capacity <= term.cols => m = 0)
    BY <1>1, <1>4, ClearRows
  <2>2. term' = term /\ missed' = m
    <3>1. missed' = m
      BY <1>4 DEF ClearLine
    <3>2. term' = term
      BY <1>4 DEF ClearLine
    <3> QED
      BY <3>1, <3>2
  <2> HIDE DEF m
  <2>3. ASSUME term.prompt + capacity <= term.cols
        PROVE  missed' = 0 /\ ~stale'
    <3>1. Missed(size) = 0 /\ ~stale
      BY <1>1, <1>4, <2>3, OneRow DEF RowsInv
    <3>2. ~(Missed(size) > 0)
      BY <3>1
    <3>3. ~stale'
      BY <1>4, <3>1, <3>2, StaleStays DEF ClearLine
    <3> QED
      BY <2>1, <2>2, <2>3, <3>3
  <2> QED
    BY <1>1, <1>4, <2>1, <2>2, <2>3 DEF RowsInv
<1>5. ASSUME NEW ch \in Chars, Insert(ch), Redraw(size + 1)
      PROVE  RowsInv'
  <2>1. outcome = "typing" /\ LIST_APPENDED(Inserted(ch), size + 1)
    BY <1>5 DEF Insert, Typing
  <2>2. capacity' \in Nat /\ capacity' >= capacity
    <3>1. Grown \in Nat /\ Grown > capacity
      BY <1>1, <2>1, GrowthGains
    <3> QED
      BY <1>1, <2>1, <3>1 DEF LIST_APPENDED
  <2>3. size + 1 # size - 1
    BY <1>1
  <2> QED
    BY <1>3, <1>5, <2>1, <2>2, <2>3
<1>6. CASE (Backspace \/ Delete) /\ Redraw(size - 1)
  <2>1. outcome = "typing" /\ capacity' = capacity /\ size > 0
    BY <1>1, <1>6 DEF Backspace, Delete, Typing
  <2> QED
    BY <1>1, <1>3, <1>6, <2>1
<1>7. CASE (MoveCursor \/ OtherKey) /\ Redraw(size)
  <2>1. outcome = "typing" /\ capacity' = capacity
    BY <1>7 DEF MoveCursor, MoveTo, OtherKey, Typing
  <2>2. size # size - 1
    BY <1>1
  <2> QED
    BY <1>1, <1>3, <1>7, <2>1, <2>2
<1>8. CASE (Submit \/ NoOutput) /\ ClearLine
  BY <1>4, <1>8 DEF Submit, NoOutput
<1> QED
  BY <1>5, <1>6, <1>7, <1>8 DEF PromptNext

LEMMA RowsInvariance == PromptSpec => [](IInv /\ RowsInv)
<1>1. PromptInit => IInv /\ RowsInv
  BY InitInv, RowsInit DEF PromptInit
<1>2. IInv /\ RowsInv /\ [PromptNext]_<<vars, lineVars>> => IInv' /\ RowsInv'
  <2> SUFFICES ASSUME IInv, RowsInv, [PromptNext]_<<vars, lineVars>>
               PROVE  IInv' /\ RowsInv'
    OBVIOUS
  <2>1. IInv'
    BY PromptStep, StepInv
  <2>2. CASE UNCHANGED <<vars, lineVars>>
    BY <2>1, <2>2 DEF RowsInv, vars, lineVars
  <2> QED
    BY <2>1, <2>2, RowsStep
<1> QED
  BY <1>1, <1>2, PTL DEF PromptSpec

(* Neither a redraw nor the final clearing goes above the prompt's row,    *)
(* on a terminal of any width and for prompts and lines of any length.     *)
THEOREM ErasesNothingAbove == PromptSpec => []NothingAboveErased
<1>1. RowsInv => NothingAboveErased
  BY DEF RowsInv, NothingAboveErased
<1> QED
  BY <1>1, RowsInvariance, PTL

(* Where the prompt and the buffer fit into one row, the prompt leaves no  *)
(* star to count.                                                          *)
THEOREM HidesLength == PromptSpec => []LengthHidden
<1>1. RowsInv => LengthHidden
  BY DEF RowsInv, LengthHidden
<1> QED
  BY <1>1, RowsInvariance, PTL

(* A character that is inserted leaves no row of the old line.             *)
THEOREM TypesInPlace == PromptSpec => TypingInPlace
<1>1. IInv /\ RowsInv /\ [PromptNext]_<<vars, lineVars>>
        => [outcome' = "typing" /\ size' = size + 1 => missed' = 0]_<<vars, lineVars>>
  <2> SUFFICES ASSUME IInv, RowsInv, PromptNext, outcome' = "typing",
                      size' = size + 1
               PROVE  missed' = 0
    OBVIOUS
  <2>1. size \in Nat /\ term \in Terminals
    BY DEF IInv, TypeOK, RowsInv
  <2>2. Redraw(size + 1)
    BY <2>1 DEF PromptNext, Backspace, Delete, MoveCursor, MoveTo, OtherKey,
                Submit, NoOutput
  <2> QED
    BY <2>1, <2>2, RedrawRows DEF Redraw
<1> QED
  BY <1>1, RowsInvariance, PTL DEF PromptSpec, TypingInPlace

(* The line on the screen is edited as LineEditor says.                    *)
THEOREM PromptRefinement == PromptSpec => ImplementsLine
BY PromptImplements, Refinement, PTL
=============================================================================
