------------------------ MODULE PasswdBuffer_proofs ------------------------
(***************************************************************************)
(* Proofs about PasswdBuffer, for every set of characters, any initial     *)
(* capacity of at least two bytes and lines of any length.                 *)
(***************************************************************************)
EXTENDS PasswdBuffer, TLAPS

(* LIST_APPENDED always gains at least one byte.                           *)
LEMMA GrowthGains ==
    ASSUME capacity \in Nat, capacity >= 2
    PROVE  Grown \in Nat /\ Grown > capacity
BY DEF Grown

(* Inserting a character keeps the cells and the clean tail.               *)
LEMMA InsertedCells ==
    ASSUME IInv, outcome = "typing", NEW ch \in Chars
    PROVE  /\ Inserted(ch) \in [0 .. capacity - 1 -> Cells]
           /\ \A k \in size + 1 .. capacity - 1 : Inserted(ch)[k] \notin Chars
<1> USE DEF IInv, TypeOK, BufferBounds, CleanTail, Inserted, Cells
<1>1. \A k \in 0 .. capacity - 1 :
         k > cursor => k - 1 \in 0 .. capacity - 1
  OBVIOUS
<1>2. Inserted(ch) \in [0 .. capacity - 1 -> Cells]
  BY <1>1
<1>3. ASSUME NEW k \in size + 1 .. capacity - 1
      PROVE  Inserted(ch)[k] \notin Chars
  <2>1. k \in 0 .. capacity - 1 /\ k > cursor
    OBVIOUS
  <2>2. CASE k = size + 1
    <3>1. Inserted(ch)[k] = passwd[size]
      BY <2>1, <2>2
    <3> QED
      BY <3>1
  <2>3. CASE k > size + 1
    BY <2>1, <2>3
  <2> QED
    BY <2>2, <2>3
<1> QED
  BY <1>2, <1>3

(* Removing one keeps them too.                                            *)
LEMMA RemovedCells ==
    ASSUME IInv, outcome = "typing", size > 0, NEW c \in 0 .. size - 1
    PROVE  /\ Removed(c) \in [0 .. capacity - 1 -> Cells]
           /\ \A k \in size - 1 .. capacity - 1 : Removed(c)[k] \notin Chars
<1> USE DEF IInv, TypeOK, BufferBounds, CleanTail, Removed, Cells
<1>1. \A k \in 0 .. capacity - 1 : k < size - 1 => k + 1 \in 0 .. capacity - 1
  OBVIOUS
<1>2. Removed(c) \in [0 .. capacity - 1 -> Cells]
  BY <1>1
<1>3. ASSUME NEW k \in size - 1 .. capacity - 1
      PROVE  Removed(c)[k] \notin Chars
  BY CellsAssumption
<1> QED
  BY <1>2, <1>3

(* LIST_APPENDED keeps the contents and restores the bound.                *)
LEMMA Appended ==
    ASSUME NEW buf \in [0 .. capacity - 1 -> Cells], NEW n \in Nat,
           capacity \in Nat, capacity >= 2, n < capacity,
           \A k \in n .. capacity - 1 : buf[k] \notin Chars,
           NothingLeft, LIST_APPENDED(buf, n)
    PROVE  /\ capacity' \in Nat /\ n + 1 < capacity'
           /\ passwd' \in [0 .. capacity' - 1 -> Cells]
           /\ \A k \in n .. capacity' - 1 : passwd'[k] \notin Chars
           /\ NothingLeft'
<1>1. CASE n + 1 = capacity
  <2>1. capacity' = Grown /\ Grown \in Nat /\ Grown > capacity
    BY <1>1, GrowthGains DEF LIST_APPENDED
  <2>2. passwd' = [k \in 0 .. Grown - 1 |-> IF k < n THEN buf[k] ELSE Junk]
    BY <1>1 DEF LIST_APPENDED
  <2>3. released' = mem_secure_delete(buf, capacity)
    BY <1>1 DEF LIST_APPENDED
  <2>4. passwd' \in [0 .. capacity' - 1 -> Cells]
    BY <2>1, <2>2 DEF Cells
  <2>5. \A k \in n .. capacity' - 1 : passwd'[k] \notin Chars
    BY <2>1, <2>2, CellsAssumption
  <2>6. NothingLeft'
    BY <2>3, CellsAssumption DEF NothingLeft, mem_secure_delete
  <2> QED
    BY <1>1, <2>1, <2>4, <2>5, <2>6
<1>2. CASE n + 1 # capacity
  BY <1>2 DEF LIST_APPENDED, NothingLeft
<1> QED
  BY <1>1, <1>2

LEMMA InitInv == Init => IInv
BY CapacityAssumption, CellsAssumption
DEF Init, IInv, TypeOK, BufferBounds, CleanTail, NothingLeft, Malloc, Cells

LEMMA StepInv == IInv /\ [Next]_vars => IInv'
<1> SUFFICES ASSUME IInv, [Next]_vars PROVE IInv'
  OBVIOUS
<1> USE DEF IInv, TypeOK, BufferBounds, CleanTail
<1>1. ASSUME NEW ch \in Chars, Insert(ch)
      PROVE  IInv'
  <2>1. LIST_APPENDED(Inserted(ch), size + 1)
    BY <1>1 DEF Insert
  <2>2. outcome = "typing" /\ outcome' = "typing"
    BY <1>1 DEF Insert, Typing
  <2>3. size' = size + 1 /\ cursor' = cursor + 1
    BY <1>1 DEF Insert
  <2>4. size + 1 < capacity
    BY <2>2
  <2>5. /\ Inserted(ch) \in [0 .. capacity - 1 -> Cells]
        /\ \A k \in size + 1 .. capacity - 1 : Inserted(ch)[k] \notin Chars
    BY <2>2, InsertedCells
  <2> HIDE DEF IInv, TypeOK, BufferBounds, CleanTail
  <2>6. size \in Nat /\ cursor \in 0 .. size /\ capacity \in Nat /\ NothingLeft
    BY DEF IInv, TypeOK
  <2>7. /\ capacity' \in Nat /\ size + 2 < capacity'
        /\ passwd' \in [0 .. capacity' - 1 -> Cells]
        /\ \A k \in size + 1 .. capacity' - 1 : passwd'[k] \notin Chars
        /\ NothingLeft'
    <3> DEFINE buf == Inserted(ch)
    <3>1. /\ buf \in [0 .. capacity - 1 -> Cells] /\ size + 1 \in Nat
          /\ capacity >= 2
      BY <2>4, <2>5, <2>6
    <3>2. LIST_APPENDED(buf, size + 1)
      BY <2>1
    <3> HIDE DEF buf
    <3> QED
      BY <2>4, <2>5, <2>6, <3>1, <3>2, Appended DEF buf
  <2>8. TypeOK'
    <3>1. size' \in Nat /\ cursor' \in 0 .. size'
      BY <2>3, <2>6
    <3>2. outcome' \in {"typing", "accepted", "none"}
      BY <2>2
    <3> QED
      BY <2>7, <3>1, <3>2, Zenon DEF TypeOK
  <2>9. BufferBounds'
    BY <2>3, <2>6, <2>7 DEF BufferBounds
  <2>10. CleanTail'
    BY <2>3, <2>7 DEF CleanTail
  <2> QED
    BY <2>7, <2>8, <2>9, <2>10 DEF IInv
<1>2. CASE Backspace
  <2>1. cursor - 1 \in 0 .. size - 1 /\ size > 0 /\ outcome = "typing"
    BY <1>2 DEF Backspace, Typing
  <2> QED
    BY <1>2, <2>1, RemovedCells DEF Backspace, Typing, NothingLeft
<1>3. CASE Delete
  <2>1. cursor \in 0 .. size - 1 /\ size > 0 /\ outcome = "typing"
    BY <1>3 DEF Delete, Typing
  <2> QED
    BY <1>3, <2>1, RemovedCells DEF Delete, Typing, NothingLeft
<1>4. CASE MoveCursor
  BY <1>4 DEF MoveCursor, MoveTo, Typing, NothingLeft
<1>5. CASE Submit
  BY <1>5 DEF Submit, Terminated, Cells, NothingLeft
<1>6. CASE NoOutput
  (* The bytes below size are wiped, those from size on were clean.        *)
  <2>1. passwd' = [k \in 0 .. capacity - 1 |->
                      IF k < size + 1 THEN Nul ELSE passwd[k]]
    BY <1>6 DEF NoOutput, Terminated, mem_secure_delete
  <2>2. passwd' \in [0 .. capacity - 1 -> Cells]
    BY <2>1 DEF Cells
  <2>3. \A k \in 0 .. capacity - 1 : passwd'[k] \notin Chars
    BY <1>6, <2>1, CellsAssumption DEF NoOutput
  <2>4. NothingLeft'
    BY <1>6, <2>2, <2>3 DEF NoOutput, NothingLeft
  <2> QED
    BY <1>6, <2>2, <2>4 DEF NoOutput
<1>7. CASE UNCHANGED vars
  BY <1>7 DEF vars, NothingLeft
<1> QED
  BY <1>1, <1>2, <1>3, <1>4, <1>5, <1>6, <1>7 DEF Next

(* The inductive invariant holds of every reachable state.                 *)
THEOREM Invariance == Spec => []IInv
  BY InitInv, StepInv, PTL DEF Spec

(* Size, cursor, capacity and the array keep their types.                  *)
THEOREM TypeCorrect == Spec => []TypeOK
<1>1. IInv => TypeOK
  BY DEF IInv
<1> QED
  BY <1>1, Invariance, PTL

(* No key sequence makes the prompt write outside its buffer.              *)
THEOREM StaysInBounds == Spec => []BufferBounds
<1>1. IInv => BufferBounds
  BY DEF IInv
<1> QED
  BY <1>1, Invariance, PTL

(* No buffer is given back with a typed character in it.                   *)
THEOREM LeavesNothing == Spec => []NothingLeft
<1>1. IInv => NothingLeft
  BY DEF IInv
<1> QED
  BY <1>1, Invariance, PTL

-----------------------------------------------------------------------------
(* Refinement: each key does to the line what the line editor says.        *)

LEMMA TextLength ==
    ASSUME NEW n \in Nat
    PROVE  Len(Text(n)) = n
BY DEF Text

(* LIST_APPENDED keeps the characters it moves.                            *)
LEMMA AppendedKeeps ==
    ASSUME NEW buf \in [0 .. capacity - 1 -> Cells], NEW n \in Nat,
           capacity \in Nat, n < capacity, LIST_APPENDED(buf, n)
    PROVE  \A k \in 0 .. n - 1 : passwd'[k] = buf[k]
<1>1. CASE n + 1 = capacity
  <2>1. Grown \in Nat /\ n < Grown
    BY DEF Grown
  <2>2. passwd' = [k \in 0 .. Grown - 1 |-> IF k < n THEN buf[k] ELSE Junk]
    BY <1>1 DEF LIST_APPENDED
  <2> QED
    BY <2>1, <2>2
<1>2. CASE n + 1 # capacity
  BY <1>2 DEF LIST_APPENDED
<1> QED
  BY <1>1, <1>2

LEMMA InsertText ==
    ASSUME IInv, NEW ch \in Chars, Insert(ch)
    PROVE  Text(size)' = [j \in 1 .. size + 1 |->
                            IF j <= cursor THEN Text(size)[j]
                            ELSE IF j = cursor + 1 THEN ch ELSE Text(size)[j - 1]]
<1>1. LIST_APPENDED(Inserted(ch), size + 1)
  BY DEF Insert
<1>2. outcome = "typing" /\ outcome' = "typing"
  BY DEF Insert, Typing
<1>3. size' = size + 1 /\ cursor' = cursor + 1
  BY DEF Insert
<1>4. /\ size \in Nat /\ cursor \in 0 .. size /\ capacity \in Nat
      /\ passwd \in [0 .. capacity - 1 -> Cells] /\ size + 1 < capacity
  BY <1>2 DEF IInv, TypeOK, BufferBounds
<1>5. \A k \in 0 .. size : passwd'[k] = Inserted(ch)[k]
  <2> DEFINE buf == Inserted(ch)
  <2>1. buf \in [0 .. capacity - 1 -> Cells]
    BY <1>2, InsertedCells
  <2>2. LIST_APPENDED(buf, size + 1)
    BY <1>1
  <2> HIDE DEF buf
  <2>3. \A k \in 0 .. (size + 1) - 1 : passwd'[k] = buf[k]
    BY <1>4, <2>1, <2>2, AppendedKeeps
  <2> QED
    BY <1>4, <2>3 DEF buf
<1>6. ASSUME NEW j \in 1 .. size + 1
      PROVE  passwd'[j - 1] = IF j <= cursor THEN Text(size)[j]
                              ELSE IF j = cursor + 1 THEN ch
                                   ELSE Text(size)[j - 1]
  <2>1. passwd'[j - 1] = Inserted(ch)[j - 1] /\ j - 1 \in 0 .. capacity - 1
    BY <1>4, <1>5
  <2>2. CASE j <= cursor
    BY <1>4, <2>1, <2>2 DEF Inserted, Text
  <2>3. CASE j = cursor + 1
    BY <1>4, <2>1, <2>3 DEF Inserted
  <2>4. CASE j > cursor + 1
    BY <1>4, <2>1, <2>4 DEF Inserted, Text
  <2> QED
    BY <1>4, <2>2, <2>3, <2>4
<1> QED
  BY <1>3, <1>6 DEF Text

LEMMA InsertRefines ==
    ASSUME IInv, NEW ch \in Chars, Insert(ch)
    PROVE  Line!Type
<1>1. /\ outcome = "typing" /\ outcome' = "typing"
      /\ size' = size + 1 /\ cursor' = cursor + 1 /\ size \in Nat
  BY DEF Insert, Typing, IInv, TypeOK
<1> QED
  BY <1>1, InsertText, TextLength DEF Line!Type, Line!Typing

LEMMA RemoveRefines ==
    ASSUME IInv, outcome = "typing", size > 0, NEW c \in 0 .. size - 1,
           passwd' = Removed(c), size' = size - 1
    PROVE  Text(size)' = [j \in 1 .. size - 1 |->
                            IF j < c + 1 THEN Text(size)[j]
                            ELSE Text(size)[j + 1]]
<1>1. /\ size \in Nat /\ capacity \in Nat
      /\ passwd \in [0 .. capacity - 1 -> Cells] /\ size + 1 < capacity
  BY DEF IInv, TypeOK, BufferBounds
<1>2. ASSUME NEW j \in 1 .. size - 1
      PROVE  passwd'[j - 1] = IF j < c + 1 THEN Text(size)[j]
                              ELSE Text(size)[j + 1]
  <2>1. j - 1 \in DOMAIN passwd /\ j - 1 < size - 1
    BY <1>1
  <2>2. CASE j < c + 1
    BY <1>1, <2>1, <2>2 DEF Removed, Text
  <2>3. CASE j >= c + 1
    BY <1>1, <2>1, <2>3 DEF Removed, Text
  <2> QED
    BY <1>1, <2>2, <2>3
<1> QED
  BY <1>2 DEF Text

(* The end of the prompt keeps the characters in front of its NUL.         *)
LEMMA SubmitText ==
    ASSUME IInv, Submit
    PROVE  Text(size - 1)' = Text(size)
<1>1. \A k \in 0 .. size - 1 : passwd'[k] = passwd[k]
  BY DEF IInv, TypeOK, Submit, Terminated
<1> QED
  BY <1>1 DEF IInv, TypeOK, Submit, Text

LEMMA LineInit == Init => Line!Init
BY DEF Init, Line!Init, Text

LEMMA LineStep ==
    ASSUME IInv, [Next]_vars
    PROVE  [Line!Next]_(Line!lineVars)
<1> USE DEF IInv, TypeOK, BufferBounds
<1>1. ASSUME NEW ch \in Chars, Insert(ch)
      PROVE  [Line!Next]_(Line!lineVars)
  BY <1>1, InsertRefines DEF Line!Next
<1>2. CASE Backspace
  <2>1. /\ cursor - 1 \in 0 .. size - 1 /\ size > 0 /\ outcome = "typing"
        /\ outcome' = "typing" /\ cursor' = cursor - 1
    BY <1>2 DEF Backspace, Typing
  <2>2. Text(size)' = Line!Without(cursor)
    <3>1. PICK c \in 0 .. size - 1 : c = cursor - 1
      BY <2>1
    <3>2. c + 1 = cursor /\ passwd' = Removed(c) /\ size' = size - 1
      BY <1>2, <2>1, <3>1 DEF Backspace
    <3>3. Text(size)' = [j \in 1 .. size - 1 |->
                           IF j < cursor THEN Text(size)[j]
                           ELSE Text(size)[j + 1]]
      BY <2>1, <3>2, RemoveRefines
    <3> QED
      BY <2>1, <3>3, TextLength DEF Line!Without
  <2>3. Line!Backspace
    BY <2>1, <2>2 DEF Line!Backspace, Line!Typing
  <2> QED
    BY <2>3 DEF Line!Next
<1>3. CASE Delete
  <2>1. /\ cursor \in 0 .. size - 1 /\ size > 0 /\ outcome = "typing"
        /\ outcome' = "typing" /\ cursor' = cursor
    BY <1>3 DEF Delete, Typing
  <2>2. Text(size)' = Line!Without(cursor + 1)
    BY <1>3, <2>1, RemoveRefines, TextLength DEF Delete, Line!Without
  <2>3. Line!Delete
    BY <2>1, <2>2, TextLength DEF Line!Delete, Line!Typing
  <2> QED
    BY <2>3 DEF Line!Next
<1>4. CASE MoveCursor
  <2>1. /\ outcome = "typing" /\ outcome' = "typing" /\ Text(size)' = Text(size)
        /\ cursor' \in 0 .. size /\ cursor' \in {0, cursor - 1, cursor + 1, size}
    BY <1>4 DEF MoveCursor, MoveTo, Typing, Text
  <2>2. Line!Move
    BY <2>1, TextLength DEF Line!Move, Line!Typing
  <2> QED
    BY <2>2 DEF Line!Next
<1>5. CASE Submit
  <2>1. Text(size - 1)' = Text(size)
    BY <1>5, SubmitText
  <2>2. Line!Accept
    BY <1>5, <2>1 DEF Submit, Line!Accept
  <2> QED
    BY <2>2 DEF Line!Next
<1>6. CASE NoOutput
  <2>1. Line!Refuse
    BY <1>6 DEF NoOutput, Line!Refuse
  <2> QED
    BY <2>1 DEF Line!Next
<1>7. CASE UNCHANGED vars
  BY <1>7 DEF vars, Line!lineVars, Text
<1> QED
  BY <1>1, <1>2, <1>3, <1>4, <1>5, <1>6, <1>7 DEF Next

(* The buffer implements the line editor.                                  *)
THEOREM Refinement == Spec => ImplementsLine
<1>1. IInv /\ [Next]_vars => [Line!Next]_(Line!lineVars)
  BY LineStep
<1> QED
  BY <1>1, LineInit, Invariance, PTL DEF Spec, ImplementsLine, Line!Spec

=============================================================================
