---------------------------- MODULE PasswdBuffer ----------------------------
(***************************************************************************)
(* The line editor of keyboard_ask_passwd (io/keyboard.c) on its memory:   *)
(* the array passwd with size, cursor and capacity, grown by LIST_APPENDED *)
(* (types/list.h) and wiped by mem_secure_delete.  Keys are already        *)
(* decoded.  Each loop that shifts the array is written as its result: the *)
(* insertion loop runs from size down to cursor, the deletion loops from   *)
(* cursor up to size.                                                      *)
(***************************************************************************)
EXTENDS Integers, Sequences

CONSTANTS
    Chars,           \* bytes that are not control characters
    Nul,             \* the byte 0
    Junk,            \* whatever malloc left in a byte nobody wrote
    InitCapacity,    \* 10 in LIST_BEGIN
    MaxSize          \* bound: no character is inserted into a longer line

ASSUME CellsAssumption == Nul \notin Chars /\ Junk \notin Chars
ASSUME CapacityAssumption == InitCapacity \in Nat /\ InitCapacity >= 2
ASSUME MaxSizeAssumption == MaxSize \in Nat

VARIABLES
    passwd,      \* the buffer: a function on 0 .. capacity - 1
    size,
    capacity,
    cursor,
    released,    \* the buffer freed last, as it was when it was freed
    outcome      \* "typing", "accepted" or "none" (no_output)

vars == <<passwd, size, capacity, cursor, released, outcome>>

Cells == Chars \cup {Nul, Junk}

Malloc(n) == [k \in 0 .. n - 1 |-> Junk]

Init ==
    /\ size = 0 /\ cursor = 0
    /\ capacity = InitCapacity
    /\ passwd = Malloc(InitCapacity)
    /\ released = <<>>
    /\ outcome = "typing"

-----------------------------------------------------------------------------
(* mem_secure_delete of the first n bytes.                                 *)
mem_secure_delete(buf, n) == [k \in DOMAIN buf |-> IF k < n THEN Nul ELSE buf[k]]

(* LIST_APPENDED on buffer buf that now holds n characters.                *)
Grown == capacity + capacity \div 2

(* Mutant: the test forgets the byte for the final NUL.                    *)
LIST_APPENDED_late(buf, n) ==
    IF n = capacity
      THEN /\ capacity' = Grown
           /\ passwd' = [k \in 0 .. Grown - 1 |-> IF k < n THEN buf[k] ELSE Junk]
           /\ released' = mem_secure_delete(buf, capacity)
      ELSE passwd' = buf /\ UNCHANGED <<capacity, released>>

LIST_APPENDED(buf, n) ==
    IF n + 1 = capacity
      THEN /\ capacity' = Grown
           /\ passwd' = [k \in 0 .. Grown - 1 |-> IF k < n THEN buf[k] ELSE Junk]
           /\ released' = mem_secure_delete(buf, capacity)
      ELSE passwd' = buf /\ UNCHANGED <<capacity, released>>

-----------------------------------------------------------------------------
Typing == outcome = "typing" /\ UNCHANGED outcome

(* A printable byte: the tail moves up, one cell past the end included.    *)
Inserted(ch) ==
    [k \in DOMAIN passwd |->
        IF k = cursor THEN ch
        ELSE IF cursor < k /\ k <= size + 1 THEN passwd[k - 1] ELSE passwd[k]]

Insert(ch) ==
    /\ Typing
    /\ size < MaxSize
    /\ size' = size + 1
    /\ cursor' = cursor + 1
    /\ LIST_APPENDED(Inserted(ch), size + 1)

(* The tail right of cell k moves down, and the cell it leaves is cleared. *)
(* Mutants: the cell is left as it is; the shift starts one too late.      *)
Removed_uncleared(k) ==
    [j \in DOMAIN passwd |->
        IF k <= j /\ j < size - 1 THEN passwd[j + 1] ELSE passwd[j]]

Removed_late(k) ==
    [j \in DOMAIN passwd |->
        IF j = size - 1 THEN Nul
        ELSE IF k < j /\ j < size - 1 THEN passwd[j + 1] ELSE passwd[j]]

Removed(k) ==
    [j \in DOMAIN passwd |->
        IF j = size - 1 THEN Nul
        ELSE IF k <= j /\ j < size - 1 THEN passwd[j + 1] ELSE passwd[j]]

Backspace ==
    /\ Typing
    /\ cursor # 0
    /\ cursor' = cursor - 1
    /\ passwd' = Removed(cursor - 1)
    /\ size' = size - 1
    /\ UNCHANGED <<capacity, released>>

Delete ==
    /\ Typing
    /\ cursor # size
    /\ passwd' = Removed(cursor)
    /\ size' = size - 1
    /\ UNCHANGED <<cursor, capacity, released>>

MoveTo(c) == Typing /\ cursor' = c /\ UNCHANGED <<passwd, size, capacity, released>>

(* Mutant: [Right] does not stop at the end of the line.                   *)
MoveCursor_unstopped ==
    \/ MoveTo(0)
    \/ MoveTo(size)
    \/ MoveTo(cursor + 1)
    \/ cursor > 0 /\ MoveTo(cursor - 1)

(* [Home] and [Down], [End] and [Up], [Right], [Left].                     *)
MoveCursor ==
    \/ MoveTo(0)
    \/ MoveTo(size)
    \/ cursor < size /\ MoveTo(cursor + 1)
    \/ cursor > 0 /\ MoveTo(cursor - 1)

(* The end of the prompt: the NUL is appended without LIST_APPENDED, and   *)
(* without a password the bytes up to it are wiped and freed.              *)
Terminated == [passwd EXCEPT ![size] = Nul]

Submit ==
    /\ outcome = "typing"
    /\ outcome' = "accepted"
    /\ passwd' = Terminated
    /\ size' = size + 1
    /\ UNCHANGED <<capacity, cursor, released>>

(* [Control-C]; [Control-D] on an empty line; a line that is not UTF-8.    *)
NoOutput ==
    /\ outcome = "typing"
    /\ outcome' = "none"
    /\ passwd' = mem_secure_delete(Terminated, size + 1)
    /\ released' = passwd'
    /\ size' = size + 1
    /\ UNCHANGED <<capacity, cursor>>

Next ==
    \/ \E ch \in Chars : Insert(ch)
    \/ Backspace \/ Delete \/ MoveCursor \/ Submit \/ NoOutput

Spec == Init /\ [][Next]_vars

-----------------------------------------------------------------------------
(* Type invariant: the cursor is inside the line, the buffer has exactly   *)
(* capacity cells.                                                         *)
TypeOK ==
    /\ size \in Nat /\ cursor \in 0 .. size
    /\ capacity \in Nat
    /\ passwd \in [0 .. capacity - 1 -> Cells]
    /\ outcome \in {"typing", "accepted", "none"}

(* The insertion writes passwd[size+1] and the end writes passwd[size++]   *)
(* without asking LIST_APPENDED again: both are inside the buffer, after   *)
(* any sequence of insertions, deletions and growths.                      *)
BufferBounds == outcome = "typing" => size + 1 < capacity

(* A buffer that is given back holds no typed character: neither the one   *)
(* outgrown nor the one of a prompt without a password, although only the  *)
(* first size bytes of that one are wiped.                                 *)
NothingLeft == \A k \in DOMAIN released : released[k] \notin Chars

(* The inductive invariant: cells beyond the line hold no typed character. *)
CleanTail ==
    outcome = "typing" => \A k \in size .. capacity - 1 : passwd[k] \notin Chars

IInv == TypeOK /\ BufferBounds /\ CleanTail /\ NothingLeft

(* The first n characters, and the line the user sees.                     *)
Text(n) == [j \in 1 .. n |-> passwd[j - 1]]

Line == INSTANCE LineEditor WITH
    line <- IF outcome = "typing" THEN Text(size)
            ELSE IF outcome = "accepted" THEN Text(size - 1) ELSE <<>>,
    pos <- IF outcome = "none" THEN 0 ELSE cursor

(* The buffer implements the line editor: each key edits the array, across *)
(* growths, as the line it holds is to be edited, and the prompt hands out *)
(* that line or none.                                                      *)
ImplementsLine == Line!Spec
=============================================================================
