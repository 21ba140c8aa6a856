----------------------------- MODULE PromptLine -----------------------------
(***************************************************************************)
(* The line of keyboard_ask_passwd on the screen (io/keyboard.c): after    *)
(* each key of PasswdBuffer the rows of the line are erased from the last  *)
(* one up and the prompt and a star for each character are printed again;  *)
(* at the end the line is blanked to hide its length.  Rows are counted    *)
(* from the one the prompt begins on; the screen is high enough.           *)
(***************************************************************************)
EXTENDS PasswdBuffer

CONSTANTS
    Terminals   \* columns of the terminal and of the prompt

ASSUME TerminalsAssumption ==
    \A t \in Terminals : t.cols \in Nat /\ t.cols >= 2 /\ t.prompt \in Nat
                         /\ t.prompt >= 2

VARIABLES
    term,     \* one of Terminals
    missed,   \* rows of the line that the last erasure did not reach
    stale     \* history: some row still shows an earlier line

lineVars == <<term, missed, stale>>

(* The columns of the prompt with n stars, and the row the cursor is on    *)
(* behind them: after the last column it stays there until more is printed.*)
Length(n)  == term.prompt + n
LastRow(n) == (Length(n) - 1) \div term.cols

(* Mutants: without the correction; with a test for 0 alone.               *)
rows_to_clear_uncorrected(n) == Length(n) \div term.cols + 1

rows_to_clear_zero(n) ==
    Length(n) \div term.cols - (IF Length(n) % term.cols = 0 THEN 1 ELSE 0) + 1

rows_to_clear(n) ==
    Length(n) \div term.cols - (IF Length(n) % term.cols <= 1 THEN 1 ELSE 0) + 1

(* The old line is erased by the length of the new one, of n characters.   *)
Missed(n) == LastRow(size) - (rows_to_clear(n) - 1)

Redraw(n) ==
    /\ missed' = Missed(n)
    /\ stale' = (stale \/ Missed(n) > 0)
    /\ UNCHANGED term

(* "\x1b[D" moves the cursor left to where it is in the line, but not out  *)
(* of the row.                                                             *)
Column ==
    LET behind == ((Length(size) - 1) % term.cols) + 1
        at     == IF behind = term.cols THEN behind - 1 ELSE behind
    IN  IF cursor = size THEN behind
        ELSE IF at > size - cursor THEN at - (size - cursor) ELSE 0

(* Mutant: one row too few is cleared.                                     *)
ClearLine_short ==
    LET row == LastRow(size) + (Column + capacity - cursor - 1) \div term.cols
    IN  /\ missed' = row - (capacity \div term.cols - 1)
        /\ stale' = (stale \/ Missed(size) > 0)
        /\ UNCHANGED term

(* The end: once more the redraw, then capacity - cursor blanks, then as   *)
(* many rows are cleared as capacity columns take.                         *)
ClearLine ==
    LET row == LastRow(size) + (Column + capacity - cursor - 1) \div term.cols
    IN  /\ missed' = row - capacity \div term.cols
        /\ stale' = (stale \/ Missed(size) > 0)
        /\ UNCHANGED term

-----------------------------------------------------------------------------
PromptInit == Init /\ term \in Terminals /\ missed = 0 /\ stale = FALSE

(* A key that rings the bell or that is not known.                         *)
OtherKey == Typing /\ UNCHANGED <<passwd, size, capacity, cursor, released>>

PromptNext ==
    \/ \E ch \in Chars : Insert(ch) /\ Redraw(size + 1)
    \/ Backspace /\ Redraw(size - 1)
    \/ Delete /\ Redraw(size - 1)
    \/ MoveCursor /\ Redraw(size)
    \/ OtherKey /\ Redraw(size)
    \/ Submit /\ ClearLine
    \/ NoOutput /\ ClearLine

PromptSpec == PromptInit /\ [][PromptNext]_<<vars, lineVars>>

-----------------------------------------------------------------------------
(* Whatever the width of the terminal, the length of the prompt and the    *)
(* keys: neither a redraw nor the final clearing goes above the row the    *)
(* prompt began on, where other output is.                                 *)
NothingAboveErased == missed >= 0

(* Typing draws the line in place: a character that is inserted, also one  *)
(* that wraps the line or fills a row, leaves no row of the old line.      *)
(* (Moving the cursor or deleting at the first column of a row does.)      *)
TypingInPlace ==
    [][outcome' = "typing" /\ size' = size + 1 => missed' = 0]_<<vars, lineVars>>

(* "Clear line to hide password length": when the prompt and the buffer    *)
(* fit into one row, no row shows a star after the prompt has ended.       *)
LengthHidden ==
    outcome # "typing" /\ term.prompt + capacity <= term.cols
      => missed = 0 /\ ~stale
=============================================================================
