----------------------------- MODULE LineEditor -----------------------------
(***************************************************************************)
(* What the password prompt promises its user: a line of characters with a *)
(* cursor, edited as the key says, and at the end either that line or no   *)
(* password at all.                                                        *)
(***************************************************************************)
EXTENDS Integers, Sequences

CONSTANT Chars

VARIABLES
    line,      \* the characters typed so far
    pos,       \* the cursor: characters to the left of it
    outcome    \* "typing", "accepted" or "none"

lineVars == <<line, pos, outcome>>

Init == line = <<>> /\ pos = 0 /\ outcome = "typing"

Typing == outcome = "typing" /\ UNCHANGED outcome

(* line with the character at index k taken out.                           *)
Without(k) == [j \in 1 .. Len(line) - 1 |-> IF j < k THEN line[j] ELSE line[j + 1]]

Type == \E c \in Chars :
    /\ Typing
    /\ line' = [j \in 1 .. Len(line) + 1 |->
                  IF j <= pos THEN line[j]
                  ELSE IF j = pos + 1 THEN c ELSE line[j - 1]]
    /\ pos' = pos + 1

Backspace ==
    /\ Typing
    /\ pos > 0
    /\ line' = Without(pos)
    /\ pos' = pos - 1

Delete ==
    /\ Typing
    /\ pos < Len(line)
    /\ line' = Without(pos + 1)
    /\ UNCHANGED pos

Move ==
    /\ Typing
    /\ pos' \in 0 .. Len(line)
    /\ pos' \in {0, pos - 1, pos + 1, Len(line)}
    /\ UNCHANGED line

Accept == outcome = "typing" /\ outcome' = "accepted" /\ UNCHANGED <<line, pos>>

Refuse == outcome = "typing" /\ outcome' = "none" /\ line' = <<>> /\ pos' = 0

Next == Type \/ Backspace \/ Delete \/ Move \/ Accept \/ Refuse

Spec == Init /\ [][Next]_lineVars
=============================================================================
