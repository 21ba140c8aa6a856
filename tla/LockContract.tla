---------------------------- MODULE LockContract ----------------------------
(***************************************************************************)
(* What vtlock promises whoever locks a terminal with it: once locked, the *)
(* terminal opens only for the password that the password file holds at    *)
(* that moment, or because there is no usable password file at that moment *)
(* (in which case vtlock chooses not to lock the user out).  An intact     *)
(* file is not usable while the calls that open or measure it fail.        *)
(* Nothing else opens it: no signal, no failure of another call, no way of *)
(* leaving the program.                                                    *)
(***************************************************************************)
EXTENDS Naturals

CONSTANTS Passwords, NoPassword

VARIABLES
    status,   \* "open" or "locked"
    stored,   \* the password file: usable or not, and the secret in it
    answer    \* what the user last answered to a prompt

contractVars == <<status, stored, answer>>

Answers == Passwords \cup {NoPassword}
Stores  == [usable : BOOLEAN, secret : Answers]

Init ==
    /\ status = "open"
    /\ stored \in Stores
    /\ answer \in Answers

(* Locking needs a user who has given a password.                          *)
Lock ==
    /\ status = "open"
    /\ answer # NoPassword
    /\ status' = "locked"
    /\ UNCHANGED <<stored, answer>>

Opens == \/ answer # NoPassword /\ answer = stored.secret
         \/ ~stored.usable

Release ==
    /\ status = "locked"
    /\ Opens
    /\ status' = "open"
    /\ UNCHANGED <<stored, answer>>

Answer ==
    /\ answer' \in Answers
    /\ UNCHANGED <<status, stored>>

Rewrite ==
    /\ stored' \in Stores
    /\ UNCHANGED <<status, answer>>

Next == Lock \/ Release \/ Answer \/ Rewrite

Spec == Init /\ [][Next]_contractVars
=============================================================================
