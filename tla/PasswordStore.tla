---------------------------- MODULE PasswordStore ----------------------------
(***************************************************************************)
(* What a password file shared by several vtlocks promises to each of      *)
(* them: the file holds one password or none, every check looks at it once *)
(* between the answer and the verdict, and only an answer that was the     *)
(* password at that moment is accepted.                                    *)
(***************************************************************************)
CONSTANTS Procs, Passwords, NoPassword

VARIABLES
    stored,   \* the password of the file, or NoPassword
    answer,   \* what each process was last answered
    check     \* what each process knows of its answer

storeVars == <<stored, answer, check>>

Answers == Passwords \cup {NoPassword}
Checks  == {"none", "open", "right", "wrong", "accepted"}

Init ==
    /\ stored \in Answers
    /\ answer = [p \in Procs |-> NoPassword]
    /\ check = [p \in Procs |-> "none"]

(* The file is rewritten, emptied or damaged.                              *)
Rewrite ==
    /\ stored' \in Answers
    /\ UNCHANGED <<answer, check>>

(* A user answers a prompt, or declines to.                                *)
Answer(p) ==
    \E a \in Answers, c \in {"none", "open"} :
        /\ answer' = [answer EXCEPT ![p] = a]
        /\ check' = [check EXCEPT ![p] = c]
        /\ UNCHANGED stored

Look(p) ==
    /\ check[p] = "open"
    /\ \/ /\ stored # NoPassword /\ answer[p] = stored
          /\ check' = [check EXCEPT ![p] = "right"]
       \/ check' = [check EXCEPT ![p] = "wrong"]
    /\ UNCHANGED <<stored, answer>>

Accept(p) ==
    /\ check[p] = "right"
    /\ check' = [check EXCEPT ![p] = "accepted"]
    /\ UNCHANGED <<stored, answer>>

(* A failed call refuses a right answer too.                               *)
Refuse(p) ==
    /\ check' = [check EXCEPT ![p] = "none"]
    /\ UNCHANGED <<stored, answer>>

Next == Rewrite \/ \E p \in Procs : Answer(p) \/ Look(p) \/ Accept(p) \/ Refuse(p)

Spec == Init /\ [][Next]_storeVars
=============================================================================
