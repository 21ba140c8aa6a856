------------------------------- MODULE MCArgs -------------------------------
(* Model checking of Args: words of each kind; an index that wraps after 5 *)
(* words in place of 256.                                                  *)
EXTENDS Args

MCWords ==
    { [name |-> n, val |-> "none"] :
        n \in {"passwd_file", "clock_fill", "clock_scale", "help", "no-clock", "no-lock"} }
    \cup { [name |-> "text", val |-> v] : v \in {"", "3", "-1", "word"} }
    \cup { [name |-> "stub", val |-> "--no-"] }
    \cup { [name |-> "passwd_file", val |-> "word"],
           [name |-> "clock_fill", val |-> "c"],
           [name |-> "clock_scale", val |-> ""], [name |-> "clock_scale", val |-> "256"],
           [name |-> "clock_row", val |-> "huge"] }

MCMaxWords == 4
MCIndexRange == 5
=============================================================================
