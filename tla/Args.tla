-------------------------------- MODULE Args --------------------------------
(***************************************************************************)
(* The command line of vtlock: the loop of main (vtlock.c) and the macros  *)
(* it is built from, one word of argv at a time, with the index that is a  *)
(* uint8_t.  A word is an option, alone (val = "none") or joined to a      *)
(* value by "="; a text, which is only ever a value; or a stub, a proper   *)
(* beginning of the names of some flags.                                   *)
(***************************************************************************)
EXTENDS Integers, Sequences, FiniteSets

CONSTANTS
    Words,         \* the words a command line is made of
    MaxWords,      \* bound: words after argv[0]
    IndexRange     \* 256, the number of values of i

ASSUME IndexAssumption == IndexRange \in Nat /\ IndexRange > 1
ASSUME MaxWordsAssumption == MaxWords \in Nat

VARIABLES
    argv,       \* argv[1] here is argv[0] in C
    i,
    args,
    verdict,    \* "parsing", "run" (actual_main is called), "usage", "bad"
    taken       \* history: words used as an option or a value

vars == <<argv, i, args, verdict, taken>>

NULL == "NULL"
INT_MAX == 2147483647

Fills == {"clock_fill", "clock_sleep_fill"}
Flags == {"help", "no-clock", "no-lock"}

(* toint_min_max and toint_min with the limits given to them.              *)
Limits ==
    [clock_font |-> 1 .. 6, clock_row |-> 0 .. INT_MAX, clock_col |-> 0 .. INT_MAX,
     clock_scale |-> 1 .. 255, clock_fps |-> 1 .. 255, clock_colour |-> 1 .. 255,
     clock_sleep_colour |-> 1 .. 255, clock_sleep_time |-> -1 .. INT_MAX]

Numbers == DOMAIN Limits
Options == {"passwd_file"} \cup Fills \cup Numbers

Defaults ==
    [n \in Options |->
        CASE n = "passwd_file" -> "/vtlock-passwd"
          [] n = "clock_fill" -> "5" [] n = "clock_sleep_fill" -> "2"
          [] n = "clock_font" -> 6 [] n \in {"clock_row", "clock_col", "clock_colour"} -> 0
          [] n = "clock_scale" -> 3 [] n = "clock_fps" -> 1
          [] n = "clock_sleep_time" -> 30 [] n = "clock_sleep_colour" -> 90]

ArgvZero == [name |-> "text", val |-> "path"]

Init ==
    /\ \E n \in 0 .. MaxWords : \E words \in [1 .. n -> Words] :
          argv = <<ArgvZero>> \o words
    /\ i = 1
    /\ args = Defaults
    /\ verdict = "parsing"
    /\ taken = <<>>

-----------------------------------------------------------------------------
argc == Len(argv)
Word(k) == argv[k + 1]
Plus(k, n) == (k + n) % IndexRange

(* Texts: the empty one, numbers, one character, and anything longer.      *)
Digits ==
    [v \in {"", "0", "3", "7", "256"} |->
        CASE v \in {"", "0"} -> 0 [] v = "3" -> 3 [] v = "7" -> 7 [] v = "256" -> 256]
OneChar == {"0", "3", "7", "c"}

(* toint: the empty text is 0, a sign is no digit, and a number beyond int *)
(* overflows, which C leaves undefined.                                    *)
toint(v) == IF v \in DOMAIN Digits THEN {Digits[v]}
            ELSE IF v = "huge" THEN {-1, 1} ELSE {}

(* What save_func may store for option n; without such a value it fails.   *)
(* Mutant: the limits are not tested.                                      *)
Stored_unlimited(n, v) ==
    IF n \in Numbers THEN toint(v)
    ELSE IF n \in Fills THEN {v} \cap (OneChar \cup {""})
    ELSE {v}

Stored(n, v) ==
    IF n \in Numbers THEN {x \in toint(v) : x \in Limits[n]}
    ELSE IF n \in Fills THEN {v} \cap (OneChar \cup {""})
    ELSE {v}

Bad == verdict' = "bad" /\ UNCHANGED <<i, args, taken>>

(* A command line longer than IndexRange may be read in circles for ever;  *)
(* the history stops there.                                                *)
Took(ks) == IF Len(taken) > argc THEN taken ELSE taken \o ks

(* _ARG_PARSE_SET_FILL leaves a fill that is NULL alone, unread.           *)
(* Mutant: without that test.                                              *)
Save_always(n, v) ==
    \/ \E x \in Stored(n, v) : args' = [args EXCEPT ![n] = x] /\ UNCHANGED verdict
    \/ Stored(n, v) = {} /\ verdict' = "bad" /\ UNCHANGED args

Save(n, v) ==
    IF n \in Fills /\ args[n] = NULL THEN UNCHANGED <<args, verdict>>
    ELSE \/ \E x \in Stored(n, v) :
              args' = [args EXCEPT ![n] = x] /\ UNCHANGED verdict
         \/ /\ Stored(n, v) = {} \/ (v = "huge" /\ n \in Numbers)
            /\ verdict' = "bad"
            /\ UNCHANGED args

(* MAIN_ADD_ARGUMENT_VALUE, joined and in two words.                       *)
(* Mutant: a joined value takes the next word too.                         *)
JoinedValue_skips(n) ==
    /\ Word(i).val # "none"
    /\ Save(n, Word(i).val)
    /\ i' = Plus(i, 2)
    /\ taken' = Took(<<i>>)

JoinedValue(n) ==
    /\ Word(i).val # "none"
    /\ Save(n, Word(i).val)
    /\ i' = Plus(i, 1)
    /\ taken' = Took(<<i>>)

(* A text may begin with a minus only before a digit, as "-1" does.        *)
NextWord(n) ==
    LET k == Plus(i, 1)
    IN  /\ Word(i).val = "none"
        /\ IF k = argc \/ Word(k).name # "text" THEN Bad
           ELSE /\ Save(n, Word(k).val)
                /\ i' = Plus(i, 2)
                /\ taken' = Took(<<i, k>>)

(* MAIN_ADD_ARGUMENT_FLAG.                                                 *)
Flag(f) ==
    /\ i' = Plus(i, 1)
    /\ taken' = Took(<<i>>)
    /\ \/ f = "help" /\ verdict' = "usage" /\ UNCHANGED args
       \/ /\ f = "no-clock"
          /\ args' = [args EXCEPT !["clock_fill"] = NULL]
          /\ UNCHANGED verdict
       \/ /\ f = "no-lock"
          /\ args' = [args EXCEPT !["passwd_file"] = NULL]
          /\ UNCHANGED verdict

(* The flags a word is compared with for as many bytes as the WORD has, so *)
(* that a stub, and the empty text, go on to read a byte behind themselves *)
(* and match if it happens to be 0.                                        *)
StubOf(w) ==
    IF w.name = "stub" THEN IF w.val = "--no-" THEN {"no-clock", "no-lock"} ELSE {"help"}
    ELSE IF w.name = "text" /\ w.val = "" THEN Flags ELSE {}

OptionWord ==
    /\ verdict = "parsing" /\ i < argc
    /\ Word(i).name \in Options
    /\ JoinedValue(Word(i).name) \/ NextWord(Word(i).name)
    /\ UNCHANGED argv

FlagWord ==
    /\ verdict = "parsing" /\ i < argc
    /\ \/ Word(i).name \in Flags /\ Flag(Word(i).name)
       \/ \E f \in StubOf(Word(i)) : Flag(f)
    /\ UNCHANGED argv

UnknownWord ==
    /\ verdict = "parsing" /\ i < argc
    /\ Word(i).name \in {"text", "stub"}
    /\ Bad
    /\ UNCHANGED argv

EndOfWords ==
    /\ verdict = "parsing" /\ i >= argc
    /\ verdict' = "run"
    /\ UNCHANGED <<argv, i, args, taken>>

Next == OptionWord \/ FlagWord \/ UnknownWord \/ EndOfWords

Spec == Init /\ [][Next]_vars

-----------------------------------------------------------------------------
(* Every number stays in the limits that actual_main relies on: a font     *)
(* that exists, a scale and a frame rate of at least 1 (it divides by the  *)
(* rate), colours that the cast to uint8_t does not change.                *)
TypeOK ==
    /\ i \in 0 .. IndexRange - 1
    /\ verdict \in {"parsing", "run", "usage", "bad"}
    /\ \A n \in Numbers : args[n] \in Limits[n] \/ args[n] = Defaults[n]

(* The words of a command line that say something about option n, and the  *)
(* value of the word at k.                                                 *)
Says(n) ==
    {k \in 1 .. argc - 1 :
        \/ Word(k).name = n
        \/ n = "passwd_file" /\ Word(k).name = "no-lock"}

ValueAt(k) ==
    IF Word(k).name = "no-lock" THEN NULL
    ELSE IF Word(k).val = "none" THEN Word(k + 1).val ELSE Word(k).val

Plain == \A k \in 1 .. argc - 1 :
            Word(k).name # "stub" /\ ~(Word(k).name = "text" /\ Word(k).val = "")

(* A command line that is run means what it says, read without the loop:   *)
(* of several words about one option the last counts, also between         *)
(* --pwdfile and --no-lock, but --no-clock anywhere means no clock.        *)
LastWins ==
    verdict = "run" /\ Plain =>
        /\ (args["clock_fill"] = NULL)
             <=> \E k \in 1 .. argc - 1 : Word(k).name = "no-clock"
        /\ \A n \in Options :
             LET last == CHOOSE k \in Says(n) : \A j \in Says(n) : j <= k
             IN  \/ n = "clock_fill" /\ args[n] = NULL
                 \/ Says(n) = {} /\ args[n] = Defaults[n]
                 \/ Says(n) # {} /\ args[n] \in Stored(n, ValueAt(last))

(* The program never runs on part of its command line: each word was used  *)
(* once, in order, however many there are, although i wraps to 0.          *)
WordsOnce == verdict = "run" => taken = [k \in 1 .. argc - 1 |-> k]
=============================================================================
