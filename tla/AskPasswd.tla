----------------------------- MODULE AskPasswd -----------------------------
(***************************************************************************)
(* keyboard_ask_passwd (io/keyboard.c): the flush before the prompt, the   *)
(* decoder that turns bytes into keys, one getchar() at a time, the line   *)
(* editor of module PasswdBuffer that it drives and the string of module   *)
(* Strings that it returns.  The user types at any moment, and the         *)
(* terminal may hang up; the kernel queues the bytes of one key together.  *)
(***************************************************************************)
EXTENDS Integers, Sequences, SequencesExt, Strings

CONSTANTS
    Keys,            \* the keys the user presses
    MaxKeys,         \* bound: how many of them
    MaxInput,        \* bound: bytes typed ahead of the program
    Chars, Nul, Junk, InitCapacity, MaxSize     \* those of PasswdBuffer

ASSUME BoundsAssumption == MaxKeys \in Nat /\ MaxInput \in Nat
ASSUME BufferAssumption ==           \* what PasswdBuffer assumes
    /\ Nul \notin Chars /\ Junk \notin Chars
    /\ InitCapacity \in Nat /\ InitCapacity >= 2
    /\ MaxSize \in Nat

(* "none" is no key, and the one that sends "esc" alone is [Escape].       *)
ASSUME KeysAssumption == "none" \notin Keys /\ "esc" \notin Keys

VARIABLES
    input,       \* unread bytes, each with the key that it completes
    pressed,     \* number of keys pressed
    hung_up,     \* the terminal is gone: getchar() gives EOF from now on
    dec,         \* where in the decoder the next getchar() is
    intended,    \* history: the line the keys read so far stand for, and
                 \* whether the next one is swallowed
    passwd, size, capacity, cursor, released, outcome

Buffer == INSTANCE PasswdBuffer

bufferVars == <<passwd, size, capacity, cursor, released, outcome>>
vars == <<input, pressed, hung_up, dec, intended, bufferVars>>

Init ==
    /\ Buffer!Init
    /\ input = <<>> /\ pressed = 0 /\ hung_up = FALSE
    /\ dec = "flush"
    /\ intended = [line |-> <<>>, pos |-> 0, outcome |-> "typing", swallow |-> "no"]

-----------------------------------------------------------------------------
(* Bytes, by the role they play.  "lead2", "lead3" and "lead4" begin a     *)
(* character of so many bytes; "ff" is 255, which the code takes for EOF.  *)
Letters == {"A", "B", "C", "D", "F", "H", "P", "x"}
AltMarks == {"3", "5", ";", "~"}       \* 33 .. 64, 92 .. 96 and 123 .. 126
AltControls == {"enter", "ctrl_c", "ctrl_d"}                    \* 1 .. 26

(* The bytes of a key (external; the table at lines 86-118).               *)
Sequences ==
    [Up |-> <<"[", "A">>, Down |-> <<"[", "B">>, Right |-> <<"[", "C">>,
     Left |-> <<"[", "D">>, End |-> <<"[", "F">>, Home |-> <<"[", "H">>,
     Delete |-> <<"[", "3", "~">>, PgUp |-> <<"[", "5", "~">>,
     ShiftDelete |-> <<"[", "3", ";", "5", "~">>,
     CtrlLeft |-> <<"[", "5", ";", "5", "D">>,
     F1 |-> <<"[", "[", "A">>, AltX |-> <<"x">>, AltEnter |-> <<"enter">>,
     AltUp |-> <<"esc", "[", "A">>, AltFF |-> <<"ff">>, Escape |-> <<>>]

(* Keys with [Alt] for which the decoder starts to read a sequence that    *)
(* does not come (27 <Ctrl-Key> and 27 <Key> at lines 117-118).            *)
Unknown ==
    [AltBracket |-> <<"[">>, AltBackspace |-> <<"backspace">>,
     AltSpace |-> <<"space">>, AltEscape |-> <<"esc">>, AltNul |-> <<"nul">>,
     AltCtrl4 |-> <<"fs">>, AltPound |-> <<"lead2", "cont">>]

(* Characters that are not ASCII, and a byte from another encoding.        *)
Wide == [pound |-> <<"lead2", "cont">>, block |-> <<"lead3", "cont", "cont">>,
         cuneiform |-> <<"lead4", "cont", "cont", "cont">>, latin1 |-> <<"lead3">>]

KeyBytes(key) ==
    IF key \in DOMAIN Sequences THEN <<"esc">> \o Sequences[key]
    ELSE IF key \in DOMAIN Unknown THEN <<"esc">> \o Unknown[key]
    ELSE IF key \in DOMAIN Wide THEN Wide[key]
    ELSE <<key>>

Tagged(key) ==
    [k \in 1 .. Len(KeyBytes(key)) |->
       [byte |-> KeyBytes(key)[k],
        key |-> IF k = Len(KeyBytes(key)) THEN key ELSE "none"]]

Controls ==
    AltControls \cup {"nul", "tab", "fs", "esc", "backspace", "ff"}  \* fs: 28 .. 31

(* Every byte is a character or one of the control bytes named here.       *)
ASSUME BytesAssumption ==
    \A key \in Keys : \A k \in DOMAIN KeyBytes(key) :
        KeyBytes(key)[k] \in Chars \cup Controls

(* Bytes that follow an [Escape] at once make another key of it: the user  *)
(* is assumed to wait until the program has read an [Escape] on its own.   *)
EscapePending ==
    IF input = <<>> THEN dec = "esc" ELSE Last(input).key = "Escape"

Press(key) ==
    /\ pressed < MaxKeys
    /\ outcome = "typing" /\ ~hung_up
    /\ ~EscapePending
    /\ Len(input) < MaxInput
    /\ pressed' = pressed + 1
    /\ input' = input \o Tagged(key)
    /\ UNCHANGED <<hung_up, dec, intended, bufferVars>>

(* What has been typed can still be read.                                  *)
HangUp ==
    /\ outcome = "typing" /\ ~hung_up
    /\ hung_up' = TRUE
    /\ UNCHANGED <<input, pressed, dec, intended, bufferVars>>

-----------------------------------------------------------------------------
(* What a key means for the line.                                          *)
Follow(char) == CASE char = "lead2" -> 1 [] char = "lead3" -> 2
                  [] char = "lead4" -> 3 [] OTHER -> 0

WellFormed(line) ==
    \A k \in DOMAIN line :
        /\ \A j \in 1 .. Follow(line[k]) :
               k + j \in DOMAIN line /\ line[k + j] = "cont"
        /\ line[k] = "cont" =>
               \E j \in 1 .. 3 : k - j \in DOMAIN line /\ Follow(line[k - j]) >= j

Typed(st, chars) ==
    [st EXCEPT !.line = SubSeq(@, 1, st.pos) \o chars
                          \o SubSeq(@, st.pos + 1, Len(@)),
               !.pos = @ + Len(chars)]

Ending(st) ==
    [st EXCEPT !.outcome = IF WellFormed(st.line) THEN "accepted" ELSE "none"]

Meant(st, key) ==
    CASE key \in {"enter", "nul", "ff", "AltFF", "Escape"} -> Ending(st)
      [] key = "ctrl_c" -> [st EXCEPT !.outcome = "none"]
      [] key = "ctrl_d" /\ st.line = <<>> -> [st EXCEPT !.outcome = "none"]
      [] key \in Chars \cup DOMAIN Wide -> Typed(st, KeyBytes(key))
      [] key = "backspace" /\ st.pos > 0 ->
           [st EXCEPT !.line = RemoveAt(@, st.pos), !.pos = @ - 1]
      [] key = "Delete" /\ st.pos < Len(st.line) ->
           [st EXCEPT !.line = RemoveAt(@, st.pos + 1)]
      [] key \in {"Up", "Home"} -> [st EXCEPT !.pos = 0]
      [] key \in {"Down", "End"} -> [st EXCEPT !.pos = Len(st.line)]
      [] key = "Right" /\ st.pos < Len(st.line) -> [st EXCEPT !.pos = @ + 1]
      [] key = "Left" /\ st.pos > 0 -> [st EXCEPT !.pos = @ - 1]
      [] OTHER -> st

(* An unknown key swallows the keys that follow it, up to one that ends in *)
(* a letter or a tilde.  Behind [Alt] and the bracket, which begin the     *)
(* sequence of a cursor key, a letter alone may be one, and "3~" is        *)
(* [Delete].                                                               *)
Terminators == Letters \cup {"~"}

CursorKeys == [A |-> "Up", B |-> "Down", C |-> "Right", D |-> "Left",
               F |-> "End", H |-> "Home"]

Edited(st, key) ==
    LET awake == [st EXCEPT !.swallow = "no"]
        In(mode) == [st EXCEPT !.swallow = mode]
    IN  CASE st.swallow = "no" /\ key \notin DOMAIN Unknown -> Meant(st, key)
          [] st.swallow = "no" /\ key = "AltBracket" -> In("csi")
          [] st.swallow = "csi" /\ key = "3" -> In("delete")
          [] st.swallow = "csi" /\ key \in DOMAIN CursorKeys ->
               Meant(awake, CursorKeys[key])
          [] st.swallow = "delete" /\ key = "~" -> Meant(awake, "Delete")
          [] OTHER -> IF st.swallow # "no" /\ Last(KeyBytes(key)) \in Terminators
                      THEN awake ELSE In("skip")

(* The end of the input ends the prompt, but inside a sequence it is read  *)
(* like any other byte.                                                    *)
HungUp(st) ==
    IF st.swallow = "no" THEN Ending(st) ELSE [st EXCEPT !.swallow = "skip"]

-----------------------------------------------------------------------------
(* The decoder.  getchar() returned b; without a terminal it returns EOF,  *)
(* 255 as a uint8_t, whenever it is called.                                *)
getchar(b) ==
    /\ outcome = "typing"
    /\ UNCHANGED <<pressed, hung_up>>
    /\ \/ /\ input # <<>>
          /\ b = Head(input).byte
          /\ input' = Tail(input)
          /\ intended' = IF dec = "flush" \/ Head(input).key = "none"
                         THEN intended ELSE Edited(intended, Head(input).key)
       \/ /\ input = <<>> /\ hung_up
          /\ b = "ff"
          /\ intended' = HungUp(intended)
          /\ UNCHANGED input

(* A key that has nothing to do rings the bell.                            *)
cursor_bell == UNCHANGED bufferVars

(* The bytes of a line, and of the NUL behind it.                          *)
Byte ==
    [char \in Letters \cup AltMarks \cup {"[", "space", "lead2", "lead3", "lead4",
                                     "cont"} |->
        CASE char = "A" -> 65 [] char = "B" -> 66 [] char = "C" -> 67
          [] char = "D" -> 68 [] char = "F" -> 70 [] char = "H" -> 72
          [] char = "P" -> 80 [] char = "x" -> 120 [] char = "3" -> 51
          [] char = "5" -> 53 [] char = ";" -> 59 [] char = "[" -> 91
          [] char = "~" -> 126 [] char = "space" -> 32 [] char = "lead2" -> 194 [] char = "lead3" -> 226
          [] char = "lead4" -> 240 [] char = "cont" -> 146]

(* A character is a byte of this table, so that none is a control byte.    *)
ASSUME CharsAssumption == Chars \subseteq DOMAIN Byte

Bytes(line) == [k \in DOMAIN line |-> Byte[line[k]]] \o <<0>>

(* The end of the prompt: a line that is not UTF-8 is no password.         *)
Finish ==
    IF string_from_bytes(Bytes(Buffer!Text(size))).len = INVALID_SIZE
    THEN Buffer!NoOutput ELSE Buffer!Submit

(* keyboard_flush_stdin: what was typed before the prompt is dropped.      *)
FlushByte(b) ==
    /\ dec = "flush" /\ input # <<>>
    /\ getchar(b)
    /\ UNCHANGED <<dec, bufferVars>>

FlushEnd ==
    /\ dec = "flush"
    /\ input = <<>>
    /\ dec' = "key"
    /\ UNCHANGED <<input, pressed, hung_up, intended, bufferVars>>

ReadKey(b) ==
    /\ dec = "key"
    /\ getchar(b)
    /\ dec' = IF b = "esc" THEN "esc" ELSE "key"
    /\ \/ b \in {"nul", "enter", "ff"} /\ Finish
       \/ b = "ctrl_d" /\ (IF size = 0 THEN Buffer!NoOutput ELSE UNCHANGED bufferVars)
       \/ b = "esc" /\ UNCHANGED bufferVars
       \/ b = "backspace" /\ (IF cursor = 0 THEN cursor_bell ELSE Buffer!Backspace)
       \/ b = "ctrl_c" /\ Buffer!NoOutput
       \/ b \in {"tab", "fs"} /\ UNCHANGED bufferVars         \* any other iscntrl()
       \/ b \in Chars /\ Buffer!Insert(b)

(* _ignore_escape_seq on b: go on reading unless it ends a sequence.       *)
(* Mutant: without the test for a tilde.                                   *)
_ignore_escape_seq_letters(b) == dec' = IF b \in Letters THEN "key" ELSE "skip"

_ignore_escape_seq(b) == dec' = IF b \in Terminators THEN "key" ELSE "skip"

(* The read that does not block, after an escape byte: nothing to read,    *)
(* or a byte that looks like it, ends the prompt.                          *)
EscapeKey ==
    /\ dec = "esc"
    /\ \/ /\ outcome = "typing" /\ input = <<>> /\ ~hung_up
          /\ UNCHANGED <<input, pressed, hung_up, intended>>
       \/ getchar("ff")
    /\ dec' = "key"
    /\ Finish

ReadEscape(b) ==
    /\ dec = "esc"
    /\ b # "ff"
    /\ getchar(b)
    /\ IF b \in AltControls \cup Letters \cup AltMarks THEN dec' = "key"
       ELSE IF b = "[" THEN dec' = "csi"
       ELSE _ignore_escape_seq(b)
    /\ UNCHANGED bufferVars

(* Mutant: [Left] at the start of the line wraps.                          *)
CursorKey_unstopped(b) ==
    \/ b \in {"A", "H"} /\ Buffer!MoveTo(0)
    \/ b \in {"B", "F"} /\ Buffer!MoveTo(size)
    \/ b = "C" /\ (IF cursor < size THEN Buffer!MoveTo(cursor + 1) ELSE cursor_bell)
    \/ b = "D" /\ Buffer!MoveTo(cursor - 1)

CursorKey(b) ==
    \/ b \in {"A", "H"} /\ Buffer!MoveTo(0)
    \/ b \in {"B", "F"} /\ Buffer!MoveTo(size)
    \/ b = "C" /\ (IF cursor < size THEN Buffer!MoveTo(cursor + 1) ELSE cursor_bell)
    \/ b = "D" /\ (IF cursor > 0 THEN Buffer!MoveTo(cursor - 1) ELSE cursor_bell)

ReadCSI(b) ==
    /\ dec = "csi"
    /\ getchar(b)
    /\ \/ CursorKey(b) /\ dec' = "key"
       \/ b = "3" /\ dec' = "delete" /\ UNCHANGED bufferVars
       \/ /\ b \notin {"A", "B", "C", "D", "F", "H", "3"}
          /\ _ignore_escape_seq(b)
          /\ UNCHANGED bufferVars

(* Mutant: what is not [Delete] is forgotten, the rest is read as keys.    *)
ReadDelete_forgets(b) ==
    /\ dec = "delete"
    /\ getchar(b)
    /\ dec' = "key"
    /\ IF b = "~" /\ cursor # size THEN Buffer!Delete ELSE UNCHANGED bufferVars

ReadDelete(b) ==
    /\ dec = "delete"
    /\ getchar(b)
    /\ \/ /\ b = "~"
          /\ dec' = "key"
          /\ IF cursor = size THEN cursor_bell ELSE Buffer!Delete
       \/ b # "~" /\ _ignore_escape_seq(b) /\ UNCHANGED bufferVars

Skip(b) ==
    /\ dec = "skip"
    /\ getchar(b)
    /\ _ignore_escape_seq(b)
    /\ UNCHANGED bufferVars

Next_byte == IF input # <<>> THEN Head(input).byte
             ELSE IF hung_up THEN "ff" ELSE "none"

Program ==
    \/ FlushByte(Next_byte) \/ FlushEnd
    \/ ReadKey(Next_byte) \/ ReadEscape(Next_byte) \/ EscapeKey
    \/ ReadCSI(Next_byte) \/ ReadDelete(Next_byte) \/ Skip(Next_byte)

User == HangUp \/ \E key \in Keys : Press(key)

Next == Program \/ User

Spec == Init /\ [][Next]_vars

(* The program keeps reading; the user owes nothing.                       *)
FairSpec == Spec /\ WF_vars(Program)

-----------------------------------------------------------------------------
(* Type invariant, that of the buffer included.                            *)
TypeOK ==
    /\ Buffer!TypeOK
    /\ dec \in {"flush", "key", "esc", "csi", "delete", "skip"}
    /\ pressed \in 0 .. MaxKeys /\ hung_up \in BOOLEAN
    /\ \A k \in DOMAIN input : input[k].key \in Keys \cup {"none"}

(* No key is being read.                                                   *)
BetweenKeys == dec = "key" /\ Next_byte # "cont"

(* Between two keys the buffer holds exactly the line that the keys        *)
(* pressed since the flush stand for, with the cursor where they put it,   *)
(* and the prompt has ended, with or without a password, only if they say  *)
(* so: no part of an escape sequence is taken for a character, and what    *)
(* was typed before the prompt is not in the password.  No key loses its   *)
(* bytes to the one before, with one exception, [Alt] with a key for which *)
(* _ignore_escape_seq is entered too early or the sequence of a cursor key *)
(* goes on (keyboard.c 160-161): the keys behind it are lost, or changed,  *)
(* exactly up to the first that ends in a letter or a tilde.               *)
InStep ==
    BetweenKeys \/ outcome # "typing" =>
        /\ intended.swallow = "no"
        /\ outcome = intended.outcome
        /\ outcome = "typing" =>
             Buffer!Text(size) = intended.line /\ cursor = intended.pos
        /\ outcome = "accepted" => Buffer!Text(size - 1) = intended.line

(* The bytes before the k-th that is waiting leave the decoder between two *)
(* keys: what swallows keys, now or then, is followed by a letter or a     *)
(* tilde.                                                                  *)
Swallows(n) == IF n = 0 THEN intended.swallow # "no"
                        ELSE input[n].key \in DOMAIN Unknown

Awake(k) ==
    \A n \in 0 .. k - 1 :
        Swallows(n) => \E j \in n + 1 .. k - 1 : input[j].byte \in Terminators

(* [Enter] and [Control-C] end the prompt once it has begun, and so does a *)
(* terminal that hangs up, whatever was typed before, unless it was one of *)
(* the unknown keys with [Alt] and no letter or tilde since.  (Such a key  *)
(* swallows [Enter] and [Control-C], and reads the end of the input for    *)
(* ever.)  No other key leaves the decoder inside a sequence.              *)
PromptEnds ==
    (\/ hung_up /\ (dec = "flush" \/ Awake(Len(input) + 1))
     \/ /\ dec # "flush"
        /\ \E k \in DOMAIN input :
              input[k].key \in {"enter", "ctrl_c"} /\ Awake(k))
    ~> outcome # "typing"

(* The password is a string that string.c's functions agree about: sliced, *)
(* joined, compared and iterated over, also when characters of one to four *)
(* bytes were inserted and deleted byte by byte.                           *)
PasswordReadsBack ==
    outcome = "accepted"
      => Consistent(string_from_bytes(Bytes(Buffer!Text(size - 1))))
=============================================================================
