---------------------------- MODULE Screensaver ----------------------------
(***************************************************************************)
(* One visit of the inner loop of actual_main (vtlock.c), the clock that   *)
(* waits for Control-C or an exit key, with keyboard_flush_stdin           *)
(* (io/keyboard.c) and the terminal modes it switches (io/cursor.c).  The  *)
(* user types at any moment, also while the terminal is in raw mode; the   *)
(* line discipline of the kernel, external to the repository, turns a key  *)
(* into bytes or into SIGINT according to the mode of that moment.         *)
(***************************************************************************)
EXTENDS Integers, Sequences

CONSTANTS
    Clocks,     \* which values of "with a clock" are explored
    IntMax,     \* INT32_MAX, the largest value of timer
    Settings,   \* pairs <<clock_sleep_time, clock_fps>>
    MaxKeys     \* bound: keys the user presses in one visit

ASSUME ClocksAssumption == Clocks \subseteq BOOLEAN
ASSUME IntMaxAssumption == IntMax \in Nat \ {0}
(* The limits of main; -1 gets there by an overflow only (see Args).       *)
ASSUME SettingsAssumption == Settings \subseteq (-1 .. IntMax) \X (1 .. IntMax)
ASSUME MaxKeysAssumption == MaxKeys \in Nat

VARIABLES
    args,            \* lock, clock, always (_always_pressed_ctrl_c),
                     \* sleep_time, fps
    pc,
    not_pressed_ctrl_c,
    timer,
    asleep,          \* colour and fill are the sleeping ones
    keypresses,      \* the bytes keyboard_flush_stdin has read
    tty,             \* "cooked" or "raw" (cursor_no_echo)
    nonblock,        \* O_NONBLOCK on stdin
    queue,           \* bytes the kernel holds for stdin
    keys,            \* keys pressed so far
    pressed,         \* history: which exit keys were among them
    idle             \* history: frames in a row without a byte read

vars == <<args, pc, not_pressed_ctrl_c, timer, asleep, keypresses, tty,
          nonblock, queue, keys, pressed, idle>>

loopVars == <<not_pressed_ctrl_c, timer, asleep>>
ttyVars  == <<tty, nonblock>>
userVars == <<queue, keys, pressed>>

CtrlC == 3
Newline == 10
Return == 13
Escape == 27
Bracket == 91
Letter == 65         \* any byte the loop has no test for
Bytes == {CtrlC, Newline, Return, Escape, Bracket, Letter}

(* "Alt" is a key held with [Alt], and any other key that sends an escape  *)
(* byte and then something else than a bracket, which the loop takes for   *)
(* [Escape]; "AltBracket" sends exactly the two bytes that it does not.    *)
ExitKeys  == {"CtrlC", "Enter", "Esc", "Alt"}
OtherKeys == {"Arrow", "AltBracket", "Letter"}

(* int32_t arithmetic on timer.  Its overflow is undefined in C; what the  *)
(* compiled multiplication and decrement do is wrap.                       *)
Modulus == 2 * (IntMax + 1)
Wrap(n) == ((n + IntMax + 1) % Modulus) - (IntMax + 1)
Timer == Wrap(args.sleep_time * args.fps)

Ended == pc \in {"left", "killed"}

(* stdin may hold what the user typed ahead at the previous prompt.        *)
Init ==
    /\ args \in [lock : BOOLEAN, clock : Clocks, always : BOOLEAN,
                 sleep_time : -1 .. IntMax, fps : 1 .. IntMax]
    /\ <<args.sleep_time, args.fps>> \in Settings
    /\ args.always => args.lock
    /\ pc = "test"
    /\ not_pressed_ctrl_c = TRUE
    /\ timer = Timer
    /\ asleep = FALSE
    /\ keypresses = <<>>
    /\ tty = "cooked" /\ nonblock = FALSE
    /\ queue \in {<<>>, <<Letter>>}
    /\ keys = 0 /\ pressed = {} /\ idle = 0

-----------------------------------------------------------------------------
(* The loop's condition.                                                   *)
Test ==
    /\ pc = "test"
    /\ pc' = IF not_pressed_ctrl_c /\ ~args.always
               THEN IF args.clock THEN "frame" ELSE "sleep"
               ELSE "left"
    /\ UNCHANGED <<args, loopVars, keypresses, ttyVars, userVars, idle>>

(* The idle timer; timer++ there cancels out the timer-- that follows.     *)
(* Mutant: without timer++.                                                *)
Frame_uncancelled ==
    /\ pc = "frame"
    /\ pc' = "raw"
    /\ asleep' = (asleep \/ timer = 0)
    /\ timer' = Wrap(timer - 1)
    /\ keypresses' = <<>>
    /\ nonblock' = TRUE
    /\ UNCHANGED <<args, not_pressed_ctrl_c, tty, userVars, idle>>

Frame ==
    /\ pc = "frame"
    /\ pc' = "raw"
    /\ \/ timer = 0 /\ asleep' = TRUE /\ UNCHANGED timer
       \/ timer # 0 /\ timer' = Wrap(timer - 1) /\ UNCHANGED asleep
    /\ keypresses' = <<>>
    /\ nonblock' = TRUE                              \* STDIN_NON_BLOCKING
    /\ UNCHANGED <<args, not_pressed_ctrl_c, tty, userVars, idle>>

cursor_no_echo ==
    /\ pc = "raw"
    /\ pc' = "read"
    /\ tty' = "raw"
    /\ UNCHANGED <<args, loopVars, keypresses, nonblock, userVars, idle>>

(* getchar until it has nothing left to give.                              *)
ReadByte ==
    /\ pc = "read"
    /\ queue # <<>>
    /\ keypresses' = Append(keypresses, Head(queue))
    /\ queue' = Tail(queue)
    /\ UNCHANGED <<args, pc, loopVars, ttyVars, keys, pressed, idle>>

ReadNothing ==
    /\ pc = "read"
    /\ queue = <<>>
    /\ pc' = "restore"
    /\ UNCHANGED <<args, loopVars, keypresses, ttyVars, userVars, idle>>

(* Mutant: the settings are not put back.                                  *)
cursor_yes_echo_skipped ==
    /\ pc = "restore"
    /\ pc' = "block"
    /\ UNCHANGED <<args, loopVars, keypresses, ttyVars, userVars, idle>>

cursor_yes_echo ==
    /\ pc = "restore"
    /\ pc' = "block"
    /\ tty' = "cooked"
    /\ UNCHANGED <<args, loopVars, keypresses, nonblock, userVars, idle>>

Block ==
    /\ pc = "block"
    /\ pc' = "scan"
    /\ nonblock' = FALSE
    /\ UNCHANGED <<args, loopVars, keypresses, tty, userVars, idle>>

(* Byte k of the keys read leaves the loop.  Mutants: [Control-C] in raw   *)
(* mode is forgotten; an escape sequence counts as [Escape].               *)
IsExit_escape_only(k) ==
    \/ keypresses[k] = Newline
    \/ /\ keypresses[k] = Escape
       /\ k = Len(keypresses) \/ keypresses[k + 1] # Bracket

IsExit_sequences(k) == keypresses[k] \in {CtrlC, Newline, Escape}

IsExit(k) ==
    \/ keypresses[k] \in {CtrlC, Newline}
    \/ /\ keypresses[k] = Escape
       /\ k = Len(keypresses) \/ keypresses[k + 1] # Bracket

(* More than Modulus frames are counted as Modulus.                        *)
CountIdle == IF idle < Modulus THEN idle + 1 ELSE idle

(* Mutant: a key wakes the clock but does not restart the timer.           *)
Wake_colour_only ==
    IF keypresses # <<>>
      THEN asleep' = FALSE /\ idle' = 0 /\ UNCHANGED timer
      ELSE idle' = CountIdle /\ UNCHANGED <<timer, asleep>>

Wake ==
    IF keypresses # <<>>
      THEN timer' = Timer /\ asleep' = FALSE /\ idle' = 0
      ELSE idle' = CountIdle /\ UNCHANGED <<timer, asleep>>

(* The keys read are looked at, then the clock is displayed.               *)
Scan ==
    /\ pc = "scan"
    /\ pc' = "sleep"
    /\ Wake
    /\ not_pressed_ctrl_c' =
         (not_pressed_ctrl_c /\ ~\E k \in DOMAIN keypresses : IsExit(k))
    /\ keypresses' = <<>>                            \* bytes_free
    /\ UNCHANGED <<args, ttyVars, userVars>>

sleep_milli ==
    /\ pc = "sleep"
    /\ pc' = "test"
    /\ UNCHANGED <<args, loopVars, keypresses, ttyVars, userVars, idle>>

-----------------------------------------------------------------------------
(* The user and the line discipline (external).                            *)

(* SIGINT: _pressed_ctrl_c when locked, else the default action.           *)
Interrupt ==
    IF args.lock
      THEN not_pressed_ctrl_c' = FALSE /\ UNCHANGED pc
      ELSE pc' = "killed" /\ UNCHANGED not_pressed_ctrl_c

(* In cooked mode [Control-C] is a signal, and drops what was queued.      *)
PressCtrlC ==
    \/ /\ tty = "cooked"
       /\ ~args.always                       \* else SIGINT is ignored
       /\ queue' = <<>>
       /\ Interrupt
    \/ /\ tty = "raw"
       /\ queue' = Append(queue, CtrlC)
       /\ UNCHANGED <<pc, not_pressed_ctrl_c>>

(* ICRNL is off in raw mode: [Enter] then gives a carriage return.         *)
BytesOf(key) ==
    CASE key = "Enter" -> <<IF tty = "cooked" THEN Newline ELSE Return>>
      [] key = "Esc"   -> <<Escape>>
      [] key = "Arrow" -> <<Escape, Bracket, Letter>>
      [] key = "Alt"   -> <<Escape, Letter>>
      [] key = "AltBracket" -> <<Escape, Bracket>>
      [] key = "Letter" -> <<Letter>>

Press(key) ==
    /\ ~Ended
    /\ keys < MaxKeys
    /\ keys' = keys + 1
    /\ pressed' = pressed \cup ({key} \cap ExitKeys)
    /\ \/ key = "CtrlC" /\ PressCtrlC
       \/ /\ key # "CtrlC"
          /\ queue' = queue \o BytesOf(key)
          /\ UNCHANGED <<pc, not_pressed_ctrl_c>>
    /\ UNCHANGED <<args, timer, asleep, keypresses, ttyVars, idle>>

Program == Test \/ Frame \/ cursor_no_echo \/ ReadByte \/ ReadNothing
           \/ cursor_yes_echo \/ Block \/ Scan \/ sleep_milli

User == \E key \in ExitKeys \cup OtherKeys : Press(key)

Next == Program \/ User

Spec == Init /\ [][Next]_vars

(* The loop keeps running; the user owes nothing.                          *)
FairSpec == Spec /\ WF_vars(Program)

-----------------------------------------------------------------------------
(* The time asked for fits in the timer.                                   *)
Fits == args.sleep_time >= 0 /\ args.sleep_time * args.fps <= IntMax

(* Type invariant: a timer set to a time that fits counts down to 0 and    *)
(* never below it.                                                         *)
TypeOK ==
    /\ pc \in {"test", "frame", "raw", "read", "restore", "block", "scan",
               "sleep", "left", "killed"}
    /\ not_pressed_ctrl_c \in BOOLEAN
    /\ timer \in IF Fits THEN 0 .. args.sleep_time * args.fps
                         ELSE -IntMax - 1 .. IntMax
    /\ asleep \in BOOLEAN
    /\ keypresses \in Seq(Bytes)
    /\ tty \in {"cooked", "raw"}
    /\ nonblock \in BOOLEAN
    /\ queue \in Seq(Bytes)
    /\ keys \in 0 .. MaxKeys
    /\ pressed \subseteq ExitKeys
    /\ idle \in 0 .. Modulus

(* --clock-sleep-time: the clock is drawn asleep exactly from the frame    *)
(* that begins that many seconds after the last key, or after the loop was *)
(* entered; also when the time is 0.  With -1, "to disable", it is awake   *)
(* until the timer has wrapped, after 2^32 - fps frames.  A time whose     *)
(* frames do not fit in an int32_t is promised nothing: the product wraps, *)
(* and the clock may sleep much too early.                                 *)
SleepsOnTime ==
    pc = "sleep" /\ args.clock =>
      /\ Fits => (asleep <=> idle > args.sleep_time * args.fps)
      /\ args.sleep_time < 0 /\ idle <= Modulus - args.fps => ~asleep

(* The loop is left with stdin in its usual mode, and [Control-C] without  *)
(* a lock never ends the program in raw mode, where it is no signal.  (It  *)
(* can end it with O_NONBLOCK still set on stdin, one call earlier or      *)
(* later.)                                                                 *)
TerminalRestored == /\ pc = "left" => tty = "cooked" /\ ~nonblock
                    /\ pc = "killed" => tty = "cooked"

(* Only [Enter], [Escape], [Control-C] and a key held with [Alt], which    *)
(* the loop takes for [Escape] (vtlock.c 464), lead to the prompt: an      *)
(* arrow key or [Alt] with the bracket, whose bytes begin with that of     *)
(* [Escape] too, does not, in whatever flush it is read and whatever is    *)
(* typed around it.                                                        *)
OnlyExitKeysLeave == pc = "left" => pressed # {} \/ args.always

(* [Control-C] leaves the clock whenever it is pressed: as SIGINT, or as a *)
(* byte of this or the next flush; so does a newline once it is in stdin.  *)
ExitKeyLeaves ==
    ("CtrlC" \in pressed
       \/ (args.clock /\ \E k \in DOMAIN queue : queue[k] = Newline)) ~> Ended

(* "Press [Enter] to unlock." (vtlock.c)                                   *)
EnterLeaves == "Enter" \in pressed ~> Ended
=============================================================================
