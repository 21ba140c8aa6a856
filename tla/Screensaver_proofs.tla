------------------------- MODULE Screensaver_proofs -------------------------
(* The invariants of Screensaver, for every width of the timer, sleep      *)
(* time, frame rate and number of keys.                                    *)
EXTENDS Screensaver, SequenceTheorems, TLAPS

USE DEF CtrlC, Newline, Return, Escape, Bracket, Letter

Pcs == {"test", "frame", "raw", "read", "restore", "block", "scan", "sleep",
        "left", "killed"}

AllArgs == [lock : BOOLEAN, clock : Clocks, always : BOOLEAN,
            sleep_time : -1 .. IntMax, fps : 1 .. IntMax]

(* Between Frame and Scan the frame under way has been taken off the timer *)
(* and is not in idle yet.                                                 *)
InFrame == pc \in {"raw", "read", "restore", "block", "scan"}

Ticks == IF InFrame THEN idle + 1 ELSE idle

(* How a timer started with these arguments stands after n frames.  A time *)
(* that fits is counted down to 0, and one more frame draws the clock      *)
(* asleep; -1 counts down from -fps, and reaches 0 only after it wrapped.  *)
Counted(a, n, time, dark) ==
    LET frames == a.sleep_time * a.fps IN
    /\ a.sleep_time >= 0 /\ frames <= IntMax =>
         /\ time = IF n <= frames THEN frames - n ELSE 0
         /\ dark <=> n > frames
    /\ a.sleep_time < 0 /\ n <= Modulus - a.fps =>
         /\ dark = FALSE
         /\ time = IF n <= IntMax + 1 - a.fps THEN -a.fps - n
                                              ELSE Modulus - a.fps - n

TimerInv == ~Ended => Counted(args, Ticks, timer, asleep)

(* What keyboard_flush_stdin switches is on exactly while it runs.         *)
ModeInv ==
    /\ tty = "raw" <=> pc \in {"read", "restore"}
    /\ pc # "killed" => (nonblock <=> pc \in {"raw", "read", "restore", "block"})

(* None of these bytes is an exit key: each Escape begins a sequence.      *)
Harmless(s) ==
    \A k \in DOMAIN s :
      /\ s[k] # CtrlC /\ s[k] # Newline
      /\ s[k] = Escape => k < Len(s) /\ s[k + 1] = Bracket

(* Until an exit key is pressed, no byte in stdin or read from it is one.  *)
(* A sequence may be half read only while the flush goes on.               *)
BytesInv ==
    pressed = {} =>
      /\ not_pressed_ctrl_c
      /\ IF pc = "read" THEN Harmless(keypresses \o queue)
                        ELSE Harmless(keypresses) /\ Harmless(queue)

LeftInv == pc = "left" => ~not_pressed_ctrl_c \/ args.always

IInv == /\ args \in AllArgs
        /\ TypeOK
        /\ TimerInv
        /\ ModeInv
        /\ BytesInv
        /\ LeftInv

-----------------------------------------------------------------------------
(* The 32-bit arithmetic on the timer.                                     *)
LEMMA ConstantTypes ==
  /\ IntMax \in Nat \ {0} /\ MaxKeys \in Nat /\ Modulus \in Nat
  /\ Modulus = IntMax + IntMax + 2
BY IntMaxAssumption, MaxKeysAssumption DEF Modulus

LEMMA ModUnique ==
  ASSUME NEW c \in Nat \ {0}, NEW q \in Int, NEW r \in 0 .. c - 1,
         NEW x \in Int, x = c * q + r
  PROVE  x % c = r
<1> DEFINE d == x \div c
<1> DEFINE m == x % c
<1>1. d \in Int /\ m \in 0 .. c - 1 /\ x = c * d + m
  OBVIOUS
<1> HIDE DEF d, m
<1>2. c * (q - d) = m - r
  BY <1>1
<1>3. q - d = 0
  <2>1. CASE q - d >= 1
    BY <1>1, <1>2, <2>1
  <2>2. CASE q - d <= -1
    BY <1>1, <1>2, <2>2
  <2> QED
    BY <1>1, <2>1, <2>2
<1> QED
  BY <1>1, <1>2, <1>3 DEF m

LEMMA WrapRange ==
  ASSUME NEW n \in Int
  PROVE  Wrap(n) \in -IntMax - 1 .. IntMax
<1> DEFINE m == (n + IntMax + 1) % Modulus
<1>1. m \in 0 .. Modulus - 1
  BY ConstantTypes
<1> HIDE DEF m
<1>2. Wrap(n) = m - (IntMax + 1)
  BY DEF Wrap, m
<1> QED
  BY <1>1, <1>2, ConstantTypes

LEMMA WrapInside ==
  ASSUME NEW n \in -IntMax - 1 .. IntMax
  PROVE  Wrap(n) = n
<1> DEFINE x == n + IntMax + 1
<1>1. x \in 0 .. Modulus - 1 /\ x = Modulus * 0 + x /\ Modulus \in Nat \ {0}
  BY ConstantTypes
<1>2. x % Modulus = x
  BY <1>1, ModUnique
<1> QED
  BY <1>2, ConstantTypes DEF Wrap

LEMMA WrapBelow == Wrap(-IntMax - 2) = IntMax
<1> DEFINE x == (-IntMax - 2) + IntMax + 1
<1>1. x = Modulus * (-1) + (Modulus - 1) /\ x \in Int
      /\ Modulus - 1 \in 0 .. Modulus - 1 /\ Modulus \in Nat \ {0}
  BY ConstantTypes
<1>2. x % Modulus = Modulus - 1
  BY <1>1, ModUnique
<1> QED
  BY <1>2, ConstantTypes DEF Wrap

LEMMA ArgsTypes ==
  ASSUME NEW a \in AllArgs
  PROVE  /\ a.lock \in BOOLEAN /\ a.clock \in BOOLEAN /\ a.always \in BOOLEAN
         /\ a.sleep_time \in -1 .. IntMax /\ a.fps \in 1 .. IntMax
         /\ a.sleep_time * a.fps \in Int
         /\ a.sleep_time >= 0 => a.sleep_time * a.fps >= 0
         /\ a.sleep_time < 0 => a.sleep_time = -1 /\ a.sleep_time * a.fps = -a.fps
<1>1. /\ a.lock \in BOOLEAN /\ a.clock \in BOOLEAN /\ a.always \in BOOLEAN
      /\ a.sleep_time \in -1 .. IntMax /\ a.fps \in 1 .. IntMax
  BY ClocksAssumption, IntMaxAssumption DEF AllArgs
<1> DEFINE s == a.sleep_time
           f == a.fps
<1>2. s \in Int /\ f \in Nat /\ s >= -1
  BY <1>1, ConstantTypes
<1> HIDE DEF s, f
<1>3. s * f \in Int
  BY <1>2
<1>4. s >= 0 => s * f >= 0
  BY <1>2
<1>5. s < 0 => s = -1 /\ s * f = -f
  BY <1>2
<1> QED
  BY <1>1, <1>3, <1>4, <1>5 DEF s, f

(* The timer as it is set at the start and after a key.                    *)
LEMMA CountedStart ==
  ASSUME NEW a \in AllArgs
  PROVE  Counted(a, 0, Wrap(a.sleep_time * a.fps), FALSE)
<1> DEFINE frames == a.sleep_time * a.fps
<1>1. /\ a.sleep_time \in -1 .. IntMax /\ a.fps \in 1 .. IntMax /\ frames \in Int
      /\ a.sleep_time >= 0 => frames >= 0
      /\ a.sleep_time < 0 => frames = -a.fps
  BY ArgsTypes
<1> HIDE DEF frames
<1>2. /\ a.sleep_time >= 0 /\ frames <= IntMax => Wrap(frames) = frames
      /\ a.sleep_time < 0 => Wrap(frames) = frames
  BY <1>1, WrapInside, ConstantTypes
<1> QED
  BY <1>1, <1>2, ConstantTypes DEF Counted, frames

(* One frame: the timer is taken down, or is 0 and the clock falls asleep. *)
LEMMA CountedFrame ==
  ASSUME NEW a \in AllArgs, NEW n \in 0 .. Modulus, NEW time \in Int,
         NEW dark \in BOOLEAN, Counted(a, n, time, dark)
  PROVE  /\ time = 0 => Counted(a, n + 1, time, TRUE)
         /\ time # 0 => Counted(a, n + 1, Wrap(time - 1), dark)
<1> DEFINE frames == a.sleep_time * a.fps
<1>1. /\ a.sleep_time \in -1 .. IntMax /\ a.fps \in 1 .. IntMax /\ frames \in Int
      /\ a.sleep_time >= 0 => frames >= 0
  BY ArgsTypes
<1> HIDE DEF frames
<1>2. CASE a.sleep_time >= 0 /\ frames <= IntMax
  <2>1. /\ time = IF n <= frames THEN frames - n ELSE 0
        /\ dark <=> n > frames
    BY <1>2 DEF Counted, frames
  <2>2. time # 0 => Wrap(time - 1) = time - 1 /\ n + 1 <= frames
    BY <1>1, <1>2, <2>1, WrapInside, ConstantTypes
  <2>3. time = 0 => n + 1 > frames
    BY <1>1, <2>1, ConstantTypes
  <2>4. time = 0 => Counted(a, n + 1, time, TRUE)
    BY <1>1, <1>2, <2>3, ConstantTypes DEF Counted, frames
  <2>5. ASSUME time # 0
        PROVE  Counted(a, n + 1, Wrap(time - 1), dark)
    <3>1. ~(n > frames) /\ ~(n + 1 > frames) /\ time - 1 = frames - (n + 1)
      BY <1>1, <2>1, <2>2, <2>5, ConstantTypes
    <3>2. dark = FALSE
      BY <2>1, <3>1, Zenon
    <3> QED
      BY <1>1, <1>2, <2>2, <2>5, <3>1, <3>2 DEF Counted, frames
  <2> QED
    BY <2>4, <2>5
<1>3. CASE a.sleep_time < 0 /\ n + 1 <= Modulus - a.fps
  <2>1. /\ dark = FALSE
        /\ time = IF n <= IntMax + 1 - a.fps THEN -a.fps - n
                                             ELSE Modulus - a.fps - n
    BY <1>1, <1>3, ConstantTypes DEF Counted
  <2>2. time # 0
    BY <1>1, <1>3, <2>1, ConstantTypes
  <2>3. CASE n = IntMax + 1 - a.fps
    <3>1. Wrap(time - 1) = IntMax
      BY <1>1, <2>1, <2>3, WrapBelow, ConstantTypes
    <3> QED
      BY <1>1, <1>3, <2>1, <2>2, <2>3, <3>1, ConstantTypes DEF Counted
  <2>4. CASE n # IntMax + 1 - a.fps
    <3>1. Wrap(time - 1) = time - 1
      BY <1>1, <1>3, <2>1, <2>4, WrapInside, ConstantTypes
    <3> QED
      BY <1>1, <1>3, <2>1, <2>2, <2>4, <3>1, ConstantTypes DEF Counted
  <2> QED
    BY <2>3, <2>4
<1>4. CASE /\ ~(a.sleep_time >= 0 /\ frames <= IntMax)
           /\ ~(a.sleep_time < 0 /\ n + 1 <= Modulus - a.fps)
  BY <1>4 DEF Counted, frames
<1> QED
  BY <1>1, <1>2, <1>3, <1>4, ConstantTypes

(* Frames beyond Modulus need not be told apart.                           *)
LEMMA CountedCap ==
  ASSUME NEW a \in AllArgs, NEW time, NEW dark,
         Counted(a, Modulus + 1, time, dark)
  PROVE  Counted(a, Modulus, time, dark)
<1> DEFINE frames == a.sleep_time * a.fps
<1>1. frames \in Int /\ a.fps \in 1 .. IntMax
  BY ArgsTypes
<1> HIDE DEF frames
<1>2. ~(Modulus <= Modulus - a.fps)
  BY <1>1, ConstantTypes
<1>3. frames <= IntMax =>
        /\ Modulus > frames /\ Modulus + 1 > frames
        /\ ~(Modulus <= frames) /\ ~(Modulus + 1 <= frames)
  BY <1>1, ConstantTypes
<1> QED
  BY <1>2, <1>3, Zenon DEF Counted, frames

-----------------------------------------------------------------------------
(* The bytes of keys that lead nowhere.                                    *)
LEMMA HarmlessConcat ==
  ASSUME NEW s \in Seq(Bytes), NEW t \in Seq(Bytes), Harmless(s), Harmless(t)
  PROVE  Harmless(s \o t)
<1> SUFFICES ASSUME NEW k \in DOMAIN (s \o t)
             PROVE  /\ (s \o t)[k] # CtrlC /\ (s \o t)[k] # Newline
                    /\ (s \o t)[k] = Escape =>
                         k < Len(s \o t) /\ (s \o t)[k + 1] = Bracket
  BY DEF Harmless
<1>1. /\ s \o t \in Seq(Bytes) /\ Len(s \o t) = Len(s) + Len(t)
      /\ Len(s) \in Nat /\ Len(t) \in Nat /\ k \in 1 .. Len(s) + Len(t)
      /\ DOMAIN s = 1 .. Len(s) /\ DOMAIN t = 1 .. Len(t)
  OBVIOUS
<1>2. CASE k \in 1 .. Len(s)
  <2>1. (s \o t)[k] = s[k] /\ (k + 1 <= Len(s) => (s \o t)[k + 1] = s[k + 1])
    BY <1>1, <1>2
  <2> QED
    BY <1>1, <1>2, <2>1 DEF Harmless
<1>3. CASE k \in Len(s) + 1 .. Len(s) + Len(t)
  <2> DEFINE j == k - Len(s)
  <2>1. /\ j \in 1 .. Len(t) /\ (s \o t)[k] = t[j]
        /\ j < Len(t) => (s \o t)[k + 1] = t[j + 1]
        /\ j < Len(t) => k < Len(s) + Len(t)
    BY <1>1, <1>3
  <2> HIDE DEF j
  <2>2. /\ t[j] # CtrlC /\ t[j] # Newline
        /\ t[j] = Escape => j < Len(t) /\ t[j + 1] = Bracket
    BY <1>1, <2>1 DEF Harmless
  <2> QED
    BY <1>1, <2>1, <2>2
<1> QED
  BY <1>1, <1>2, <1>3

LEMMA HarmlessKeys ==
  /\ Harmless(<<>>)
  /\ Harmless(<<Letter>>)
  /\ Harmless(<<Escape, Bracket>>)
  /\ Harmless(<<Escape, Bracket, Letter>>)
<1>1. Harmless(<<>>)
  BY DEF Harmless
<1>2. Harmless(<<Letter>>)
  <2> DEFINE s == <<Letter>>
  <2>1. DOMAIN s = {1} /\ s[1] = Letter
    OBVIOUS
  <2> HIDE DEF s
  <2>2. Harmless(s)
    BY <2>1 DEF Harmless
  <2> QED
    BY <2>2 DEF s
<1>3. Harmless(<<Escape, Bracket, Letter>>)
  <2> DEFINE s == <<Escape, Bracket, Letter>>
  <2>1. DOMAIN s = 1 .. 3 /\ Len(s) = 3 /\ s[1] = Escape /\ s[2] = Bracket
        /\ s[3] = Letter
    OBVIOUS
  <2> HIDE DEF s
  <2>2. Harmless(s)
    BY <2>1 DEF Harmless
  <2> QED
    BY <2>2 DEF s
<1>4. Harmless(<<Escape, Bracket>>)
  <2> DEFINE s == <<Escape, Bracket>>
  <2>1. DOMAIN s = 1 .. 2 /\ Len(s) = 2 /\ s[1] = Escape /\ s[2] = Bracket
    OBVIOUS
  <2> HIDE DEF s
  <2>2. Harmless(s)
    BY <2>1 DEF Harmless
  <2> QED
    BY <2>2 DEF s
<1> QED
  BY <1>1, <1>2, <1>3, <1>4

(* What a flush has taken from stdin and what is left there stay one text. *)
LEMMA TakeByte ==
  ASSUME NEW s \in Seq(Bytes), NEW t \in Seq(Bytes), t # <<>>
  PROVE  /\ Append(s, Head(t)) \in Seq(Bytes) /\ Tail(t) \in Seq(Bytes)
         /\ Append(s, Head(t)) \o Tail(t) = s \o t
OBVIOUS

LEMMA KeyBytes ==
  ASSUME NEW key \in ExitKeys \cup OtherKeys, key # "CtrlC"
  PROVE  /\ BytesOf(key) \in Seq(Bytes)
         /\ key \notin ExitKeys => Harmless(BytesOf(key))
<1>1. CASE key = "Enter"
  BY <1>1 DEF BytesOf, Bytes, ExitKeys
<1>2. CASE key = "Esc"
  BY <1>2 DEF BytesOf, Bytes, ExitKeys
<1>3. CASE key = "Arrow"
  <2>1. BytesOf(key) = <<Escape, Bracket, Letter>>
    BY <1>3 DEF BytesOf
  <2>2. <<Escape, Bracket, Letter>> \in Seq(Bytes)
    BY DEF Bytes
  <2> QED
    BY <2>1, <2>2, HarmlessKeys
<1>4. CASE key = "Letter"
  <2>1. BytesOf(key) = <<Letter>>
    BY <1>4 DEF BytesOf
  <2>2. <<Letter>> \in Seq(Bytes)
    BY DEF Bytes
  <2> QED
    BY <2>1, <2>2, HarmlessKeys
<1>5. CASE key = "Alt"
  <2>1. BytesOf(key) = <<Escape, Letter>> /\ key \in ExitKeys
    BY <1>5 DEF BytesOf, ExitKeys
  <2>2. <<Escape, Letter>> \in Seq(Bytes)
    BY DEF Bytes
  <2> QED
    BY <2>1, <2>2
<1>6. CASE key = "AltBracket"
  <2>1. BytesOf(key) = <<Escape, Bracket>>
    BY <1>6 DEF BytesOf
  <2>2. <<Escape, Bracket>> \in Seq(Bytes)
    BY DEF Bytes
  <2> QED
    BY <2>1, <2>2, HarmlessKeys
<1> QED
  BY <1>1, <1>2, <1>3, <1>4, <1>5, <1>6 DEF ExitKeys, OtherKeys

LEMMA HarmlessStays ==
  ASSUME keypresses \in Seq(Bytes), Harmless(keypresses)
  PROVE  ~\E k \in DOMAIN keypresses : IsExit(k)
<1> SUFFICES ASSUME NEW k \in DOMAIN keypresses
             PROVE  ~IsExit(k)
  OBVIOUS
<1>1. /\ keypresses[k] # CtrlC /\ keypresses[k] # Newline
      /\ keypresses[k] = Escape =>
           k < Len(keypresses) /\ keypresses[k + 1] = Bracket
  BY DEF Harmless
<1>2. k \in Int /\ Len(keypresses) \in Int
  OBVIOUS
<1> QED
  BY <1>1, <1>2 DEF IsExit

-----------------------------------------------------------------------------
(* The invariant holds at the start.                                       *)
LEMMA InitInv == Init => IInv
<1> SUFFICES ASSUME Init
             PROVE  IInv
  OBVIOUS
<1>1. /\ args \in AllArgs /\ pc = "test" /\ timer = Timer /\ asleep = FALSE
      /\ not_pressed_ctrl_c = TRUE /\ keypresses = <<>> /\ tty = "cooked"
      /\ nonblock = FALSE /\ idle = 0 /\ pressed = {} /\ keys = 0
  BY DEF Init, AllArgs
<1>2. queue \in Seq(Bytes) /\ Harmless(queue) /\ keypresses \in Seq(Bytes)
  <2>1. <<Letter>> \in Seq(Bytes) /\ <<>> \in Seq(Bytes)
    BY DEF Bytes
  <2> QED
    BY <1>1, <2>1, HarmlessKeys DEF Init
<1>3. Counted(args, 0, timer, FALSE)
  BY <1>1, CountedStart DEF Timer
<1>4. timer \in IF Fits THEN 0 .. args.sleep_time * args.fps
                        ELSE -IntMax - 1 .. IntMax
  <2>1. timer \in -IntMax - 1 .. IntMax
    BY <1>1, ArgsTypes, WrapRange DEF Timer
  <2>2. CASE Fits
    <3>1. args.sleep_time * args.fps \in Nat
      BY <1>1, <2>2, ArgsTypes DEF Fits
    <3>2. timer = args.sleep_time * args.fps - 0
      BY <1>3, <2>2, <3>1 DEF Counted, Fits
    <3> QED
      BY <2>2, <3>1, <3>2
  <2> QED
    BY <2>1, <2>2
<1>5. TypeOK
  <2>1. keys \in 0 .. MaxKeys /\ idle \in 0 .. Modulus
    BY <1>1, ConstantTypes
  <2>2. pressed \subseteq ExitKeys
    BY <1>1
  <2> QED
    BY <1>1, <1>2, <1>4, <2>1, <2>2 DEF TypeOK
<1>6. TimerInv
  BY <1>1, <1>3 DEF TimerInv, Ticks, InFrame
<1>7. ModeInv /\ LeftInv
  BY <1>1 DEF ModeInv, LeftInv
<1>8. BytesInv
  BY <1>1, <1>2, HarmlessKeys DEF BytesInv
<1> QED
  BY <1>1, <1>5, <1>6, <1>7, <1>8 DEF IInv

(* One lemma per conjunct; args never changes.                             *)
LEMMA ArgsStep == IInv /\ Next => args' = args /\ args' \in AllArgs
<1> SUFFICES ASSUME IInv, Next
             PROVE  args' = args
  BY DEF IInv
<1> QED
  BY DEF Next, Program, User, Test, Frame, cursor_no_echo, ReadByte, ReadNothing,
         cursor_yes_echo, Block, Scan, sleep_milli, Press

(* The program's steps, and the two things a key does.                     *)
Signal ==
    /\ tty = "cooked" /\ ~args.always /\ queue' = <<>> /\ Interrupt

Type(bytes) ==
    /\ queue' = queue \o bytes
    /\ UNCHANGED <<pc, not_pressed_ctrl_c>>

KeyStep ==
    /\ ~Ended /\ keys < MaxKeys /\ keys' = keys + 1
    /\ \/ pressed' = pressed \cup {"CtrlC"} /\ Signal
       \/ \E bytes \in Seq(Bytes) :
            /\ Type(bytes)
            /\ \/ pressed' = pressed /\ Harmless(bytes)
               \/ \E key \in ExitKeys : pressed' = pressed \cup {key}
    /\ UNCHANGED <<args, timer, asleep, keypresses, ttyVars, idle>>

LEMMA UserStep == TypeOK /\ User => KeyStep
<1> SUFFICES ASSUME TypeOK, NEW key \in ExitKeys \cup OtherKeys,
                    Press(key)
             PROVE  KeyStep
  BY DEF User
<1>1. /\ ~Ended /\ keys < MaxKeys /\ keys' = keys + 1
      /\ pressed' = pressed \cup ({key} \cap ExitKeys)
      /\ UNCHANGED <<args, timer, asleep, keypresses, ttyVars, idle>>
  BY DEF Press
<1>2. CASE key = "CtrlC" /\ PressCtrlC
  <2>1. pressed' = pressed \cup {"CtrlC"} /\ "CtrlC" \in ExitKeys
    BY <1>1, <1>2 DEF ExitKeys
  <2>2. CASE Signal
    BY <1>1, <2>1, <2>2 DEF KeyStep
  <2>3. CASE Type(<<CtrlC>>)
    <3>1. <<CtrlC>> \in Seq(Bytes)
      BY DEF Bytes
    <3> QED
      BY <1>1, <2>1, <2>3, <3>1 DEF KeyStep
  <2>4. Signal \/ Type(<<CtrlC>>)
    <3>1. queue \in Seq(Bytes)
      BY DEF TypeOK
    <3>2. Append(queue, CtrlC) = queue \o <<CtrlC>>
      BY <3>1
    <3> QED
      BY <1>2, <3>2 DEF PressCtrlC, Signal, Type
  <2> QED
    BY <2>2, <2>3, <2>4
<1>3. CASE key # "CtrlC" /\ Type(BytesOf(key))
  <2>1. BytesOf(key) \in Seq(Bytes) /\ (key \notin ExitKeys => Harmless(BytesOf(key)))
    BY <1>3, KeyBytes
  <2>2. CASE key \in ExitKeys
    <3>1. pressed' = pressed \cup {key}
      BY <1>1, <2>2
    <3> QED
      BY <1>1, <1>3, <2>1, <2>2, <3>1 DEF KeyStep
  <2>3. CASE key \notin ExitKeys
    <3>1. pressed' = pressed
      BY <1>1, <2>3
    <3> QED
      BY <1>1, <1>3, <2>1, <2>3, <3>1 DEF KeyStep
  <2> QED
    BY <2>2, <2>3
<1> QED
  BY <1>2, <1>3 DEF Press, Type

-----------------------------------------------------------------------------
(* The invariant is kept by every step.                                    *)
TimerType(a, time) ==
    time \in IF a.sleep_time >= 0 /\ a.sleep_time * a.fps <= IntMax
               THEN 0 .. a.sleep_time * a.fps
               ELSE -IntMax - 1 .. IntMax

LEMMA TimerTypeStart ==
  ASSUME NEW a \in AllArgs
  PROVE  TimerType(a, Wrap(a.sleep_time * a.fps))
<1> DEFINE frames == a.sleep_time * a.fps
<1>1. frames \in Int /\ (a.sleep_time >= 0 => frames >= 0)
  BY ArgsTypes
<1> HIDE DEF frames
<1>2. Wrap(frames) \in -IntMax - 1 .. IntMax
  BY <1>1, WrapRange
<1>3. frames >= 0 /\ frames <= IntMax => Wrap(frames) = frames
  BY <1>1, WrapInside, ConstantTypes
<1>4. CASE a.sleep_time >= 0 /\ frames <= IntMax
  <2>1. Wrap(frames) \in 0 .. frames
    BY <1>1, <1>3, <1>4
  <2> QED
    BY <1>4, <2>1 DEF TimerType, frames
<1>5. CASE ~(a.sleep_time >= 0 /\ frames <= IntMax)
  BY <1>2, <1>5 DEF TimerType, frames
<1> QED
  BY <1>4, <1>5

LEMMA TimerTypeStep ==
  ASSUME NEW a \in AllArgs, NEW time, TimerType(a, time), time # 0
  PROVE  time \in Int /\ TimerType(a, Wrap(time - 1))
<1> DEFINE frames == a.sleep_time * a.fps
<1>1. frames \in Int
  BY ArgsTypes
<1> HIDE DEF frames
<1>2. time \in Int
  BY <1>1, ConstantTypes DEF TimerType, frames
<1>3. Wrap(time - 1) \in -IntMax - 1 .. IntMax
  BY <1>2, WrapRange
<1>4. ASSUME a.sleep_time >= 0, frames <= IntMax
      PROVE  Wrap(time - 1) \in 0 .. frames
  <2>1. time \in 1 .. frames
    BY <1>1, <1>4 DEF TimerType, frames
  <2> QED
    BY <1>1, <1>4, <2>1, WrapInside, ConstantTypes
<1> QED
  BY <1>2, <1>3, <1>4 DEF TimerType, frames

LEMMA TimerStep == IInv /\ Next => TimerType(args', timer') /\ timer \in Int
<1> SUFFICES ASSUME IInv, Next
             PROVE  TimerType(args, timer') /\ timer \in Int
  BY ArgsStep
<1>1. args \in AllArgs /\ TimerType(args, timer)
  BY DEF IInv, TypeOK, TimerType, Fits
<1>2. timer \in Int
  BY <1>1, ArgsTypes, ConstantTypes DEF TimerType
<1>3. CASE timer' = timer
  BY <1>1, <1>2, <1>3
<1>4. CASE timer # 0 /\ timer' = Wrap(timer - 1)
  BY <1>1, <1>2, <1>4, TimerTypeStep
<1>5. CASE timer' = Timer
  BY <1>1, <1>2, <1>5, TimerTypeStart DEF Timer
<1>6. timer' = timer \/ (timer # 0 /\ timer' = Wrap(timer - 1)) \/ timer' = Timer
  BY DEF Next, Program, User, Test, Frame, cursor_no_echo, ReadByte, ReadNothing,
         cursor_yes_echo, Block, Scan, sleep_milli, Press, Wake, loopVars
<1> QED
  BY <1>3, <1>4, <1>5, <1>6

LEMMA TypeStep == IInv /\ Next => TypeOK'
<1> SUFFICES ASSUME IInv, Next
             PROVE  TypeOK'
  OBVIOUS
<1>1. TypeOK /\ args' = args
  BY ArgsStep DEF IInv
<1>2. timer' \in (IF Fits THEN 0 .. args.sleep_time * args.fps
                         ELSE -IntMax - 1 .. IntMax)'
  BY TimerStep DEF TimerType, Fits
<1>3. ASSUME KeyStep
      PROVE  TypeOK'
  <2>1. keys' \in 0 .. MaxKeys
    BY <1>1, <1>3, ConstantTypes DEF TypeOK, KeyStep
  <2>2. pressed' \subseteq ExitKeys
    BY <1>1, <1>3 DEF TypeOK, KeyStep, ExitKeys
  <2>3. /\ queue' \in Seq(Bytes) /\ not_pressed_ctrl_c' \in BOOLEAN
        /\ pc' \in Pcs
    <3>1. CASE Signal
      <4>1. <<>> \in Seq(Bytes)
        OBVIOUS
      <4> QED
        BY <1>1, <3>1, <4>1 DEF TypeOK, Signal, Interrupt, Pcs
    <3>2. ASSUME NEW bytes \in Seq(Bytes), Type(bytes)
          PROVE  /\ queue' \in Seq(Bytes) /\ not_pressed_ctrl_c' \in BOOLEAN
                 /\ pc' \in Pcs
      BY <1>1, <3>2 DEF TypeOK, Type, Pcs
    <3> QED
      BY <1>3, <3>1, <3>2 DEF KeyStep
  <2>4. UNCHANGED <<asleep, keypresses, tty, nonblock, idle>>
    BY <1>3 DEF KeyStep, ttyVars
  <2> QED
    BY <1>1, <1>2, <2>1, <2>2, <2>3, <2>4 DEF TypeOK, Pcs
<1>4. ASSUME Program
      PROVE  TypeOK'
  <2>1. keys' \in 0 .. MaxKeys /\ pressed' \subseteq ExitKeys
    BY <1>1, <1>4 DEF TypeOK, Program, Test, Frame, cursor_no_echo, ReadByte,
         ReadNothing, cursor_yes_echo, Block, Scan, sleep_milli, userVars
  <2>2. /\ pc' \in Pcs /\ tty' \in {"cooked", "raw"} /\ nonblock' \in BOOLEAN
    BY <1>1, <1>4 DEF TypeOK, Pcs, Program, Test, Frame, cursor_no_echo, ReadByte,
         ReadNothing, cursor_yes_echo, Block, Scan, sleep_milli, ttyVars
  <2>3. not_pressed_ctrl_c' \in BOOLEAN
    <3>1. CASE Scan
      BY <3>1 DEF Scan
    <3>2. CASE ~Scan
      BY <1>1, <1>4, <3>2 DEF TypeOK, Program, Test, Frame, cursor_no_echo,
         ReadByte, ReadNothing, cursor_yes_echo, Block, sleep_milli, loopVars
    <3> QED
      BY <3>1, <3>2
  <2>4. asleep' \in BOOLEAN
    BY <1>1, <1>4 DEF TypeOK, Program, Test, Frame, cursor_no_echo, ReadByte,
         ReadNothing, cursor_yes_echo, Block, Scan, Wake, sleep_milli, loopVars
  <2>5. idle' \in 0 .. Modulus
    BY <1>1, <1>4, ConstantTypes DEF TypeOK, Program, Test, Frame, cursor_no_echo,
         ReadByte, ReadNothing, cursor_yes_echo, Block, Scan, Wake, CountIdle,
         sleep_milli
  <2>6. keypresses' \in Seq(Bytes) /\ queue' \in Seq(Bytes)
    <3>1. CASE ReadByte
      BY <1>1, <3>1, TakeByte DEF TypeOK, ReadByte
    <3>2. CASE ~ReadByte
      <4>1. <<>> \in Seq(Bytes)
        OBVIOUS
      <4> QED
        BY <1>1, <1>4, <3>2, <4>1 DEF TypeOK, Program, Test, Frame,
           cursor_no_echo, ReadNothing, cursor_yes_echo, Block, Scan,
           sleep_milli, userVars
    <3> QED
      BY <3>1, <3>2
  <2> QED
    BY <1>2, <2>1, <2>2, <2>3, <2>4, <2>5, <2>6 DEF TypeOK, Pcs
<1> QED
  BY <1>1, <1>3, <1>4, UserStep DEF Next

LEMMA ModeStep == IInv /\ Next => ModeInv'
<1> SUFFICES ASSUME IInv, Next
             PROVE  ModeInv'
  OBVIOUS
<1>1. /\ tty \in {"cooked", "raw"} /\ nonblock \in BOOLEAN /\ pc \in Pcs
      /\ ModeInv /\ TypeOK
  BY DEF IInv, TypeOK, Pcs
<1>2. CASE Program
  BY <1>1, <1>2 DEF ModeInv, Program, Test, Frame, cursor_no_echo, ReadByte,
     ReadNothing, cursor_yes_echo, Block, Scan, sleep_milli, ttyVars
<1>3. CASE KeyStep
  BY <1>1, <1>3 DEF ModeInv, KeyStep, Signal, Interrupt, Type, Ended, ttyVars
<1> QED
  BY <1>1, <1>2, <1>3, UserStep DEF Next

LEMMA LeftStep == IInv /\ Next => LeftInv'
<1> SUFFICES ASSUME IInv, Next
             PROVE  LeftInv'
  OBVIOUS
<1>1. LeftInv /\ TypeOK /\ args' = args /\ not_pressed_ctrl_c \in BOOLEAN
  BY ArgsStep DEF IInv, TypeOK
<1>2. CASE Program
  BY <1>1, <1>2 DEF LeftInv, Program, Test, Frame, cursor_no_echo, ReadByte,
     ReadNothing, cursor_yes_echo, Block, Scan, sleep_milli, loopVars
<1>3. CASE KeyStep
  BY <1>1, <1>3 DEF LeftInv, KeyStep, Signal, Interrupt, Type, Ended
<1> QED
  BY <1>1, <1>2, <1>3, UserStep DEF Next

LEMMA BytesStep == IInv /\ Next => BytesInv'
<1> SUFFICES ASSUME IInv, Next, pressed' = {}
             PROVE  /\ not_pressed_ctrl_c'
                    /\ pc' = "read" => Harmless((keypresses \o queue)')
                    /\ pc' # "read" => Harmless(keypresses') /\ Harmless(queue')
  BY DEF BytesInv
<1>1. /\ keypresses \in Seq(Bytes) /\ queue \in Seq(Bytes)
      /\ pc \in Pcs /\ TypeOK
  BY DEF IInv, TypeOK, Pcs
<1>2. pressed = {} => /\ not_pressed_ctrl_c
                      /\ pc = "read" => Harmless(keypresses \o queue)
                      /\ pc # "read" => Harmless(keypresses) /\ Harmless(queue)
  BY DEF IInv, BytesInv
<1>3. CASE KeyStep
  <2>1. PICK bytes \in Seq(Bytes) : Type(bytes) /\ pressed' = pressed /\ Harmless(bytes)
    BY <1>3 DEF KeyStep
  <2>2. /\ queue' = queue \o bytes /\ keypresses' = keypresses /\ pressed = {}
        /\ pc' = pc /\ not_pressed_ctrl_c' = not_pressed_ctrl_c
    BY <1>3, <2>1 DEF KeyStep, Type
  <2>3. CASE pc = "read"
    <3>1. keypresses \o (queue \o bytes) = (keypresses \o queue) \o bytes
          /\ keypresses \o queue \in Seq(Bytes)
      BY <1>1, <2>1
    <3>2. Harmless(keypresses \o (queue \o bytes))
      BY <1>2, <2>1, <2>2, <2>3, <3>1, HarmlessConcat
    <3> QED
      BY <1>2, <2>2, <2>3, <3>2
  <2>4. CASE pc # "read"
    <3>1. Harmless(queue \o bytes)
      BY <1>1, <1>2, <2>1, <2>2, <2>4, HarmlessConcat
    <3> QED
      BY <1>2, <2>2, <2>4, <3>1
  <2> QED
    BY <2>3, <2>4
<1>4. CASE Frame
  BY <1>1, <1>2, <1>4, HarmlessKeys DEF Frame, userVars
<1>5. CASE cursor_no_echo
  <2>1. /\ keypresses' = keypresses /\ queue' = queue /\ pressed = {}
        /\ pc = "raw" /\ pc' = "read" /\ not_pressed_ctrl_c' = not_pressed_ctrl_c
    BY <1>5 DEF cursor_no_echo, userVars, loopVars
  <2>2. Harmless(keypresses \o queue)
    BY <1>1, <1>2, <2>1, HarmlessConcat
  <2> QED
    BY <1>2, <2>1, <2>2
<1>6. CASE ReadByte
  <2>1. /\ keypresses' = Append(keypresses, Head(queue)) /\ queue' = Tail(queue)
        /\ pc = "read" /\ pc' = "read" /\ pressed = {} /\ queue # <<>>
        /\ not_pressed_ctrl_c' = not_pressed_ctrl_c
    BY <1>6 DEF ReadByte, loopVars
  <2>2. keypresses' \o queue' = keypresses \o queue
    BY <1>1, <2>1, TakeByte
  <2> QED
    BY <1>2, <2>1, <2>2
<1>7. CASE ReadNothing
  <2>1. /\ keypresses' = keypresses /\ queue' = queue /\ queue = <<>>
        /\ pc = "read" /\ pc' = "restore" /\ pressed = {}
        /\ not_pressed_ctrl_c' = not_pressed_ctrl_c
    BY <1>7 DEF ReadNothing, userVars, loopVars
  <2>2. keypresses \o queue = keypresses
    BY <1>1, <2>1
  <2> QED
    BY <1>2, <2>1, <2>2, HarmlessKeys
<1>8. CASE Scan
  <2>1. /\ keypresses' = <<>> /\ queue' = queue /\ pressed = {}
        /\ pc = "scan" /\ pc' = "sleep"
        /\ not_pressed_ctrl_c' =
             (not_pressed_ctrl_c /\ ~\E k \in DOMAIN keypresses : IsExit(k))
    BY <1>8 DEF Scan, userVars
  <2>2. not_pressed_ctrl_c /\ Harmless(keypresses) /\ Harmless(queue)
    BY <1>2, <2>1
  <2>3. ~\E k \in DOMAIN keypresses : IsExit(k)
    BY <1>1, <2>2, HarmlessStays
  <2> QED
    BY <2>1, <2>2, <2>3, HarmlessKeys
<1>9. CASE Test \/ cursor_yes_echo \/ Block \/ sleep_milli
  BY <1>1, <1>2, <1>9 DEF Test, cursor_yes_echo, Block, sleep_milli, userVars, loopVars
<1> QED
  BY <1>1, <1>3, <1>4, <1>5, <1>6, <1>7, <1>8, <1>9, UserStep DEF Next, Program

LEMMA TimingStep == IInv /\ Next => TimerInv'
<1> SUFFICES ASSUME IInv, Next, ~Ended'
             PROVE  Counted(args, Ticks', timer', asleep')
  BY ArgsStep DEF TimerInv
<1>1. /\ args \in AllArgs /\ timer \in Int /\ asleep \in BOOLEAN
      /\ idle \in 0 .. Modulus /\ pc \in Pcs /\ TypeOK
  BY TimerStep DEF IInv, TypeOK, Pcs
<1>2. CASE ~Ended /\ UNCHANGED <<timer, asleep, idle>> /\ (InFrame' <=> InFrame)
  BY <1>2 DEF IInv, TimerInv, Ticks
<1>3. CASE KeyStep
  <2>1. ~Ended /\ UNCHANGED <<timer, asleep, idle>> /\ pc' = pc
    BY <1>3 DEF KeyStep, Signal, Interrupt, Type, Ended
  <2> QED
    BY <1>2, <2>1 DEF InFrame
<1>4. CASE Frame
  <2>1. /\ idle' = idle /\ Ticks = idle /\ Ticks' = idle + 1
        /\ Counted(args, idle, timer, asleep)
    BY <1>4 DEF Frame, InFrame, Ticks, IInv, TimerInv, Ended
  <2>2. CASE timer = 0 /\ asleep' = TRUE /\ timer' = timer
    BY <1>1, <2>1, <2>2, CountedFrame
  <2>3. CASE timer # 0 /\ timer' = Wrap(timer - 1) /\ asleep' = asleep
    BY <1>1, <2>1, <2>3, CountedFrame
  <2> QED
    BY <1>4, <2>2, <2>3 DEF Frame
<1>5. CASE Scan
  <2>1. Ticks' = idle' /\ Counted(args, idle + 1, timer, asleep)
    BY <1>5 DEF Scan, InFrame, Ticks, IInv, TimerInv, Ended
  <2>2. CASE timer' = Timer /\ asleep' = FALSE /\ idle' = 0
    BY <1>1, <2>1, <2>2, CountedStart DEF Timer
  <2>3. CASE idle' = CountIdle /\ UNCHANGED <<timer, asleep>>
    <3>1. CASE idle < Modulus
      BY <2>1, <2>3, <3>1 DEF CountIdle
    <3>2. CASE ~(idle < Modulus)
      <4>1. idle = Modulus /\ idle' = Modulus
        BY <1>1, <2>3, <3>2, ConstantTypes DEF CountIdle
      <4> QED
        BY <1>1, <2>1, <2>3, <4>1, CountedCap
    <3> QED
      BY <3>1, <3>2
  <2> QED
    BY <1>5, <2>2, <2>3 DEF Scan, Wake
<1>6. CASE \/ cursor_no_echo \/ ReadByte \/ ReadNothing \/ cursor_yes_echo \/ Block
           \/ Test \/ sleep_milli
  <2>1. UNCHANGED <<timer, asleep, idle>> /\ ~Ended
    BY <1>6 DEF Test, cursor_no_echo, ReadByte, ReadNothing, cursor_yes_echo,
       Block, sleep_milli, loopVars, Ended
  <2>2. InFrame' <=> InFrame
    BY <1>6 DEF Test, cursor_no_echo, ReadByte, ReadNothing, cursor_yes_echo,
       Block, sleep_milli, InFrame
  <2> QED
    BY <1>2, <2>1, <2>2
<1> QED
  BY <1>1, <1>3, <1>4, <1>5, <1>6, UserStep DEF Next, Program

LEMMA Invariance == Spec => []IInv
<1>1. IInv /\ [Next]_vars => IInv'
  <2>1. CASE Next
    BY <2>1, ArgsStep, TypeStep, ModeStep, LeftStep, BytesStep, TimingStep DEF IInv
  <2>2. CASE UNCHANGED vars
    BY <2>2 DEF vars, IInv, TypeOK, TimerInv, ModeInv, BytesInv, LeftInv, Ended,
       Ticks, InFrame, Fits
  <2> QED
    BY <2>1, <2>2
<1> QED
  BY <1>1, InitInv, PTL DEF Spec

-----------------------------------------------------------------------------
(* Types; a timer set to a time that fits stays between that time and 0,   *)
(* in the loop and through every key that starts it again (vtlock.c).      *)
THEOREM TypeCorrect == Spec => []TypeOK
<1>1. IInv => TypeOK
  BY DEF IInv
<1> QED
  BY <1>1, Invariance, PTL

(* The clock is drawn asleep from the frame that --clock-sleep-time asks   *)
(* for, whatever the width of the timer, that time and the frame rate; and *)
(* with -1 not before the timer has wrapped.                               *)
THEOREM FallsAsleepOnTime == Spec => []SleepsOnTime
<1>1. ASSUME IInv, pc = "sleep"
      PROVE  /\ Fits => (asleep <=> idle > args.sleep_time * args.fps)
             /\ args.sleep_time < 0 /\ idle <= Modulus - args.fps => ~asleep
  <2>1. Counted(args, idle, timer, asleep)
    BY <1>1 DEF IInv, TimerInv, Ended, Ticks, InFrame
  <2> QED
    BY <2>1 DEF Counted, Fits
<1>2. IInv => SleepsOnTime
  BY <1>1 DEF SleepsOnTime
<1> QED
  BY <1>2, Invariance, PTL

(* stdin is in its usual mode when the loop is left, however the keys fell *)
(* between the steps of keyboard_flush_stdin.                              *)
THEOREM RestoresTerminal == Spec => []TerminalRestored
<1>1. IInv => TerminalRestored
  BY DEF IInv, TypeOK, ModeInv, TerminalRestored
<1> QED
  BY <1>1, Invariance, PTL

(* Whatever is typed and in whatever pieces it is read, only an exit key   *)
(* leads to the prompt.                                                    *)
THEOREM LeftByExitKey == Spec => []OnlyExitKeysLeave
<1>1. IInv => OnlyExitKeysLeave
  BY DEF IInv, BytesInv, LeftInv, OnlyExitKeysLeave
<1> QED
  BY <1>1, Invariance, PTL
=============================================================================
