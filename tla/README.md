# A verification project for vtlock

`vtlock` locks a Linux virtual terminal until the right password is typed. This
directory holds TLA+ models of it, translated from the C sources under
`src/src/`, the TLC configurations that check them on small instances, and
proofs for TLAPS. Line numbers below are those of the sources.

    tlc -config MCVtLock_safety.cfg MCVtLock      (and so on, see "Runs")
    tlapm VtLock_proofs.tla             (and PasswordFile_proofs, Screensaver_proofs,
    tlapm PasswdBuffer_proofs.tla        PromptLine_proofs, AskPasswd_proofs,
                                         Args_proofs, ClockRedraw_proofs)

## 1. Inventory of the system

| part | state it keeps | operations | what makes it correct |
|---|---|---|---|
| main program, `vtlock.c` 365-513 | `_not_pressed_ctrl_c`, `_always_pressed_ctrl_c`, `exit_code`, `incorrect_pwds` | probe the console, set up and confirm the password, lock, clock and prompt loop, unlock | locked means held; only the password opens, or a file that cannot be used; every exit leaves the console as it announces; a user who knows the password gets out |
| console and signals, `console/console_switch.c` | `old_vtm`; in the kernel: mode and owner of the console, a pending switch, signal dispositions | `lock_console_switch`, `unlock_console_switch`, `no_vt_switch`, `ack_vt_switch`, `set_signal`, `lock_signals` | no switch signal without handlers; switch requests are answered; the console stays on the screen |
| password file, `passwd.c`, `hash/hash.c` | a file of salt and hash, shared by the vtlocks of all terminals; the buffers of each call | `chk_passwd_set`, `set_passwd`, `chk_passwd` | the file is never a mixture of two passwords; the confirmed password is the one in the file, also after failed writes; every exit frees what it allocated, but for the `FILE`s of two |
| clock loop, `vtlock.c` 441-478, `io/keyboard.c` 51-71, `io/cursor.c` | idle timer, colour, mode of the terminal, `O_NONBLOCK` | draw a frame, flush stdin, look for exit keys | sleeps on time, is left by the exit keys and only by them and keys with Alt, restores the terminal |
| password prompt, `io/keyboard.c` 73-288, `types/list.h`, `types/secure_delete.c` | the array `passwd`, `size`, `capacity`, `cursor`, the place in an escape sequence | decode keys, edit, grow, wipe | no write outside the buffer, nothing left in freed memory, the array is the line the user typed |
| command line, `vtlock.c` 34-147 and 249-362 | `i` (a `uint8_t`), `Args` | parse one word | what is run is what was written |
| the prompt's line on the screen, `io/keyboard.c` 240-266 | the rows it takes | erase and redraw after each key, blank at the end | nothing above the prompt is erased, nothing of an older line is left |
| strings and bytes, `types/string.c`, `types/bytes.c` | none | UTF-8 validity, substrings, concatenation, file reads | a string is what its characters are, however it is cut and joined |
| clock drawing, `time/clock_cli.c`, `io/screen.c` | place, colour, fill and digits drawn last | draw what changed | the screen shows the time, and nothing older |
| Makefile | none | build | not modelled |

How they interact: `main` calls `actual_main`, which calls everything else one
call at a time; the program has one thread. Concurrency comes from outside:
signal handlers run between any two of its steps and share
`_not_pressed_ctrl_c` and the console with it; the kernel asks for a console
switch by a signal and waits for the answer; the user types while the terminal
is being switched between modes; other processes stop, continue or kill
vtlock and write the password file; a killed vtlock leaves its console to the
next. What is hard, with the line where it bites, is listed under "hazards" in
`PROJECT.json`, with the property that would notice it going wrong.

## 2. The modules

**ConsoleSwitch** is the component `console_switch.c` together with the
kernel's side of it. `VT_SETMODE`, `VT_RELDISP`, `RequestSwitch`, `SwitchBack`
are external, modelled as the code relies on them (Linux `vt_ioctl.c`): a
request in `VT_PROCESS` is pending until the owner answers it; any answer but 0
completes it, also one that was meant as an acknowledgement; the console of a
dead owner becomes `VT_AUTO` when the owner is next needed.

**VtLock** extends it with `actual_main`. `pc` names the call the program makes
next; one action is one call with all that follows it up to the next call. Each
call that can fail has a failing disjunct. `caller` tells the probe's
`lock_console_switch` from the session's. The file is one of: exactly a salt
and a hash, longer (`chk_passwd` reads a prefix, `chk_passwd_set` refuses it),
unusable. `readable` says whether `fopen` and `ftell` would succeed on it as it
is, and changes at any moment (`AccessChanges`), so that `chk_passwd_set` fails on
a good file too (`passwd.c` 11 and 15). A hash stands for the password it was
made from. `HandleSwitch`,
`PressedCtrlC`, `Stop`, `Terminate` run between any two calls when the
dispositions allow; `Restart` is the next session on the same console and the
same file. `found`, `confirmed` and `touched` are history.

**LockContract** is what VtLock promises, without consoles and signals: locked
once a password was given, opened only for the password that the file holds at
that moment, or when there is no usable file at that moment: none, not a salt
and a hash, or one that cannot be opened or measured.

**PasswordFile** is `passwd.c` one system call at a time, in several processes
with one file: `pc` is the next call, `heap` what the process has allocated
(its byte strings, and the `FILE` objects of `fopen`, "lost" once no variable
points to them), `buffer` what the `FILE` has read ahead. The file is a sequence of pieces of 64
bytes; a hash is the pair of what was hashed. Both `fwrite`s stay in the
`FILE`'s buffer until `fclose`, which writes them at offset 0, whatever another
process has done to the file since `fopen` truncated it; a full disk takes
both, the salt alone or nothing. A process may be killed between any two calls
and vtlock run again. `confirmed`, `late`, `torn`, `misjudged` are history.
VtLock has the same calls as single steps and everyone else as `OtherWrites`.
**PasswordStore** is what the file promises to its users: one password or none,
each check looks at it once.

**Screensaver** is the inner loop of `actual_main`, one action per call that
changes the terminal, so that a key can be pressed in each of its modes.
VtLock's `ExitKey`, `PressedCtrlC` and `LeaveClock` are what is left of it
there. A key with Alt sends an escape byte before its own, which the loop takes
for Escape unless a bracket follows. The timer is an `int32_t` of `IntMax`; its overflow, undefined in C, is
taken to wrap, as the multiplication and the decrement of the build do. The
line discipline (Control-C as a signal or as byte 3, Enter as 10 or 13) is
external.

**ClockRedraw** is what that loop draws: every cell of the terminal, its cursor,
and `last_draw`, the static variables that tell a frame what it need not draw.
One frame is one action. Between two frames the terminal may be resized, and it
echoes keys, because the flush turns the echo off only while it reads. `Echo`
writes at the cursor, which a frame leaves behind the message on row 1: a full
row is continued on the next one, Enter begins a new row, and on the last row
that scrolls the screen. The line that `perror` prints when there is no time is
written in the same way. `touched` is history: the cells below the message which
were echoed or scrolled, until the clock writes or clears them or the screen is
cleared. So is `stale`: a resize not yet followed by a full redraw.

**PasswdBuffer** is the line editor on its memory: `passwd` is a function on
`0 .. capacity-1` whose cells can hold `Junk`, what `malloc` returned. Each
shifting loop is written as its result. `released` is the last buffer freed.
**LineEditor** is what it promises: a sequence and a position. **PromptLine**
extends PasswdBuffer with the terminal: each key's step is joined with the
erasing of the rows the old line took, counted as the code counts them, and
`missed` says by how many rows that count was short (positive) or went above
the prompt (negative).

**Strings** is `string.c` for UTF-8, as pure functions on sequences of bytes,
with the indices and sentinels of the code. `Encoded` (RFC 3629) and
`Consistent` are its reference definitions.

**AskPasswd** drives an instance of PasswdBuffer with the decoder of
`keyboard_ask_passwd`, one `getchar()` per action; `dec` is the place in the
nested switches. Bytes are named by the part they play, and each carries the
key it completes; `Byte` gives those that can be in a line their values, for
`string_from_bytes`. After `HangUp` every `getchar()` returns EOF, which the
code narrows to 255. `Unknown` are keys with Alt for which the decoder begins to
read a sequence that does not come. `intended` is history: the line that the
keys read so far stand for, and what an unknown key swallows of the next
(`swallow`, `Edited`). It is computed with operators of SequencesExt and never with those of
PasswdBuffer, and the line is accepted by a definition of UTF-8 that is not that of Strings.

**Args** is the loop of `main` and its macros. A word is an option (alone or
with a joined value), a text or a stub (a proper beginning of a flag). The
flags are compared for the length of the *word*, so that a stub, and the empty
word, make the program read behind the word: a nondeterministic match. A number
that overflows `int` is nondeterministic too. The index wraps at `IndexRange`.

The MC modules only give constants their values. The definitions whose names
end in a suffix after a code name (`SetMode_unchecked`,
`Removed_late`, ...) are deliberately wrong variants, one for each property;
with the variant in place of the right definition the property fails.

## 3. Runs

| run | bounds | shows |
|---|---|---|
| vtlock_safety | 2 passwords, 2 sessions, 2 failing `set_signal`, counter mod 2, other writers, a file that cannot always be opened | TypeOK; ConsoleHeld; HandlersArmed; ModeRestored; ConfirmedPasswordWorks; StaysForeground; VtLock implements LockContract |
| vtlock_progress | 1 password, 1 session, 1 failing `set_signal`, fair | SwitchAnswered; UserGetsOut |
| password_file | 2 processes run twice each, 2 passwords | TypeOK; WholeFile; ConfirmedKept; LeaksOnlyFiles; PasswordFile implements PasswordStore |
| prompt_line | 2 characters, capacities 3, 4, 6, 9, lines up to 6, 3, 4, 7 or 12 columns, prompts of 2 and 3 | TypeOK; BufferBounds; NothingLeft; PasswdBuffer implements LineEditor; NothingAboveErased; TypingInPlace; LengthHidden |
| ask_passwd | 4 keys of 25, less than 2 bytes waiting when a key is pressed, hang-up at any time, fair | TypeOK; InStep; PasswordReadsBack; PromptEnds |
| screensaver | 3 keys, with Alt and without, integers of 3 bits, sleep times -1, 0, 1, 3 at 1 and 3 frames a second, with and without lock and clock, fair | TypeOK; SleepsOnTime; TerminalRestored; OnlyExitKeysLeave; ExitKeyLeaves |
| clock | 3 times of 2 glyphs, 2 terminals, 3 places, 2 scales, 2 looks, 2 keys echoed between two frames | TypeOK; ShowsTime; NoResidue |
| args | 4 words of 16, index of 5 values | TypeOK; LastWins; WordsOnce |
| vtlock_bails | 1 password, 1 session, 1 failing `set_signal`, no other writer | violated: BailsOutUnlocked |
| vtlock_foreground | the same | violated: ForegroundHeld |
| vtlock_invalid | the same, a file that cannot always be opened | violated: InvalidAsSaid |
| screensaver_enter | sleeping after 1 frame, fair | violated: EnterLeaves |

Why the bounds are enough. Passwords are only compared with each other: two
show a right and a wrong one. Two sessions show what one leaves to the next,
and two processes what one does to the other: no call of passwd.c looks at more
than the file. The counter of tries only has to wrap. Capacities 3, 4, 6, 9
grow as 10, 15, 22, 33 do, by half rounded down, over both parities; with 3
columns lines take up to three rows, and with 12 all fits in one. Four keys are
enough to type a wide character, take a byte of it, and edit or end, or to send
an unknown sequence between others. A sleep time of 0 is the boundary, 1 and 3
the two sides of the timer's last step, 3 * 3 is beyond an integer of 3 bits and
wraps to 1, and -1 wraps after 8 frames. The clock of two glyphs is whole on
the wider terminal and clipped at either side on the narrow one; a time differs
from the next in its first glyph, in its last, in both or in none. On the narrow
terminal the first echoed key fills the row of the message and the second is
on the next row, as is a key behind Enter; two Enters and a failing `time()`
scroll it, and what is echoed in one frame may stay for any number of frames.
All digits
of a font have one width, in the model as in the six fonts. Four words contain
every pair about one option, in any order and with any word before or between;
with an index of five values the fourth word is the first that makes it wrap.
For the properties that are proved (section 4) the bounds do not matter.

Deadlock is checked in vtlock_safety, vtlock_progress and clock. In the others a prompt that
has ended, a vtlock that has ended, a clock that was left or a command line
that was parsed is the end.

Fairness. The program is one thread that nothing but a stop signal keeps from
running, so that its steps are strongly fair in VtLock (a process may be
stopped again and again, and runs whenever it is continued) and weakly fair in
Screensaver and AskPasswd. A pending signal is delivered to a process that
keeps running, and a stopped job is continued. UserGetsOut needs a user:
strongly fair in pressing Control-C or an exit key, in typing the right password
again, and in finding the file open. The clock key alone is not enough where
the terminal is without a clock, which is why Control-C counts. No run assumes
that the user presses anything, or that the terminal hangs up, in Screensaver or
AskPasswd: PromptEnds says what follows when it does.

## 4. Proofs

Every safety property that a passing run checks, invariant, action property or
refinement, is also a theorem, for every value of the constants that satisfies
the named assumptions:

* VtLock, PasswordFile: a password is not NoPassword, empty bytes are neither a
  salt nor a hash, the writer of the first file is none of the processes, the
  modulus is positive.
* PasswdBuffer, PromptLine: a capacity of at least two bytes, special cells
  that are no characters, at least two columns of terminal and of prompt.
* Screensaver: a positive largest integer, sleep times of at least -1 and rates
  of at least 1, as `toint_min` lets them through.
* Args: an index of at least two values.
* AskPasswd: the above for its buffer; characters are bytes of its table; no
  key of the user is called "none" or "esc", which mean part of a key and the
  byte of Escape alone. Its keys are those of the table, in any number.
* ClockRedraw: places and scales as the command line gives them (at least 0;
  from 1 to 255), a prompt narrower than the terminal, any number of echoed
  keys, a font of non-empty
  glyphs, and times that are equally long with glyphs of equal size at each
  place, as `"%02d:%02d:%02d"` prints them with the six fonts.

The bounds of the runs (`MaxKeys`, `MaxWords`, `MaxInput`, `MaxSize`) are
constants of the theorems like the others: any number of keys, words and
bytes.

**VtLock.** `TypeOK`, `ConsoleHeld`, `HandlersArmed`, `ModeRestored` and
`ConfirmedPasswordWorks` are not inductive by themselves. `IInv` adds what the
program knows without a variable for it: which pass over `lock_console_switch`
it is in (FlowInv), that an answer in use is a password (TypedInv), that
`old_vtm` holds the mode found, also after the second `VT_GETMODE`, because
the probe's unlock restored it (SavedInv), that the handlers are installed
before `VT_SETMODE` (HandlerInv), that `lock_signals` got as far as `i` without
a failure (SignalInv), that the confirmed password is still in the file
(ConfirmInv), and that nothing of a dead process is left in the kernel
(DeadInv). There is one lemma per conjunct, one case per group of actions.
`StaysForeground` follows from it step by step. `Refinement` shows that VtLock
implements LockContract: the only steps that open are `Compare`, on a match, and
`CheckFile`, when there is no usable file; no signal ends the process,
because SignalInv leaves none of the list with its default action.

**PasswdBuffer.** `IInv` adds to the bound `size + 1 < capacity` that the cells
beyond the line hold no typed character (CleanTail): the deletion loops clear
the cell they leave, and a growth copies only the line. NothingLeft follows,
although only the first `size` bytes are wiped. `Refinement` shows for every
edit that the array so changed is the line edited, over growths too.

**PromptLine.** Every step of it is a step of PasswdBuffer or none (PromptStep),
which brings the invariant of the buffer along. The rest is arithmetic: DivNext
says what one more character does to row and column, RedrawRows derives from it
that an insertion misses no row and any other key at most one, ClearRows that
the blanks printed at the end reach the row that `capacity` columns take.

**PasswordFile.** That `WholeFile` holds is easy once it is known what a process
writes (OwnInv: its own salt, and the hash of what was typed under that salt).
`ConfirmedKept` and the refinement need more. FreshInv: the salt of a
`set_passwd` that has not written yet is neither in the file nor in anybody's
memory. TornInv follows from it: a hash that appears in the file after a salt
was read is a hash of another salt, so that a check which reads the salt of one
password and the hash of the next, or of a half-written file, refuses.
KeepInv: from the read of a confirmation that was neither late nor misjudged
until the end of the session, nobody else is in `set_passwd` (Quiet), the file
does not change, and what was read is what it holds. HeapInv gives for each
call what may be allocated before it, besides the `FILE`s that were lost, FlowInv that a locked process sets no
password. In the refinement a check looks at PasswordStore's file in the call
that brings the hash into memory: the first read, when it buffered the whole
file, and otherwise the second, which then finds a wrong one.

**Screensaver.** `SleepsOnTime` relates the timer to `idle`, the quiet frames
that were shown, across arithmetic that wraps. TimerInv says what the timer is
after n frames (Counted): counted down to 0 and stopped there when the sleep
time fits, and from `-fps` down through the wrap when it is -1; between the
start of a frame and its end the timer is one ahead of `idle` (Ticks). The
sums that wrap are brought back to sums of integers by ModUnique and
WrapRange. ModeInv says which calls run in raw mode and with O_NONBLOCK, and
gives TerminalRestored. `OnlyExitKeysLeave` needs that an Escape among the bytes
read is always followed by a bracket, although a flush may have read half a
sequence: an escape byte that is not followed by one is that of Escape or of a key
with Alt (`ExitKeys`). BytesInv is therefore about what is read *and* what waits together
while the flush goes on, and about each apart otherwise.

**Args.** TakenInv: while the index can reach the end, the words before `i` were
taken in order; when it cannot, the command line is read for ever or refused,
and nothing is run. MeansInv is LastWins for the words before `i`
(Meant), with `--no-clock` apart (NoClock), so that each action has to show only
what one more word changes (SaidNext).

**AskPasswd.** The invariant of PasswdBuffer and the proofs about its actions
are taken over by INSTANCE (BufferStep). QueueOK says that the bytes that wait are
those of whole keys, save the first, of which some may have been read, and
DecoderInv gives for every state of the decoder how much of which key that is:
the path of each escape sequence through the nested switches is a table (Path)
that KeyPath checks against the bytes. The line in the buffer is the one that is
meant, or that with the first bytes of a wide character (InWide). What an unknown
key with Alt does to the keys after it is in three more: InUnknown says how much
of it the decoder has read, Swallowing what `swallow` means for its place in the
nested switches, and Inside that the first bytes of a key that is being swallowed
have been read and the rest waits. EditsAgree and EndsAgree show that the
editor's operations do to the buffer what Edited says of the key, SequenceGoesOn that a byte inside a sequence only moves the decoder,
KeyEnds that the last byte of a key leaves it between two keys or at the end of
the prompt, or inside the sequence that `swallow` names (SwallowStep, UnknownStep).
StaysInStep follows.

**Strings**, in AskPasswd_proofs. The recursive functions of string.c are
unfolded by induction (below). RefusesBadLines: `string_from_bytes` refuses a
line exactly when it is not well-formed. ReadsBack: on a well-formed line every
function of `Consistent` is computed from where its characters start (Starts):
ForwardIs gives the byte of a character's index, SliceIs and PartsJoin what a
substring and a concatenation are, OrdIs and IterateIs the code points.

**ClockRedraw.** `IInv` is the types, NoResidue, and ShowsTime said cell by cell
(ShowsPicture), both for the cells that no echoed key has touched (Clean).
NewLineIs and CharacterIs say that the terminal leaves the others as they were.
SizeColsIs, SkippedToIs and ColumnsAre show that the loop which measures the
clock, the one which skips unchanged glyphs and the one which draws the others
add up the same columns (Offsets), OffsetsAgree that a changed glyph moves none;
CoversOne that a cell belongs to at most one glyph; DrawnIs what a cell is after
a frame begun at any glyph. FrameCells then says of each cell whether it shows
the new time because it was drawn now or because it was before, of a glyph at
the same place that has not changed.

**Induction.** The library's induction theorems take a predicate as a parameter
and cannot be used. AskPasswd_proofs and ClockRedraw_proofs derive induction
for a *set* of numbers from the library's theorem that `<` is well-founded on the
naturals (LeastElement, Induction), which is enough for the recursive functions
of the models. No module uses RECURSIVE.

Only model-checked: liveness under fairness (SwitchAnswered, UserGetsOut,
PromptEnds, ExitKeyLeaves), which the prover does not do, and the runs that show a
violation.

## 5. Where the program and its texts disagree

* Exit 7 ("Can't block signals. Bailing out without locking.") returns with the
  console in `VT_PROCESS` (`vtlock.c` 422-425). BailsOutUnlocked.
* README: "prevents switching to other virtual terminals". A switch away that
  is requested while the acknowledgement of a switch back is pending is
  completed by it (`console_switch.c` 30-33). ForegroundHeld. The user has to
  switch away before the lock, while the console is not held, come back after
  it, and ask to leave again before SIGUSR2 is handled.
* "Press [Enter] to unlock." is printed with `--no-clock`, where stdin is never
  read (`vtlock.c` 442, 475). EnterLeaves. With a clock, an Enter that falls
  into a flush arrives as 13, which the scan does not know (line 459).
* "Password was set and working but now is invalid." (exit 8) is also what a
  failing `fopen` or `ftell` on a good file leads to (`passwd.c` 11 and 15,
  `vtlock.c` 485-489): the locked terminal opens without a password.
  InvalidAsSaid. LockContract counts such a file as not usable.
* By reading only: `--clock-sleep-time -1` and `--clock-colour 0` are documented
  and rejected (`vtlock.c` 83, 295), the default of `--clock-fps` is 1 (line 260)
  and documented as 10 (line 221), and the comments at `keyboard.c` 191 and 195
  exchange Up and Down.
* The table at `keyboard.c` 117-118 has Alt with a key in 91 .. 96 and with any
  control key. The code ignores the key in 92 .. 96 and with a control of 1 .. 26
  (lines 151-158). Alt with `[` begins a CSI sequence; Alt with Space, Backspace,
  Escape, 0, 28 .. 31 or a non-ASCII letter is taken for an unknown sequence: what
  follows, Enter and Control-C included, is swallowed up to a letter or a tilde
  (lines 25-32), and a terminal that hangs up before that keeps the program
  reading 255 for ever. InStep and PromptEnds say so.

Not contradicted by any text, but worth knowing; the model shows or contains them:

* ConfirmedKept has two exceptions. A vtlock that was in the middle of
  `set_passwd` when another one confirmed its password writes the file
  afterwards, and one that cannot open a good file (`passwd.c` 11) takes it for
  none and asks for a new password: the first one then stays locked with a
  password that is not in the file any more.
* A redraw erases by the length of the new line. Where deleting takes the line
  off the first column of a row, or a key that only moves the cursor finds it
  there, one row of the old line stays on the screen (`keyboard.c` 242-248).
  At the end the blanks may take more rows than `capacity / term_cols + 1`
  clears; LengthHidden therefore speaks of lines whose buffer fits in one row.
* A fixed-place clock on a terminal that was resized is completed only by the
  next full redraw (`clock_cli.c` 198-216).
* Alt with any key but `[` leaves the clock as Escape does: the loop looks only
  for a byte other than 91 behind the 27 (`vtlock.c` 464). OnlyExitKeysLeave
  counts it among the exit keys.
* Keys echoed onto a row below the message, by an Enter and another key or by a
  held key that fills the row, stay there until a full redraw of a clock that
  covers them, a digit drawn over them, or the next `screen_clear`; an Enter on
  the last row scrolls the clock, and a partial redraw does not put it back
  (`clock_cli.c` 216). ShowsTime and NoResidue except these cells (`touched`).
* A sleep time whose frames do not fit an `int32_t` wraps (`vtlock.c` 439), and
  may make the clock sleep at once.
* `chk_passwd` does not close its `FILE` after a short read (`passwd.c` 42-47),
  nor `bytes_from_random` after a good one (`hash.c` 45). LeaksOnlyFiles says that
  these are left allocated, and nothing else.
* `set_passwd` frees the new password without wiping it, unlike `chk_passwd`.
* `string_substring` with a reversed range gives a string without a NUL, and
  `utf8_next` accepts overlong encodings. No caller is affected.
* The flush reads until nothing is left (`keyboard.c` 62): input that never
  pauses keeps it from returning. The bounds on keys exclude it.

## 6. What is not modelled, and why

* Escape sequences whose bytes arrive apart, and a hang-up in the middle of
  one. The console driver queues the bytes of a key together. A user who
  presses Escape is assumed to wait until it is read.
* A key that is echoed in the middle of a frame, between two of its writes, and
  the terminal's own line editing: Backspace blanks a cell that was echoed, Tab
  moves the cursor without writing. A key that is echoed as two characters
  (`^[`) is two of `Echo`, and `perror`'s line is one character of a text.
* ASCII and UTF-32 strings, which no caller uses.
* A failing `malloc`, which the code answers with a write through NULL in some
  places and an empty object in others.
* Terminals of no columns (a division by zero at `keyboard.c` 242) or of one;
  a first column of the clock below 1 (`--clock-col` is at least 0, but centring
  a wider clock gives it) is drawn clipped, as the code does, while the cursor
  movement to a column below 1 is the terminal's and taken as column 1.
* A message "Press [Enter]" wider than the terminal.
* SHA-512: equal hashes mean equal passwords. A random salt never repeats.
* Signals that cannot be caught or are not in the list (SIGKILL, SIGSTOP,
  SIGUSR1 sent by another user process). They would break any lock.
* The DEBUG build, which goes on after a failed lock (line 418).
* A console driven by another program in `VT_PROCESS`: it is modelled as found
  and restored, but vtlock restores only its mode, not its owner.
* The usage text, `keyboard_stdin_empty` (no caller), printing of bytes, and
  the Makefile.

## 7. Plan

Done: 1. ConsoleSwitch and VtLock with LockContract, checked and proved.
2. PasswdBuffer with LineEditor, checked and proved. 3. Screensaver, AskPasswd,
Args, checked. 4. PasswordFile with PasswordStore, PromptLine, Strings,
ClockRedraw, hang-ups in AskPasswd and the wrapping timer of Screensaver,
checked. 5. PasswordFile and PromptLine, proved.
6. Screensaver, Args, AskPasswd with Strings, and ClockRedraw, proved.

Left: no safety property. What could still be added are theorems that go
beyond the runs: that AskPasswd with a terminal (PromptLine) keeps both
promises at once, and an abstract key-by-key prompt that AskPasswd implements.
