------------------------------- MODULE VtLock -------------------------------
(***************************************************************************)
(* vtlock's main program: actual_main of vtlock.c, from the probe of the   *)
(* console to the release of the lock, with the password file operations   *)
(* of passwd.c and the console operations of ConsoleSwitch.  pc names the  *)
(* call the program is about to make.  Around it run the kernel and the    *)
(* user (switch requests), other processes (signals, changes of the        *)
(* password file) and, after the program has ended, its next session.      *)
(***************************************************************************)
EXTENDS ConsoleSwitch, FiniteSets

CONSTANTS
    Passwords,     \* what can be typed at a password prompt
    NoPassword,    \* keyboard_ask_passwd gave no password
    TriesModulus,  \* incorrect_pwds is a uint32_t: 2^32 in the code
    MaxSessions,   \* bound: sessions of vtlock, one after the other
    MaxFailures,   \* bound: set_signal calls of lock_signals that fail
    OthersWrite    \* do other processes change the password file, or run
                   \* the system out of what it takes to open one?

ASSUME PasswordAssumption == NoPassword \notin Passwords
ASSUME TriesAssumption == TriesModulus \in Nat \ {0}
ASSUME SessionsAssumption == MaxSessions \in Nat \ {0}
ASSUME FailuresAssumption == MaxFailures \in Nat
ASSUME OthersWriteAssumption == OthersWrite \in BOOLEAN

VARIABLES
    args,                  \* the command line: lock (no --no-lock), clock
    pc,                    \* the next call of actual_main
    caller,                \* which lock_console_switch() is running
    i,                     \* index of the loop in lock_signals
    ok,                    \* success in lock_signals
    file,                  \* the password file
    readable,              \* would fopen and ftell succeed on it?
    typed,                 \* the last answer of keyboard_ask_passwd
    exit_code,
    incorrect_pwds,
    not_pressed_ctrl_c,    \* static _not_pressed_ctrl_c
    always_pressed_ctrl_c, \* local _always_pressed_ctrl_c
    stopped,               \* stopped by a job-control signal
    sessions,              \* sessions begun
    found,                 \* history: the console's mode when this one began
    confirmed,             \* history: the password confirmed before locking
    touched                \* history: file changed since it was confirmed

flowVars    == <<pc, caller, i, ok>>
fileVars    == <<file, typed>>
resultVars  == <<exit_code, incorrect_pwds>>
flagVars    == <<not_pressed_ctrl_c, always_pressed_ctrl_c>>
sessionVars == <<args, sessions, found, readable>>
confirmVars == <<confirmed, touched>>
vars == <<consoleVars, flowVars, fileVars, resultVars, flagVars, stopped,
          sessionVars, confirmVars>>

(* A file of exactly SALT_SIZE + HASH_SIZE bytes, a longer one (its first  *)
(* bytes can still be read as salt and hash), or no usable file.           *)
Exact(p) == [size |-> "exact", hash |-> p]
Short    == [size |-> "short", hash |-> NoPassword]
Files    == [size : {"exact", "long"}, hash : Passwords] \cup {Short}

StartupPcs == {"getmode", "sig_usr1", "sig_usr2", "setmode"}
FreePcs    == {"find_passwd", "new_passwd", "open_passwd", "write_passwd",
               "recheck", "confirm", "confirm_read"}
ClockPcs   == {"loop", "clock"}
PromptPcs  == {"check_file", "ask", "compare", "again"}
EndPcs     == {"exit", "returned", "killed"}
Pcs        == StartupPcs \cup {"probe_unlock"} \cup FreePcs \cup
              {"block", "catch_int"} \cup ClockPcs \cup PromptPcs \cup
              {"unlock"} \cup EndPcs

Alive == pc \notin {"returned", "killed"}

(* The terminal is locked: from the last set_signal to the unlock.         *)
LockedPcs == {"catch_int"} \cup ClockPcs \cup PromptPcs
Locked == args.lock /\ pc \in LockedPcs

Init ==
    /\ ConsoleInit
    /\ args \in [lock : BOOLEAN, clock : BOOLEAN]
    /\ pc = "getmode" /\ caller = "probe" /\ i = 1 /\ ok = TRUE
    /\ file \in Files /\ typed = NoPassword
    /\ exit_code = 0 /\ incorrect_pwds = 0
    /\ not_pressed_ctrl_c = FALSE          \* static: zeroed
    /\ always_pressed_ctrl_c = FALSE
    /\ stopped = FALSE
    /\ sessions = 1 /\ found = vt_mode /\ readable \in BOOLEAN
    /\ confirmed = NoPassword /\ touched = FALSE

-----------------------------------------------------------------------------
(* The program is scheduled and about to make the call l.                  *)
At(l) == pc = l /\ ~stopped

Goto(l) == pc' = l /\ UNCHANGED <<caller, i, ok>>

(* return <code>; main's cleanup is the step after.                        *)
Return(code) ==
    /\ Goto("exit")
    /\ exit_code' = code
    /\ UNCHANGED incorrect_pwds

(* lock_console_switch, called first as a probe and later for the session. *)
LockFailed == IF caller = "probe" THEN 1 ELSE 6

GetMode ==
    /\ At("getmode")
    /\ \/ SaveMode /\ Goto("sig_usr1") /\ UNCHANGED resultVars
       \/ Return(LockFailed) /\ UNCHANGED old_vtm
    /\ UNCHANGED <<kernelVars, disp, fileVars, flagVars, stopped,
                   sessionVars, confirmVars>>

(* Mutant: the handler of SIGUSR2 is forgotten.                            *)
InstallRelease_only ==
    /\ At("sig_usr1")
    /\ Install("SIGUSR1", "no_vt_switch")
    /\ Goto("setmode")
    /\ UNCHANGED <<kernelVars, old_vtm, fileVars, resultVars, flagVars,
                   stopped, sessionVars, confirmVars>>

InstallRelease ==
    /\ At("sig_usr1")
    /\ Install("SIGUSR1", "no_vt_switch")
    /\ Goto("sig_usr2")
    /\ UNCHANGED <<kernelVars, old_vtm, fileVars, resultVars, flagVars,
                   stopped, sessionVars, confirmVars>>

InstallAcquire ==
    /\ At("sig_usr2")
    /\ Install("SIGUSR2", "ack_vt_switch")
    /\ Goto("setmode")
    /\ UNCHANGED <<kernelVars, old_vtm, fileVars, resultVars, flagVars,
                   stopped, sessionVars, confirmVars>>

(* Mutant: the session goes on although VT_SETMODE failed.                 *)
SetMode_unchecked ==
    /\ At("setmode")
    /\ VT_SETMODE("PROCESS") \/ UNCHANGED vtVars
    /\ Goto(IF caller = "probe" THEN "probe_unlock" ELSE "block")
    /\ UNCHANGED <<foreground, pending, disp, old_vtm, fileVars, resultVars,
                   flagVars, stopped, sessionVars, confirmVars>>

SetMode ==
    /\ At("setmode")
    /\ \/ /\ VT_SETMODE("PROCESS")
          /\ Goto(IF caller = "probe" THEN "probe_unlock" ELSE "block")
          /\ UNCHANGED resultVars
       \/ Return(LockFailed) /\ UNCHANGED vtVars
    /\ UNCHANGED <<foreground, pending, disp, old_vtm, fileVars, flagVars,
                   stopped, sessionVars, confirmVars>>

(* unlock_console_switch after the probe.                                  *)
ProbeUnlock ==
    /\ At("probe_unlock")
    /\ \/ /\ VT_SETMODE(old_vtm)
          /\ Goto(IF args.lock THEN "find_passwd" ELSE "loop")
          /\ UNCHANGED resultVars
       \/ Return(2) /\ UNCHANGED vtVars
    /\ UNCHANGED <<foreground, pending, disp, old_vtm, fileVars, flagVars,
                   stopped, sessionVars, confirmVars>>

-----------------------------------------------------------------------------
(* The password file: chk_passwd_set, set_passwd and chk_passwd.           *)

(* An intact file that cannot be opened, or not be measured, counts as     *)
(* none.                                                                   *)
chk_passwd_set == readable /\ file.size = "exact"

(* chk_passwd reads a salt and a hash, whatever follows them.              *)
Matches(p) == p # NoPassword /\ file.size # "short" /\ file.hash = p

FindPasswd ==
    /\ At("find_passwd")
    /\ Goto(IF chk_passwd_set THEN "confirm" ELSE "new_passwd")
    /\ UNCHANGED <<consoleVars, fileVars, resultVars, flagVars, stopped,
                   sessionVars, confirmVars>>

(* set_passwd: the new password, its salt and its hash.                    *)
NewPasswd ==
    /\ At("new_passwd")
    /\ \/ /\ typed' \in Passwords
          /\ Goto("open_passwd")
          /\ UNCHANGED resultVars
       \/ /\ typed' \in Passwords \cup {NoPassword}   \* none, or no salt
          /\ Return(3)
    /\ UNCHANGED <<consoleVars, file, flagVars, stopped, sessionVars,
                   confirmVars>>

(* fopen(passwd_file, "wb") truncates.                                     *)
OpenPasswd ==
    /\ At("open_passwd")
    /\ \/ file' = Short /\ Goto("write_passwd") /\ UNCHANGED resultVars
       \/ Return(3) /\ UNCHANGED file
    /\ UNCHANGED <<consoleVars, typed, flagVars, stopped, sessionVars,
                   confirmVars>>

(* fwrite and fclose: a failure to write is not noticed here.              *)
WritePasswd ==
    /\ At("write_passwd")
    /\ file' \in {Exact(typed), file}
    /\ Goto("recheck")
    /\ UNCHANGED <<consoleVars, typed, resultVars, flagVars, stopped,
                   sessionVars, confirmVars>>

Recheck ==
    /\ At("recheck")
    /\ \/ chk_passwd_set /\ Goto("confirm") /\ UNCHANGED resultVars
       \/ ~chk_passwd_set /\ Return(4)
    /\ UNCHANGED <<consoleVars, fileVars, flagVars, stopped, sessionVars,
                   confirmVars>>

(* chk_passwd before locking: ask, then read the file.                     *)
Confirm ==
    /\ At("confirm")
    /\ typed' \in Passwords \cup {NoPassword}
    /\ \/ typed' # NoPassword /\ Goto("confirm_read") /\ UNCHANGED resultVars
       \/ typed' = NoPassword /\ Return(5)
    /\ UNCHANGED <<consoleVars, file, flagVars, stopped, sessionVars,
                   confirmVars>>

(* Mutant: the confirmation is read back but not compared.                 *)
ConfirmRead_uncompared ==
    /\ At("confirm_read")
    /\ readable /\ file.size # "short"
    /\ pc' = "getmode" /\ caller' = "session"
    /\ confirmed' = typed /\ touched' = FALSE
    /\ UNCHANGED <<consoleVars, i, ok, fileVars, resultVars, flagVars,
                   stopped, sessionVars>>

ConfirmRead ==
    /\ At("confirm_read")
    /\ \/ /\ readable /\ Matches(typed)
          /\ pc' = "getmode" /\ caller' = "session"
          /\ UNCHANGED <<i, ok, resultVars>>
          /\ confirmed' = typed
          /\ touched' = FALSE
       \/ /\ Return(5)                       \* mismatch, or fopen failed
          /\ UNCHANGED confirmVars
    /\ UNCHANGED <<consoleVars, fileVars, flagVars, stopped, sessionVars>>

-----------------------------------------------------------------------------
(* lock_signals, then the handler of Control-C.                            *)

FailedSoFar == {k \in 1 .. i - 1 : disp[SIGNALS[k]] = "default"}

(* Mutant: success is overwritten, not accumulated.                        *)
BlockSignal_last ==
    /\ At("block")
    /\ i <= Len(SIGNALS)
    /\ \E success \in BOOLEAN :
          /\ success \/ Cardinality(FailedSoFar) < MaxFailures
          /\ set_signal(SIGNALS[i], "ignore", success)
          /\ ok' = success
    /\ i' = i + 1
    /\ UNCHANGED <<kernelVars, old_vtm, pc, caller, fileVars, resultVars,
                   flagVars, stopped, sessionVars, confirmVars>>

BlockSignal ==
    /\ At("block")
    /\ i <= Len(SIGNALS)
    /\ \E success \in BOOLEAN :
          /\ success \/ Cardinality(FailedSoFar) < MaxFailures
          /\ set_signal(SIGNALS[i], "ignore", success)
          /\ ok' = (ok /\ success)
    /\ i' = i + 1
    /\ UNCHANGED <<kernelVars, old_vtm, pc, caller, fileVars, resultVars,
                   flagVars, stopped, sessionVars, confirmVars>>

SignalsBlocked ==
    /\ At("block")
    /\ i > Len(SIGNALS)
    /\ \/ ok /\ Goto("catch_int") /\ UNCHANGED resultVars
       \/ ~ok /\ Return(7)
    /\ UNCHANGED <<consoleVars, fileVars, flagVars, stopped, sessionVars,
                   confirmVars>>

(* Mutant: the failure of set_signal is not remembered.                    *)
CatchInt_forgets ==
    /\ At("catch_int")
    /\ \E success \in BOOLEAN : set_signal("SIGINT", "pressed_ctrl_c", success)
    /\ Goto("loop")
    /\ UNCHANGED <<kernelVars, old_vtm, fileVars, resultVars, flagVars,
                   stopped, sessionVars, confirmVars>>

CatchInt ==
    /\ At("catch_int")
    /\ \E success \in BOOLEAN :
          /\ set_signal("SIGINT", "pressed_ctrl_c", success)
          /\ always_pressed_ctrl_c' = ~success
    /\ Goto("loop")
    /\ UNCHANGED <<kernelVars, old_vtm, fileVars, resultVars,
                   not_pressed_ctrl_c, stopped, sessionVars, confirmVars>>

-----------------------------------------------------------------------------
(* The read loop.                                                          *)

BeginLoop ==
    /\ At("loop")
    /\ not_pressed_ctrl_c' = TRUE
    /\ Goto("clock")
    /\ UNCHANGED <<consoleVars, fileVars, resultVars, always_pressed_ctrl_c,
                   stopped, sessionVars, confirmVars>>

ClockRuns == not_pressed_ctrl_c /\ ~always_pressed_ctrl_c

(* One turn of the inner loop in which an exit key is read.  A turn that   *)
(* reads none changes nothing here; Screensaver models both.               *)
ExitKey ==
    /\ At("clock")
    /\ ClockRuns
    /\ args.clock
    /\ not_pressed_ctrl_c' = FALSE
    /\ UNCHANGED <<consoleVars, flowVars, fileVars, resultVars,
                   always_pressed_ctrl_c, stopped, sessionVars, confirmVars>>

LeaveClock ==
    /\ At("clock")
    /\ ~ClockRuns
    /\ \/ args.lock /\ Goto("check_file") /\ UNCHANGED resultVars
       \/ ~args.lock /\ Return(exit_code)
    /\ UNCHANGED <<consoleVars, fileVars, flagVars, stopped, sessionVars,
                   confirmVars>>

(* Mutant: exit 8 returns at once instead of leaving the loop.             *)
CheckFile_returns ==
    /\ At("check_file")
    /\ \/ chk_passwd_set /\ Goto("ask") /\ UNCHANGED resultVars
       \/ ~chk_passwd_set /\ Return(8)
    /\ UNCHANGED <<consoleVars, fileVars, flagVars, stopped, sessionVars,
                   confirmVars>>

CheckFile ==
    /\ At("check_file")
    /\ \/ /\ chk_passwd_set
          /\ Goto("ask")
          /\ UNCHANGED resultVars
       \/ /\ ~chk_passwd_set
          /\ Goto("unlock")
          /\ exit_code' = 8
          /\ UNCHANGED incorrect_pwds
    /\ UNCHANGED <<consoleVars, fileVars, flagVars, stopped, sessionVars,
                   confirmVars>>

(* Mutant: the counter is wider than its type.                             *)
WrongPassword_unwrapped ==
    /\ Goto("again")
    /\ incorrect_pwds' = incorrect_pwds + 1
    /\ UNCHANGED exit_code

WrongPassword ==
    /\ Goto("again")
    /\ incorrect_pwds' = (incorrect_pwds + 1) % TriesModulus
    /\ UNCHANGED exit_code

(* chk_passwd: ask ...                                                     *)
Ask ==
    /\ At("ask")
    /\ typed' \in Passwords \cup {NoPassword}
    /\ \/ typed' # NoPassword /\ Goto("compare") /\ UNCHANGED resultVars
       \/ typed' = NoPassword /\ WrongPassword
    /\ UNCHANGED <<consoleVars, file, flagVars, stopped, sessionVars,
                   confirmVars>>

(* ... then read the file, which may not open, and compare.                *)
Compare ==
    /\ At("compare")
    /\ \/ readable /\ Matches(typed) /\ Goto("unlock") /\ UNCHANGED resultVars
       \/ WrongPassword
    /\ UNCHANGED <<consoleVars, fileVars, flagVars, stopped, sessionVars,
                   confirmVars>>

(* keyboard_wait_for_keypress returns on Enter.                            *)
Again ==
    /\ At("again")
    /\ Goto("loop")
    /\ UNCHANGED <<consoleVars, fileVars, resultVars, flagVars, stopped,
                   sessionVars, confirmVars>>

Unlock ==
    /\ At("unlock")
    /\ \/ VT_SETMODE(old_vtm) /\ Return(exit_code)
       \/ UNCHANGED vtVars /\ Return(9)
    /\ UNCHANGED <<foreground, pending, disp, old_vtm, fileVars, flagVars,
                   stopped, sessionVars, confirmVars>>

(* The process ends; the kernel drops its signals and its ownership.       *)
Exit ==
    /\ At("exit")
    /\ Orphan
    /\ Goto("returned")
    /\ UNCHANGED <<fileVars, resultVars, flagVars,
                   stopped, sessionVars, confirmVars>>

-----------------------------------------------------------------------------
(* Signals, other processes, the next session.                             *)

HandleSwitch ==
    /\ Alive /\ ~stopped
    /\ \E sig \in SwitchSignal : HandleSwitchSignal(sig)
    /\ UNCHANGED <<disp, old_vtm, flowVars, fileVars, resultVars, flagVars,
                   stopped, sessionVars, confirmVars>>

(* A job-control signal in its default disposition stops the process.      *)
Stop ==
    /\ Alive /\ ~stopped
    /\ \E sig \in StopSignals : disp[sig] = "default"
    /\ stopped' = TRUE
    /\ UNCHANGED <<consoleVars, flowVars, fileVars, resultVars, flagVars,
                   sessionVars, confirmVars>>

Continue ==
    /\ stopped
    /\ stopped' = FALSE
    /\ UNCHANGED <<consoleVars, flowVars, fileVars, resultVars, flagVars,
                   sessionVars, confirmVars>>

(* Any other signal of the list but SIGCHLD, in its default disposition,   *)
(* terminates it.                                                          *)
Terminate ==
    /\ Alive /\ ~stopped
    /\ \E sig \in Blockable \ (StopSignals \cup {"SIGCHLD"}) :
          disp[sig] = "default"
    /\ Orphan
    /\ Goto("killed")
    /\ UNCHANGED <<fileVars, resultVars, flagVars,
                   stopped, sessionVars, confirmVars>>

(* _pressed_ctrl_c, the handler of SIGINT.                                 *)
PressedCtrlC ==
    /\ Alive /\ ~stopped
    /\ disp["SIGINT"] = "pressed_ctrl_c"
    /\ not_pressed_ctrl_c' = FALSE
    /\ UNCHANGED <<consoleVars, flowVars, fileVars, resultVars,
                   always_pressed_ctrl_c, stopped, sessionVars, confirmVars>>

(* Another process replaces, damages or removes the password file.         *)
OtherWrites ==
    /\ OthersWrite
    /\ file' \in Files \ {file}
    /\ touched' = TRUE
    /\ UNCHANGED <<consoleVars, flowVars, typed, resultVars, flagVars,
                   stopped, sessionVars, confirmed>>

(* fopen or ftell begins, or ceases, to fail on the file as it is: open    *)
(* files of the process or the system exhausted, access withdrawn, an      *)
(* error of the device.                                                    *)
AccessChanges ==
    /\ OthersWrite
    /\ readable' = ~readable
    /\ UNCHANGED <<consoleVars, flowVars, fileVars, resultVars, flagVars,
                   stopped, args, sessions, found, confirmVars>>

SwitchConsole ==
    /\ Kernel
    /\ UNCHANGED <<disp, old_vtm, flowVars, fileVars, resultVars, flagVars,
                   stopped, sessionVars, confirmVars>>

(* vtlock is run again on the same terminal, with the same password file.  *)
Restart ==
    /\ ~Alive
    /\ sessions < MaxSessions
    /\ sessions' = sessions + 1
    /\ found' = vt_mode
    /\ args' \in [lock : BOOLEAN, clock : BOOLEAN]
    /\ pc' = "getmode" /\ caller' = "probe" /\ i' = 1 /\ ok' = TRUE
    /\ typed' = NoPassword
    /\ exit_code' = 0 /\ incorrect_pwds' = 0
    /\ not_pressed_ctrl_c' = FALSE /\ always_pressed_ctrl_c' = FALSE
    /\ confirmed' = NoPassword /\ touched' = FALSE
    /\ UNCHANGED <<consoleVars, file, readable, stopped>>

LockSteps     == GetMode \/ InstallRelease \/ InstallAcquire \/ SetMode
                 \/ ProbeUnlock
PasswordSteps == FindPasswd \/ NewPasswd \/ OpenPasswd \/ WritePasswd
                 \/ Recheck \/ Confirm \/ ConfirmRead
SignalSteps   == BlockSignal \/ SignalsBlocked \/ CatchInt
LoopSteps     == BeginLoop \/ LeaveClock \/ CheckFile \/ Ask \/ Compare
                 \/ Again \/ Unlock \/ Exit
Program       == LockSteps \/ PasswordSteps \/ SignalSteps \/ LoopSteps

Environment   == ExitKey \/ HandleSwitch \/ Stop \/ Continue \/ Terminate
                 \/ PressedCtrlC \/ OtherWrites \/ AccessChanges
                 \/ SwitchConsole \/ Restart

Next == Program \/ Environment

Spec == Init /\ [][Next]_vars

-----------------------------------------------------------------------------
(* Type invariant.                                                         *)
TypeOK ==
    /\ ConsoleTypeOK
    /\ args \in [lock : BOOLEAN, clock : BOOLEAN]
    /\ pc \in Pcs
    /\ caller \in {"probe", "session"}
    /\ i \in 1 .. Len(SIGNALS) + 1
    /\ ok \in BOOLEAN
    /\ file \in Files
    /\ readable \in BOOLEAN
    /\ typed \in Passwords \cup {NoPassword}
    /\ exit_code \in 0 .. 9
    /\ incorrect_pwds \in 0 .. TriesModulus - 1
    /\ not_pressed_ctrl_c \in BOOLEAN
    /\ always_pressed_ctrl_c \in BOOLEAN
    /\ stopped \in BOOLEAN
    /\ sessions \in 1 .. MaxSessions
    /\ found \in Modes
    /\ confirmed \in Passwords \cup {NoPassword}
    /\ touched \in BOOLEAN

(* From the second VT_SETMODE to the unlock the kernel asks this process   *)
(* before it switches consoles, whatever switches, signals and failures    *)
(* came before (actual_main checks every lock_console_switch).             *)
ConsoleHeld ==
    args.lock /\ pc \in {"block", "unlock"} \cup LockedPcs
      => vt_mode = "PROCESS" /\ vt_pid = "vtlock"

(* Whenever the kernel may ask, or has asked, vtlock about a switch, both  *)
(* handlers are in place: lock_console_switch installs them before         *)
(* VT_SETMODE, so no SIGUSR1 or SIGUSR2 ever finds its default action.     *)
HandlersArmed ==
    Alive /\ (vt_pid = "vtlock" \/ pending # {})
      => /\ disp["SIGUSR1"] = "no_vt_switch"
         /\ disp["SIGUSR2"] = "ack_vt_switch"

(* The program is not in the course of a locked session.                   *)
Freed == \/ pc \in StartupPcs \cup FreePcs
         \/ ~args.lock /\ pc \in ClockPcs
         \/ pc \in {"exit", "returned"} /\ exit_code \notin {2, 7, 9}

(* A console found in VT_AUTO is in VT_AUTO again while passwords are set  *)
(* up, while only the screensaver shows, and at every exit that does not   *)
(* announce that unlocking failed (2, 9) or that signals could not be      *)
(* blocked (7, see BailsOutUnlocked).                                      *)
ModeRestored == found = "AUTO" /\ Freed => vt_mode = "AUTO"

(* "To stop you from locking yourself out": while the terminal is locked   *)
(* and nobody else has touched the file, it still holds the password the   *)
(* user confirmed before the lock.                                         *)
ConfirmedPasswordWorks ==
    Locked /\ ~touched => Matches(confirmed)

(* A step of a locked vtlock never lets the console leave the screen,      *)
(* unless the acknowledgement of an earlier switch back is still pending   *)
(* (see ForegroundHeld).                                                   *)
StaysForeground ==
    [][Locked /\ foreground /\ "SIGUSR2" \notin pending => foreground']_vars

(* The terminal counts as locked from the end of lock_signals to the       *)
(* answer that opens it.                                                   *)
Contract == INSTANCE LockContract WITH
    status <- IF Locked THEN "locked" ELSE "open",
    stored <- [usable |-> chk_passwd_set, secret |-> file.hash],
    answer <- typed

(* The program implements LockContract: whatever signals, failed calls and *)
(* changes of the password file come between, a locked terminal opens only *)
(* for the password in the file, or because at that moment vtlock finds no *)
(* password file: it is gone or damaged, or a call to open or measure it   *)
(* fails on an intact one (chk_passwd_set, vtlock.c 485).                  *)
ImplementsContract == Contract!Spec

-----------------------------------------------------------------------------
(* The inductive invariant behind the safety properties, by topic.         *)

(* Which pass over lock_console_switch, and under which arguments, each    *)
(* part of the program belongs to.                                         *)
SecondPass == {"block", "catch_int", "unlock"} \cup PromptPcs

FlowInv ==
    /\ pc \in FreePcs \cup {"probe_unlock"} => caller = "probe"
    /\ pc \in SecondPass => caller = "session"
    /\ pc \in ClockPcs => (caller = "session" <=> args.lock)
    /\ pc \in FreePcs \/ caller = "session" => args.lock
    /\ pc \in StartupPcs \cup {"probe_unlock"} \cup FreePcs => i = 1

(* Answers in use are passwords.                                           *)
TypedInv ==
    /\ pc \in {"open_passwd", "write_passwd", "confirm_read", "compare"}
         => typed # NoPassword
    /\ caller = "session" /\ pc \in StartupPcs \cup {"block"}
         => typed # NoPassword

(* old_vtm holds the mode the console was found in.                        *)
SavedInv ==
    found = "AUTO" /\ pc \notin {"getmode"} \cup EndPcs => old_vtm = "AUTO"

(* The handlers are in place before VT_SETMODE and stay.                   *)
HandlerInv ==
    /\ pc = "sig_usr2" => disp["SIGUSR1"] = "no_vt_switch"
    /\ pc \notin {"getmode", "sig_usr1", "sig_usr2"} \cup EndPcs
         => /\ disp["SIGUSR1"] = "no_vt_switch"
            /\ disp["SIGUSR2"] = "ack_vt_switch"

(* lock_signals got as far as i without a failure, or all the way.         *)
SignalInv ==
    /\ pc = "block" /\ ok => \A k \in 1 .. i - 1 : disp[SIGNALS[k]] = "ignore"
    /\ Locked => \A s \in Blockable : disp[s] \in {"ignore", "pressed_ctrl_c"}

(* The confirmed password matches the file from the confirmation on.       *)
ConfirmInv ==
    caller = "session" /\ pc \notin EndPcs /\ ~touched => Matches(confirmed)

(* Nothing of a dead process is left in the kernel.                        *)
DeadInv ==
    ~Alive => vt_pid # "vtlock" /\ pending = {} /\ ~stopped

IInv == /\ TypeOK
        /\ FlowInv
        /\ TypedInv
        /\ SavedInv
        /\ HandlerInv
        /\ SignalInv
        /\ ConfirmInv
        /\ DeadInv
        /\ ConsoleHeld
        /\ HandlersArmed
        /\ ModeRestored

-----------------------------------------------------------------------------
(* Fairness.  The program keeps running unless it is stopped; a stopped    *)
(* job is continued; the kernel delivers a pending signal to a process     *)
(* that keeps being scheduled.                                             *)
SystemFairness ==
    /\ SF_vars(Program)
    /\ SF_vars(HandleSwitch)
    /\ WF_vars(Continue)

(* The user: presses Control-C or an exit key at the clock, and does not   *)
(* give up before typing the right password into a file that opens.        *)
UserFairness ==
    /\ SF_vars(ExitKey \/ (PressedCtrlC /\ pc = "clock"))
    /\ SF_vars(Ask /\ typed' = file.hash)
    /\ SF_vars(Compare /\ pc' = "unlock")

FairSpec == Spec /\ SystemFairness /\ UserFairness

(* A request to switch away is answered, even one that arrives between the *)
(* probe and the lock or while the process is being stopped and continued, *)
(* unless the process ends first.                                          *)
SwitchAnswered == vt_newvt ~> (~vt_newvt \/ ~Alive)

(* A user who knows the password gets out of a locked terminal, also when  *)
(* SIGINT could not be caught (_always_pressed_ctrl_c).                    *)
UserGetsOut == Locked ~> pc = "returned"

-----------------------------------------------------------------------------
(* What the program's messages and README say.                             *)

(* "Bailing out without locking." (exits 1 and 3 to 7): a console found in *)
(* VT_AUTO is not left under this process's control.                       *)
BailsOutUnlocked ==
    found = "AUTO" /\ pc = "exit" /\ exit_code \in {1, 3, 4, 5, 6, 7}
      => vt_mode = "AUTO"

(* "Password was set and working but now is invalid." (exit 8): the file   *)
(* that opens the terminal this way is not a good one.                     *)
InvalidAsSaid ==
    [][exit_code # 8 /\ exit_code' = 8 => file.size # "exact"]_vars

(* README: "Locks the current TTY and prevents switching to other virtual  *)
(* terminals": no step of a locked vtlock takes the console away.          *)
ForegroundHeld == [][Locked /\ foreground => foreground']_vars
=============================================================================
