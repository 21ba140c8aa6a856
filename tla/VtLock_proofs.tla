--------------------------- MODULE VtLock_proofs ---------------------------
(***************************************************************************)
(* Proofs about VtLock, for every set of passwords, any number of sessions *)
(* and of failing calls, and with or without other writers of the file.    *)
(***************************************************************************)
EXTENDS VtLock, TLAPS

(* What the proofs need of the array SIGNALS (console_switch.c).           *)
LEMMA SignalFacts ==
    /\ Len(SIGNALS) \in Nat
    /\ \A k \in 1 .. Len(SIGNALS) : SIGNALS[k] \in Blockable
    /\ \A s \in Blockable : \E k \in 1 .. Len(SIGNALS) : s = SIGNALS[k]
    /\ "SIGINT" \in Blockable
    /\ StopSignals \subseteq Blockable
    /\ "SIGUSR1" \notin Blockable /\ "SIGUSR2" \notin Blockable
<1>1. Len(SIGNALS) = 10 /\ DOMAIN SIGNALS = 1 .. 10
  BY DEF SIGNALS
<1>2. Blockable = {SIGNALS[k] : k \in 1 .. 10}
  BY <1>1 DEF Blockable
<1>3. \A k \in 1 .. 10 :
         SIGNALS[k] \in {"SIGTSTP", "SIGTTIN", "SIGTTOU", "SIGINT", "SIGQUIT",
                         "SIGTERM", "SIGHUP", "SIGPIPE", "SIGALRM", "SIGCHLD"}
  BY DEF SIGNALS
<1>4. "SIGUSR1" \notin Blockable /\ "SIGUSR2" \notin Blockable
  BY <1>2, <1>3
<1>5. SIGNALS[1] = "SIGTSTP" /\ SIGNALS[2] = "SIGTTIN"
      /\ SIGNALS[3] = "SIGTTOU" /\ SIGNALS[4] = "SIGINT"
  BY DEF SIGNALS
<1>6. "SIGINT" \in Blockable /\ StopSignals \subseteq Blockable
  BY <1>2, <1>5 DEF StopSignals
<1> QED
  BY <1>1, <1>2, <1>4, <1>6

-----------------------------------------------------------------------------
(* Every step preserves the type invariant. *)
LEMMA TypeStep ==
    ASSUME IInv, [Next]_vars
    PROVE  TypeOK'
<1> USE DEF IInv, TypeOK, ConsoleTypeOK, Pcs, StartupPcs, FreePcs, ClockPcs,
     PromptPcs, EndPcs, Dispositions, Modes, At, Goto, vtVars, consoleVars,
     kernelVars, flowVars, fileVars, resultVars, flagVars, sessionVars,
     confirmVars
<1> USE SignalFacts, TriesAssumption, SessionsAssumption
<1>1. CASE LockSteps
  <2>1. CASE GetMode
    BY <2>1 DEF GetMode, SaveMode, Return, LockFailed
  <2>2. CASE InstallRelease
    BY <2>2 DEF InstallRelease, Install, SwitchSignal
  <2>3. CASE InstallAcquire
    BY <2>3 DEF InstallAcquire, Install, SwitchSignal
  <2>4. CASE SetMode
    <3>1. vt_newvt' \in BOOLEAN
      BY <2>4, Zenon DEF SetMode, VT_SETMODE
    <3> QED
      BY <2>4, <3>1 DEF SetMode, VT_SETMODE, Pids, Return, LockFailed
  <2>5. CASE ProbeUnlock
    <3>1. vt_newvt' \in BOOLEAN
      BY <2>5, Zenon DEF ProbeUnlock, VT_SETMODE
    <3> QED
      BY <2>5, <3>1 DEF ProbeUnlock, VT_SETMODE, Pids, Return
  <2> QED
    BY <1>1, <2>1, <2>2, <2>3, <2>4, <2>5 DEF LockSteps
<1>2. CASE PasswordSteps
  <2>1. CASE FindPasswd
    BY <2>1 DEF FindPasswd
  <2>2. CASE NewPasswd
    BY <2>2 DEF NewPasswd, Return
  <2>3. CASE OpenPasswd
    BY <2>3 DEF OpenPasswd, Return, Short, Files
  <2>4. CASE WritePasswd
    BY <2>4 DEF WritePasswd, Exact, Files, TypedInv
  <2>5. CASE Recheck
    BY <2>5 DEF Recheck, Return
  <2>6. CASE Confirm
    BY <2>6 DEF Confirm, Return
  <2>7. CASE ConfirmRead
    <3>1. touched' \in BOOLEAN
      BY <2>7, Zenon DEF ConfirmRead
    <3> QED
      BY <2>7, <3>1 DEF ConfirmRead, Return
  <2> QED
    BY <1>2, <2>1, <2>2, <2>3, <2>4, <2>5, <2>6, <2>7 DEF PasswordSteps
<1>3. CASE SignalSteps
  <2>1. CASE BlockSignal
    BY <2>1 DEF BlockSignal, set_signal, Install
  <2>2. CASE SignalsBlocked
    BY <2>2 DEF SignalsBlocked, Return
  <2>3. CASE CatchInt
    BY <2>3 DEF CatchInt, set_signal, Install
  <2> QED
    BY <1>3, <2>1, <2>2, <2>3 DEF SignalSteps
<1>4. CASE LoopSteps
  <2>1. CASE BeginLoop
    BY <2>1 DEF BeginLoop
  <2>2. CASE LeaveClock
    BY <2>2 DEF LeaveClock, Return
  <2>3. CASE CheckFile
    BY <2>3 DEF CheckFile
  <2>4. CASE Ask
    BY <2>4 DEF Ask, WrongPassword
  <2>5. CASE Compare
    BY <2>5 DEF Compare, WrongPassword
  <2>6. CASE Again
    BY <2>6 DEF Again
  <2>7. CASE Unlock
    <3>1. vt_newvt' \in BOOLEAN
      BY <2>7, Zenon DEF Unlock, VT_SETMODE
    <3> QED
      BY <2>7, <3>1 DEF Unlock, Return, VT_SETMODE, Pids
  <2>8. CASE Exit
    BY <2>8 DEF Exit, Orphan, Pids, DefaultDispositions
  <2> QED
    BY <1>4, <2>1, <2>2, <2>3, <2>4, <2>5, <2>6, <2>7, <2>8 DEF LoopSteps
<1>5. CASE Environment
  <2>1. CASE ExitKey
    <3>1. not_pressed_ctrl_c' \in BOOLEAN
      BY <2>1, Zenon DEF ExitKey
    <3> QED
      BY <2>1, <3>1 DEF ExitKey
  <2>2. CASE HandleSwitch
    <3>1. vt_newvt' \in BOOLEAN /\ foreground' \in BOOLEAN
      BY <2>2, Zenon DEF HandleSwitch, HandleSwitchSignal, no_vt_switch,
           ack_vt_switch, VT_RELDISP
    <3> QED
      BY <2>2, <3>1 DEF HandleSwitch, HandleSwitchSignal, no_vt_switch,
           ack_vt_switch, VT_RELDISP
  <2>3. CASE Stop
    BY <2>3 DEF Stop
  <2>4. CASE Continue
    <3>1. stopped' \in BOOLEAN
      BY <2>4, Zenon DEF Continue
    <3> QED
      BY <2>4, <3>1 DEF Continue
  <2>5. CASE Terminate
    BY <2>5 DEF Terminate, Orphan, Pids, DefaultDispositions
  <2>6. CASE PressedCtrlC
    <3>1. not_pressed_ctrl_c' \in BOOLEAN
      BY <2>6, Zenon DEF PressedCtrlC
    <3> QED
      BY <2>6, <3>1 DEF PressedCtrlC
  <2>7. CASE OtherWrites
    BY <2>7 DEF OtherWrites
  <2>8. CASE SwitchConsole
    <3>1. vt_newvt' \in BOOLEAN /\ foreground' \in BOOLEAN
      BY <2>8, Zenon DEF SwitchConsole, Kernel, RequestSwitch, SwitchBack,
           ResetVt
    <3>2. vt_mode' \in Modes /\ vt_pid' \in Pids
      BY <2>8 DEF SwitchConsole, Kernel, RequestSwitch, SwitchBack, ResetVt,
           Pids
    <3>3. pending' \subseteq SwitchSignal
      BY <2>8 DEF SwitchConsole, Kernel, RequestSwitch, SwitchBack,
           SwitchSignal
    <3> QED
      BY <2>8, <3>1, <3>2, <3>3 DEF SwitchConsole
  <2>10. CASE AccessChanges
    <3>1. readable' \in BOOLEAN
      BY <2>10, Zenon DEF AccessChanges
    <3> QED
      BY <2>10, <3>1 DEF AccessChanges
  <2>9. CASE Restart
    <3>1. not_pressed_ctrl_c' \in BOOLEAN /\ always_pressed_ctrl_c' \in BOOLEAN
          /\ touched' \in BOOLEAN
      BY <2>9, Zenon DEF Restart
    <3> QED
      BY <2>9, <3>1 DEF Restart
  <2> QED
    BY <1>5, <2>1, <2>2, <2>3, <2>4, <2>5, <2>6, <2>7, <2>8, <2>9,
       <2>10 DEF Environment
<1>6. CASE UNCHANGED vars
  BY <1>6 DEF vars
<1> QED
  BY <1>1, <1>2, <1>3, <1>4, <1>5, <1>6 DEF Next, Program

(* Every step keeps track of the pass and of the arguments. *)
LEMMA FlowStep ==
    ASSUME IInv, [Next]_vars
    PROVE  FlowInv'
<1> USE DEF IInv, FlowInv, SecondPass, StartupPcs, FreePcs, ClockPcs,
     PromptPcs, EndPcs, At, Goto, vtVars, consoleVars, kernelVars, flowVars,
     fileVars, resultVars, flagVars, sessionVars, confirmVars
<1>1. CASE LockSteps
  BY <1>1 DEF LockSteps, GetMode, Return, InstallRelease, InstallAcquire,
       SetMode, TypeOK, ProbeUnlock
<1>2. CASE PasswordSteps
  BY <1>2 DEF PasswordSteps, FindPasswd, NewPasswd, Return, OpenPasswd,
       WritePasswd, Recheck, Confirm, ConfirmRead
<1>3. CASE SignalSteps
  BY <1>3 DEF SignalSteps, BlockSignal, SignalsBlocked, Return, CatchInt
<1>4. CASE LoopSteps
  BY <1>4 DEF LoopSteps, BeginLoop, LeaveClock, Return, CheckFile, Ask,
       WrongPassword, Compare, Again, Unlock, Exit
<1>5. CASE Environment
  BY <1>5 DEF Environment, ExitKey, HandleSwitch, Stop, Continue, Terminate,
       PressedCtrlC, OtherWrites, AccessChanges, SwitchConsole, Restart
<1>6. CASE UNCHANGED vars
  BY <1>6 DEF vars
<1> QED
  BY <1>1, <1>2, <1>3, <1>4, <1>5, <1>6 DEF Next, Program

(* Every step keeps the answer in use a password. *)
LEMMA TypedStep ==
    ASSUME IInv, [Next]_vars
    PROVE  TypedInv'
<1> USE DEF IInv, FlowInv, TypedInv, SecondPass, StartupPcs, FreePcs,
     ClockPcs, PromptPcs, EndPcs, At, Goto, vtVars, consoleVars, kernelVars,
     flowVars, fileVars, resultVars, flagVars, sessionVars, confirmVars
<1> USE PasswordAssumption
<1>1. CASE LockSteps
  BY <1>1 DEF LockSteps, GetMode, Return, InstallRelease, InstallAcquire,
       SetMode, ProbeUnlock
<1>2. CASE PasswordSteps
  BY <1>2 DEF PasswordSteps, FindPasswd, NewPasswd, Return, OpenPasswd,
       WritePasswd, Recheck, Confirm, ConfirmRead
<1>3. CASE SignalSteps
  BY <1>3 DEF SignalSteps, BlockSignal, SignalsBlocked, Return, CatchInt
<1>4. CASE LoopSteps
  BY <1>4 DEF LoopSteps, BeginLoop, LeaveClock, Return, CheckFile, Ask,
       WrongPassword, Compare, Again, Unlock, Exit
<1>5. CASE Environment
  BY <1>5 DEF Environment, ExitKey, HandleSwitch, Stop, Continue, Terminate,
       PressedCtrlC, OtherWrites, AccessChanges, SwitchConsole, Restart
<1>6. CASE UNCHANGED vars
  BY <1>6 DEF vars
<1> QED
  BY <1>1, <1>2, <1>3, <1>4, <1>5, <1>6 DEF Next, Program

(* Every step keeps the saved mode. *)
LEMMA SavedStep ==
    ASSUME IInv, [Next]_vars
    PROVE  SavedInv'
<1> USE DEF IInv, SavedInv, ModeRestored, Freed, StartupPcs, FreePcs,
     ClockPcs, PromptPcs, EndPcs, At, Goto, vtVars, consoleVars, kernelVars,
     flowVars, fileVars, resultVars, flagVars, sessionVars, confirmVars
<1>1. CASE LockSteps
  BY <1>1 DEF LockSteps, GetMode, SaveMode, Return, InstallRelease,
       InstallAcquire, SetMode, ProbeUnlock
<1>2. CASE PasswordSteps
  BY <1>2 DEF PasswordSteps, FindPasswd, NewPasswd, Return, OpenPasswd,
       WritePasswd, Recheck, Confirm, ConfirmRead
<1>3. CASE SignalSteps
  BY <1>3 DEF SignalSteps, BlockSignal, SignalsBlocked, Return, CatchInt
<1>4. CASE LoopSteps
  BY <1>4 DEF LoopSteps, BeginLoop, LeaveClock, Return, CheckFile, Ask,
       WrongPassword, Compare, Again, Unlock, Exit
<1>5. CASE Environment
  BY <1>5 DEF Environment, ExitKey, HandleSwitch, Stop, Continue, Terminate,
       PressedCtrlC, OtherWrites, AccessChanges, SwitchConsole, Restart
<1>6. CASE UNCHANGED vars
  BY <1>6 DEF vars
<1> QED
  BY <1>1, <1>2, <1>3, <1>4, <1>5, <1>6 DEF Next, Program

(* Every step keeps the handlers where they have to be. *)
LEMMA HandlerStep ==
    ASSUME IInv, [Next]_vars
    PROVE  HandlerInv'
<1> USE DEF IInv, TypeOK, ConsoleTypeOK, HandlerInv, HandlersArmed, Alive,
     SwitchSignal, StartupPcs, FreePcs, ClockPcs, PromptPcs, EndPcs, At, Goto,
     vtVars, consoleVars, kernelVars, flowVars, fileVars, resultVars,
     flagVars, sessionVars, confirmVars
<1> USE SignalFacts
<1>1. CASE LockSteps
  BY <1>1 DEF LockSteps, GetMode, Return, InstallRelease, Install,
       InstallAcquire, SetMode, ProbeUnlock
<1>2. CASE PasswordSteps
  BY <1>2 DEF PasswordSteps, FindPasswd, NewPasswd, Return, OpenPasswd,
       WritePasswd, Recheck, Confirm, ConfirmRead
<1>3. CASE SignalSteps
  BY <1>3 DEF SignalSteps, BlockSignal, set_signal, Install, SignalsBlocked,
       Return, CatchInt
<1>4. CASE LoopSteps
  BY <1>4 DEF LoopSteps, BeginLoop, LeaveClock, Return, CheckFile, Ask,
       WrongPassword, Compare, Again, Unlock, Exit, Orphan
<1>5. CASE Environment
  BY <1>5 DEF Environment, ExitKey, HandleSwitch, Stop, Continue, Terminate,
       Orphan, PressedCtrlC, OtherWrites, AccessChanges, SwitchConsole, Restart
<1>6. CASE UNCHANGED vars
  BY <1>6 DEF vars
<1> QED
  BY <1>1, <1>2, <1>3, <1>4, <1>5, <1>6 DEF Next, Program

(* Every step keeps the blocked signals blocked. *)
LEMMA SignalStep ==
    ASSUME IInv, [Next]_vars
    PROVE  SignalInv'
<1> USE DEF IInv, TypeOK, ConsoleTypeOK, SignalInv, FlowInv, Locked,
     LockedPcs, SecondPass, SwitchSignal, StartupPcs, FreePcs, ClockPcs,
     PromptPcs, EndPcs, At, Goto, vtVars, consoleVars, kernelVars, flowVars,
     fileVars, resultVars, flagVars, sessionVars, confirmVars
<1> USE SignalFacts
<1>1. CASE LockSteps
  BY <1>1 DEF LockSteps, GetMode, Return, InstallRelease, Install,
       InstallAcquire, SetMode, ProbeUnlock
<1>2. CASE PasswordSteps
  BY <1>2 DEF PasswordSteps, FindPasswd, NewPasswd, Return, OpenPasswd,
       WritePasswd, Recheck, Confirm, ConfirmRead
<1>3. CASE SignalSteps
  <2>1. CASE BlockSignal
    BY <2>1 DEF BlockSignal, set_signal, Install
  <2>2. CASE SignalsBlocked
    BY <2>2 DEF SignalsBlocked, Return
  <2>3. CASE CatchInt
    BY <2>3 DEF CatchInt, set_signal, Install
  <2> QED
    BY <1>3, <2>1, <2>2, <2>3 DEF SignalSteps
<1>4. CASE LoopSteps
  BY <1>4 DEF LoopSteps, BeginLoop, LeaveClock, Return, CheckFile, Ask,
       WrongPassword, Compare, Again, Unlock, Exit, Orphan
<1>5. CASE Environment
  BY <1>5 DEF Environment, ExitKey, HandleSwitch, Stop, Continue, Terminate,
       Orphan, PressedCtrlC, OtherWrites, AccessChanges, SwitchConsole, Restart
<1>6. CASE UNCHANGED vars
  BY <1>6 DEF vars
<1> QED
  BY <1>1, <1>2, <1>3, <1>4, <1>5, <1>6 DEF Next, Program

(* Every step keeps the confirmed password in the file. *)
LEMMA ConfirmStep ==
    ASSUME IInv, [Next]_vars
    PROVE  ConfirmInv'
<1> USE DEF IInv, TypeOK, ConfirmInv, FlowInv, Matches, SecondPass,
     StartupPcs, FreePcs, ClockPcs, PromptPcs, EndPcs, At, Goto, vtVars,
     consoleVars, kernelVars, flowVars, fileVars, resultVars, flagVars,
     sessionVars, confirmVars
<1>1. CASE LockSteps
  BY <1>1 DEF LockSteps, GetMode, Return, InstallRelease, InstallAcquire,
       SetMode, ProbeUnlock
<1>2. CASE PasswordSteps
  BY <1>2 DEF PasswordSteps, FindPasswd, NewPasswd, Return, OpenPasswd,
       WritePasswd, Recheck, Confirm, ConfirmRead
<1>3. CASE SignalSteps
  BY <1>3 DEF SignalSteps, BlockSignal, SignalsBlocked, Return, CatchInt
<1>4. CASE LoopSteps
  BY <1>4 DEF LoopSteps, BeginLoop, LeaveClock, Return, CheckFile, Ask,
       WrongPassword, Compare, Again, Unlock, Exit
<1>5. CASE Environment
  BY <1>5 DEF Environment, ExitKey, HandleSwitch, Stop, Continue, Terminate,
       PressedCtrlC, OtherWrites, AccessChanges, SwitchConsole, Restart
<1>6. CASE UNCHANGED vars
  BY <1>6 DEF vars
<1> QED
  BY <1>1, <1>2, <1>3, <1>4, <1>5, <1>6 DEF Next, Program

(* Every step that ends the process leaves nothing behind. *)
LEMMA DeadStep ==
    ASSUME IInv, [Next]_vars
    PROVE  DeadInv'
<1> USE DEF IInv, DeadInv, Alive, StartupPcs, FreePcs, ClockPcs, PromptPcs,
     EndPcs, At, Goto, vtVars, consoleVars, kernelVars, flowVars, fileVars,
     resultVars, flagVars, sessionVars, confirmVars
<1>1. CASE LockSteps
  BY <1>1 DEF LockSteps, GetMode, Return, InstallRelease, InstallAcquire,
       SetMode, VT_SETMODE, ProbeUnlock
<1>2. CASE PasswordSteps
  BY <1>2 DEF PasswordSteps, FindPasswd, NewPasswd, Return, OpenPasswd,
       WritePasswd, Recheck, Confirm, ConfirmRead
<1>3. CASE SignalSteps
  BY <1>3 DEF SignalSteps, BlockSignal, SignalsBlocked, Return, CatchInt
<1>4. CASE LoopSteps
  BY <1>4 DEF LoopSteps, BeginLoop, LeaveClock, Return, CheckFile, Ask,
       WrongPassword, Compare, Again, Unlock, VT_SETMODE, Exit, Orphan
<1>5. CASE Environment
  BY <1>5 DEF Environment, ExitKey, HandleSwitch, HandleSwitchSignal,
       no_vt_switch, ack_vt_switch, VT_RELDISP, Stop, Continue, Terminate,
       Orphan, PressedCtrlC, OtherWrites, AccessChanges, SwitchConsole, Kernel,
       RequestSwitch, SwitchBack, ResetVt, Restart
<1>6. CASE UNCHANGED vars
  BY <1>6 DEF vars
<1> QED
  BY <1>1, <1>2, <1>3, <1>4, <1>5, <1>6 DEF Next, Program

(* Every step keeps the console held. *)
LEMMA HeldStep ==
    ASSUME IInv, [Next]_vars
    PROVE  ConsoleHeld'
<1> USE DEF IInv, ConsoleHeld, FlowInv, LockedPcs, SecondPass, SignalInv,
     Locked, StartupPcs, FreePcs, ClockPcs, PromptPcs, EndPcs, At, Goto,
     vtVars, consoleVars, kernelVars, flowVars, fileVars, resultVars,
     flagVars, sessionVars, confirmVars
<1> USE SignalFacts
<1>1. CASE LockSteps
  BY <1>1 DEF LockSteps, GetMode, Return, InstallRelease, InstallAcquire,
       SetMode, VT_SETMODE, ProbeUnlock
<1>2. CASE PasswordSteps
  BY <1>2 DEF PasswordSteps, FindPasswd, NewPasswd, Return, OpenPasswd,
       WritePasswd, Recheck, Confirm, ConfirmRead
<1>3. CASE SignalSteps
  BY <1>3 DEF SignalSteps, BlockSignal, SignalsBlocked, Return, CatchInt
<1>4. CASE LoopSteps
  BY <1>4 DEF LoopSteps, BeginLoop, LeaveClock, Return, CheckFile, Ask,
       WrongPassword, Compare, Again, Unlock, VT_SETMODE, Exit, Orphan
<1>5. CASE Environment
  BY <1>5 DEF Environment, ExitKey, HandleSwitch, HandleSwitchSignal,
       no_vt_switch, ack_vt_switch, VT_RELDISP, Stop, Continue, Terminate,
       Orphan, PressedCtrlC, OtherWrites, AccessChanges, SwitchConsole, Kernel,
       RequestSwitch, SwitchBack, ResetVt, Restart
<1>6. CASE UNCHANGED vars
  BY <1>6 DEF vars
<1> QED
  BY <1>1, <1>2, <1>3, <1>4, <1>5, <1>6 DEF Next, Program

(* Every step keeps the handlers armed. *)
LEMMA ArmedStep ==
    ASSUME IInv, [Next]_vars
    PROVE  HandlersArmed'
<1> USE DEF IInv, TypeOK, ConsoleTypeOK, HandlersArmed, HandlerInv, DeadInv,
     Alive, SwitchSignal, StartupPcs, FreePcs, ClockPcs, PromptPcs, EndPcs,
     At, Goto, vtVars, consoleVars, kernelVars, flowVars, fileVars,
     resultVars, flagVars, sessionVars, confirmVars
<1> USE SignalFacts
<1>1. CASE LockSteps
  BY <1>1 DEF LockSteps, GetMode, Return, InstallRelease, Install,
       InstallAcquire, SetMode, VT_SETMODE, ProbeUnlock
<1>2. CASE PasswordSteps
  BY <1>2 DEF PasswordSteps, FindPasswd, NewPasswd, Return, OpenPasswd,
       WritePasswd, Recheck, Confirm, ConfirmRead
<1>3. CASE SignalSteps
  BY <1>3 DEF SignalSteps, BlockSignal, set_signal, Install, SignalsBlocked,
       Return, CatchInt
<1>4. CASE LoopSteps
  BY <1>4 DEF LoopSteps, BeginLoop, LeaveClock, Return, CheckFile, Ask,
       WrongPassword, Compare, Again, Unlock, VT_SETMODE, Exit, Orphan
<1>5. CASE Environment
  BY <1>5 DEF Environment, ExitKey, HandleSwitch, HandleSwitchSignal,
       no_vt_switch, ack_vt_switch, VT_RELDISP, Stop, Continue, Terminate,
       Orphan, PressedCtrlC, OtherWrites, AccessChanges, SwitchConsole, Kernel,
       RequestSwitch, SwitchBack, ResetVt, Restart
<1>6. CASE UNCHANGED vars
  BY <1>6 DEF vars
<1> QED
  BY <1>1, <1>2, <1>3, <1>4, <1>5, <1>6 DEF Next, Program

(* Every step keeps the mode restored. *)
LEMMA RestoredStep ==
    ASSUME IInv, [Next]_vars
    PROVE  ModeRestored'
<1> USE DEF IInv, TypeOK, ConsoleTypeOK, ModeRestored, Freed, SavedInv,
     FlowInv, SecondPass, StartupPcs, FreePcs, ClockPcs, PromptPcs, EndPcs,
     At, Goto, vtVars, consoleVars, kernelVars, flowVars, fileVars,
     resultVars, flagVars, sessionVars, confirmVars
<1>1. CASE LockSteps
  BY <1>1 DEF LockSteps, GetMode, Return, LockFailed, InstallRelease,
       InstallAcquire, SetMode, VT_SETMODE, ProbeUnlock
<1>2. CASE PasswordSteps
  BY <1>2 DEF PasswordSteps, FindPasswd, NewPasswd, Return, OpenPasswd,
       WritePasswd, Recheck, Confirm, ConfirmRead
<1>3. CASE SignalSteps
  BY <1>3 DEF SignalSteps, BlockSignal, SignalsBlocked, Return, CatchInt
<1>4. CASE LoopSteps
  BY <1>4 DEF LoopSteps, BeginLoop, LeaveClock, Return, CheckFile, Ask,
       WrongPassword, Compare, Again, Unlock, VT_SETMODE, Exit, Orphan
<1>5. CASE Environment
  BY <1>5 DEF Environment, ExitKey, HandleSwitch, HandleSwitchSignal,
       no_vt_switch, ack_vt_switch, VT_RELDISP, Stop, Continue, Terminate,
       Orphan, PressedCtrlC, OtherWrites, AccessChanges, SwitchConsole, Kernel,
       RequestSwitch, SwitchBack, ResetVt, Restart
<1>6. CASE UNCHANGED vars
  BY <1>6 DEF vars
<1> QED
  BY <1>1, <1>2, <1>3, <1>4, <1>5, <1>6 DEF Next, Program

-----------------------------------------------------------------------------
(* The inductive invariant.                                                *)
LEMMA InitInv == Init => IInv
<1> SUFFICES ASSUME Init PROVE IInv
  OBVIOUS
<1> USE DEF Init, ConsoleInit, StartupPcs, FreePcs, ClockPcs, PromptPcs,
            EndPcs
<1>1. TypeOK
  <2>1. /\ vt_newvt \in BOOLEAN
        /\ not_pressed_ctrl_c \in BOOLEAN /\ always_pressed_ctrl_c \in BOOLEAN
        /\ stopped \in BOOLEAN /\ touched \in BOOLEAN
        /\ readable \in BOOLEAN
    BY Zenon
  <2> QED
    BY <2>1, SignalFacts, TriesAssumption, SessionsAssumption
    DEF TypeOK, ConsoleTypeOK, Modes, Pids, Dispositions,
        DefaultDispositions, Pcs
<1>2. FlowInv /\ TypedInv
  BY DEF FlowInv, TypedInv, SecondPass
<1>3. SavedInv /\ HandlerInv /\ SignalInv /\ ConfirmInv /\ DeadInv
  BY DEF SavedInv, HandlerInv, SignalInv, ConfirmInv, DeadInv, Alive, Locked,
         LockedPcs
<1>4. ConsoleHeld /\ HandlersArmed /\ ModeRestored
  BY DEF ConsoleHeld, HandlersArmed, ModeRestored, Freed, LockedPcs
<1> QED
  BY <1>1, <1>2, <1>3, <1>4 DEF IInv

LEMMA StepInv == IInv /\ [Next]_vars => IInv'
<1> SUFFICES ASSUME IInv, [Next]_vars PROVE IInv'
  OBVIOUS
<1> QED
  BY TypeStep, FlowStep, TypedStep, SavedStep, HandlerStep, SignalStep,
     ConfirmStep, DeadStep, HeldStep, ArmedStep, RestoredStep DEF IInv

(* Every reachable state of the program satisfies the inductive invariant. *)
THEOREM Invariance == Spec => []IInv
  BY InitInv, StepInv, PTL DEF Spec

(* Every variable keeps its type.                                          *)
THEOREM TypeCorrect == Spec => []TypeOK
<1>1. IInv => TypeOK
  BY DEF IInv
<1> QED
  BY <1>1, Invariance, PTL

(* A locked terminal is held: the kernel asks this process before it       *)
(* switches consoles (lock_console_switch, actual_main).                   *)
THEOREM Holds == Spec => []ConsoleHeld
<1>1. IInv => ConsoleHeld
  BY DEF IInv
<1> QED
  BY <1>1, Invariance, PTL

(* No switch signal ever finds vtlock without its handlers.                *)
THEOREM Armed == Spec => []HandlersArmed
<1>1. IInv => HandlersArmed
  BY DEF IInv
<1> QED
  BY <1>1, Invariance, PTL

(* A console found in VT_AUTO is back in VT_AUTO whenever it should be.    *)
THEOREM Restores == Spec => []ModeRestored
<1>1. IInv => ModeRestored
  BY DEF IInv
<1> QED
  BY <1>1, Invariance, PTL

(* The password confirmed before locking is the one that unlocks.          *)
THEOREM ConfirmationHolds == Spec => []ConfirmedPasswordWorks
<1>1. IInv => ConfirmedPasswordWorks
  <2> SUFFICES ASSUME IInv, Locked, ~touched PROVE Matches(confirmed)
    BY DEF ConfirmedPasswordWorks
  <2>1. caller = "session"
    BY DEF IInv, FlowInv, Locked, LockedPcs, SecondPass
  <2>2. pc \notin EndPcs
    BY DEF Locked, LockedPcs, ClockPcs, PromptPcs, EndPcs
  <2> QED
    BY <2>1, <2>2 DEF IInv, ConfirmInv
<1> QED
  BY <1>1, Invariance, PTL

-----------------------------------------------------------------------------
(* A locked console leaves the screen in no step, unless a switch back is  *)
(* still to be acknowledged.                                               *)
LEMMA StaysStep ==
    ASSUME IInv, [Next]_vars, Locked, foreground, "SIGUSR2" \notin pending
    PROVE  foreground'
<1>1. CASE Program
  <2>1. CASE LockSteps
    BY <2>1 DEF LockSteps, GetMode, InstallRelease, InstallAcquire, SetMode,
                ProbeUnlock, kernelVars
  <2>2. CASE PasswordSteps
    BY <2>2 DEF PasswordSteps, FindPasswd, NewPasswd, OpenPasswd, WritePasswd,
                Recheck, Confirm, ConfirmRead, consoleVars, kernelVars
  <2>3. CASE SignalSteps
    BY <2>3 DEF SignalSteps, BlockSignal, SignalsBlocked, CatchInt,
                consoleVars, kernelVars
  <2>4. CASE LoopSteps
    BY <2>4 DEF LoopSteps, BeginLoop, LeaveClock, CheckFile, Ask, Compare,
                Again, Unlock, Exit, Orphan, consoleVars, kernelVars
  <2> QED
    BY <1>1, <2>1, <2>2, <2>3, <2>4 DEF Program
<1>2. CASE HandleSwitch
  (* Only SIGUSR1 can be pending, and its handler refuses.                 *)
  <2>1. PICK sig \in SwitchSignal : HandleSwitchSignal(sig)
    BY <1>2 DEF HandleSwitch
  <2>2. sig = "SIGUSR1"
    BY <2>1 DEF HandleSwitchSignal, SwitchSignal
  <2>3. disp[sig] = "no_vt_switch"
    BY <1>2, <2>1, <2>2 DEF IInv, HandlersArmed, HandleSwitch,
                            HandleSwitchSignal
  <2> QED
    BY <2>1, <2>3 DEF HandleSwitchSignal, no_vt_switch, VT_RELDISP
<1>3. CASE SwitchConsole
  (* The console is held, so that a request only asks.                     *)
  <2>1. vt_mode = "PROCESS" /\ vt_pid = "vtlock"
    BY DEF IInv, ConsoleHeld, Locked
  <2> QED
    BY <1>3, <2>1 DEF SwitchConsole, Kernel, RequestSwitch, SwitchBack
<1>4. CASE ExitKey \/ Stop \/ Continue \/ Terminate \/ PressedCtrlC
           \/ OtherWrites \/ AccessChanges \/ Restart
  BY <1>4 DEF ExitKey, Stop, Continue, Terminate, PressedCtrlC, OtherWrites,
              AccessChanges, Restart, Orphan, consoleVars, kernelVars
<1>5. CASE UNCHANGED vars
  BY <1>5 DEF vars, consoleVars, kernelVars
<1> QED
  BY <1>1, <1>2, <1>3, <1>4, <1>5 DEF Next, Environment

(* No step of a locked vtlock lets the console leave the screen, but one   *)
(* that answers while an acknowledgement is pending.                       *)
THEOREM Stays == Spec => StaysForeground
<1>1. IInv /\ [Next]_vars
        => [Locked /\ foreground /\ "SIGUSR2" \notin pending
              => foreground']_vars
  BY StaysStep
<1> QED
  BY <1>1, Invariance, PTL DEF Spec, StaysForeground

-----------------------------------------------------------------------------
(* Refinement: every step of the program is a step of LockContract, or     *)
(* changes nothing of it.                                                  *)

LEMMA ContractInit == Init => Contract!Init
<1> SUFFICES ASSUME Init PROVE Contract!Init
  OBVIOUS
<1>1. ~Locked
  BY DEF Init, Locked, LockedPcs, ClockPcs, PromptPcs
<1>2. [usable |-> chk_passwd_set, secret |-> file.hash] \in Contract!Stores
  BY DEF Init, Files, Short, chk_passwd_set, Contract!Stores, Contract!Answers
<1>3. typed \in Contract!Answers
  BY DEF Init, Contract!Answers
<1> QED
  BY <1>1, <1>2, <1>3 DEF Contract!Init

(* A step that changes neither the password file, nor the answer, nor      *)
(* whether the terminal is locked is a stuttering step of the contract.    *)
LEMMA ContractStutter ==
    ASSUME Locked' <=> Locked, UNCHANGED <<file, readable, typed>>
    PROVE  UNCHANGED Contract!contractVars
<1>1. UNCHANGED [usable |-> chk_passwd_set, secret |-> file.hash]
  BY DEF chk_passwd_set
<1>2. UNCHANGED (IF Locked THEN "locked" ELSE "open")
  OBVIOUS
<1> QED
  BY <1>1, <1>2 DEF Contract!contractVars

(* One that only takes an answer.                                          *)
LEMMA ContractAnswer ==
    ASSUME Locked' <=> Locked, UNCHANGED <<file, readable>>,
           typed' \in Passwords \cup {NoPassword}
    PROVE  Contract!Answer
<1>1. UNCHANGED [usable |-> chk_passwd_set, secret |-> file.hash]
  BY DEF chk_passwd_set
<1>2. UNCHANGED (IF Locked THEN "locked" ELSE "open")
  OBVIOUS
<1> QED
  BY <1>1, <1>2 DEF Contract!Answer, Contract!Answers

(* One that only rewrites the file, or makes it readable or not.           *)
LEMMA ContractRewrite ==
    ASSUME Locked' <=> Locked, UNCHANGED typed, file' \in Files,
           readable' \in BOOLEAN
    PROVE  Contract!Rewrite
<1>1. [usable |-> chk_passwd_set, secret |-> file.hash]' \in Contract!Stores
  BY DEF Files, Short, chk_passwd_set, Contract!Stores, Contract!Answers
<1>2. UNCHANGED (IF Locked THEN "locked" ELSE "open")
  OBVIOUS
<1> QED
  BY <1>1, <1>2 DEF Contract!Rewrite

LEMMA ContractStep ==
    ASSUME IInv, TypeOK', [Next]_vars
    PROVE  [Contract!Next]_(Contract!contractVars)
<1> USE DEF Locked, LockedPcs, StartupPcs, FreePcs, ClockPcs, PromptPcs,
            EndPcs, At, Goto, sessionVars, fileVars
<1>1. CASE LockSteps
  <2>1. (Locked' <=> Locked) /\ UNCHANGED <<file, readable, typed>>
    BY <1>1 DEF LockSteps, GetMode, InstallRelease, InstallAcquire, SetMode,
                ProbeUnlock, Return, IInv, FlowInv
  <2> QED
    BY <2>1, ContractStutter
<1>2. CASE PasswordSteps
  <2>1. Locked' <=> Locked
    BY <1>2 DEF PasswordSteps, FindPasswd, NewPasswd, OpenPasswd,
                WritePasswd, Recheck, Confirm, ConfirmRead, Return
  <2>2. CASE FindPasswd \/ Recheck \/ ConfirmRead
    BY <2>1, <2>2, ContractStutter DEF FindPasswd, Recheck, ConfirmRead
  <2>3. CASE NewPasswd \/ Confirm
    BY <2>1, <2>3, ContractAnswer DEF NewPasswd, Confirm, Contract!Next
  <2>4. CASE OpenPasswd \/ WritePasswd
    BY <2>1, <2>4, ContractRewrite DEF OpenPasswd, WritePasswd, TypeOK,
                                       Contract!Next
  <2> QED
    BY <1>2, <2>2, <2>3, <2>4 DEF PasswordSteps
<1>3. CASE BlockSignal \/ CatchInt
  <2>1. (Locked' <=> Locked) /\ UNCHANGED <<file, readable, typed>>
    BY <1>3 DEF BlockSignal, CatchInt
  <2> QED
    BY <2>1, ContractStutter
<1>4. CASE SignalsBlocked
  <2>1. args.lock /\ typed # NoPassword
    BY <1>4 DEF SignalsBlocked, IInv, FlowInv, TypedInv, SecondPass
  <2>2. UNCHANGED <<file, readable, typed, args>> /\ ~Locked
    BY <1>4 DEF SignalsBlocked
  <2>3. CASE pc' = "catch_int"
    (* The terminal is locked now.                                         *)
    <3>1. Locked'
      BY <2>1, <2>2, <2>3
    <3>2. UNCHANGED [usable |-> chk_passwd_set, secret |-> file.hash]
      BY <2>2 DEF chk_passwd_set
    <3>3. Contract!Lock
      BY <2>1, <2>2, <3>1, <3>2 DEF Contract!Lock
    <3> QED
      BY <3>3 DEF Contract!Next
  <2>4. CASE pc' = "exit"
    BY <2>2, <2>4, ContractStutter
  <2> QED
    BY <1>4, <2>3, <2>4 DEF SignalsBlocked, Return
<1>5. CASE BeginLoop \/ LeaveClock \/ Again \/ Unlock \/ Exit
  <2>1. (Locked' <=> Locked) /\ UNCHANGED <<file, readable, typed>>
    BY <1>5 DEF BeginLoop, LeaveClock, Again, Unlock, Exit, Return
  <2> QED
    BY <2>1, ContractStutter
<1>6. CASE Ask
  <2>1. Locked' <=> Locked
    BY <1>6 DEF Ask, WrongPassword
  <2> QED
    BY <1>6, <2>1, ContractAnswer DEF Ask, Contract!Next
<1>7. CASE CheckFile \/ Compare
  <2>1. args.lock /\ args'.lock
    BY <1>7 DEF CheckFile, Compare, IInv, FlowInv, SecondPass
  <2>2. Locked /\ UNCHANGED <<file, readable, typed>>
    BY <1>7, <2>1 DEF CheckFile, Compare
  <2>3. CASE pc' = "unlock"
    (* Opened, by the right answer or for want of a password file.         *)
    <3>1. ~Locked'
      BY <2>3
    <3>2. UNCHANGED [usable |-> chk_passwd_set, secret |-> file.hash]
      BY <2>2 DEF chk_passwd_set
    <3>3. ~chk_passwd_set \/ Matches(typed)
      BY <1>7, <2>3 DEF CheckFile, Compare, WrongPassword
    <3>4. Contract!Opens
      BY <3>3 DEF Contract!Opens, Matches
    <3>5. Contract!Release
      BY <2>2, <3>1, <3>2, <3>4 DEF Contract!Release
    <3> QED
      BY <3>5 DEF Contract!Next
  <2>4. CASE pc' # "unlock"
    <3>1. Locked'
      BY <1>7, <2>1, <2>4 DEF CheckFile, Compare, WrongPassword
    <3> QED
      BY <2>2, <3>1, ContractStutter
  <2> QED
    BY <2>3, <2>4
<1>8. CASE Terminate
  (* Only a signal in its default disposition terminates, and a locked     *)
  (* vtlock has left none of them so.                                      *)
  <2>1. ~Locked
    BY <1>8 DEF Terminate, IInv, SignalInv
  <2>2. ~Locked' /\ UNCHANGED <<file, readable, typed>>
    BY <1>8 DEF Terminate
  <2> QED
    BY <2>1, <2>2, ContractStutter
<1>9. CASE Restart
  <2>1. ~Locked /\ ~Locked' /\ UNCHANGED <<file, readable>>
    BY <1>9 DEF Restart, Alive
  <2>2. typed' \in Passwords \cup {NoPassword}
    BY <1>9 DEF Restart
  <2> QED
    BY <2>1, <2>2, ContractAnswer DEF Contract!Next
<1>10. CASE OtherWrites \/ AccessChanges
  <2>1. (Locked' <=> Locked) /\ UNCHANGED typed /\ file' \in Files
    BY <1>10 DEF OtherWrites, AccessChanges, flowVars, TypeOK
  <2>2. readable' \in BOOLEAN
    BY DEF TypeOK
  <2> QED
    BY <2>1, <2>2, ContractRewrite DEF Contract!Next
<1>11. CASE ExitKey \/ HandleSwitch \/ Stop \/ Continue \/ PressedCtrlC
            \/ SwitchConsole \/ UNCHANGED vars
  <2>1. (Locked' <=> Locked) /\ UNCHANGED <<file, readable, typed>>
    BY <1>11 DEF ExitKey, HandleSwitch, Stop, Continue, PressedCtrlC,
                 SwitchConsole, vars, flowVars
  <2> QED
    BY <2>1, ContractStutter
<1> QED
  BY <1>1, <1>2, <1>3, <1>4, <1>5, <1>6, <1>7, <1>8, <1>9, <1>10, <1>11
  DEF Next, Program, SignalSteps, LoopSteps, Environment

(* vtlock keeps LockContract.                                              *)
THEOREM Refinement == Spec => ImplementsContract
<1>1. IInv /\ IInv' /\ [Next]_vars => [Contract!Next]_(Contract!contractVars)
  BY ContractStep DEF IInv
<1> QED
  BY <1>1, ContractInit, Invariance, PTL
  DEF Spec, ImplementsContract, Contract!Spec

=============================================================================
