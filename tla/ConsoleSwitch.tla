--------------------------- MODULE ConsoleSwitch ---------------------------
(***************************************************************************)
(* console/console_switch.c: how vtlock takes over the switching of its    *)
(* virtual terminal, the two signal handlers that answer the kernel, and   *)
(* the signal dispositions it installs.  The kernel's side of VT_SETMODE,  *)
(* VT_RELDISP and of a switch request is external to the repository; it is *)
(* modelled here as the code in src/ relies on it (Linux drivers/tty/vt).  *)
(***************************************************************************)
EXTENDS Naturals, Sequences

VARIABLES
    vt_mode,     \* the mode of vtlock's terminal in the kernel
    vt_pid,      \* the process that set it, asked before a switch
    vt_newvt,    \* a switch away was requested and waits for the answer
    foreground,  \* TRUE while vtlock's terminal is the one on the screen
    pending,     \* SIGUSR1 and SIGUSR2 sent by the kernel, not yet handled
    disp,        \* disposition of each signal
    old_vtm      \* the mode saved by the last VT_GETMODE (static old_vtm)

vtVars      == <<vt_mode, vt_pid, vt_newvt>>
kernelVars  == <<vtVars, foreground, pending>>
consoleVars == <<kernelVars, disp, old_vtm>>

(* The array lock_signals() walks; its sentinel SIGKILL is the end of the  *)
(* sequence.                                                               *)
SIGNALS == << "SIGTSTP", "SIGTTIN", "SIGTTOU", "SIGINT", "SIGQUIT",
              "SIGTERM", "SIGHUP", "SIGPIPE", "SIGALRM", "SIGCHLD" >>

Blockable    == {SIGNALS[k] : k \in DOMAIN SIGNALS}
SwitchSignal == {"SIGUSR1", "SIGUSR2"}     \* relsig and acqsig of the lock
StopSignals  == {"SIGTSTP", "SIGTTIN", "SIGTTOU"}

Modes        == {"AUTO", "PROCESS"}
Pids         == {"none", "vtlock", "other", "gone"}
Dispositions == {"default", "ignore", "no_vt_switch", "ack_vt_switch",
                 "pressed_ctrl_c"}

ConsoleTypeOK ==
    /\ vt_mode \in Modes
    /\ vt_pid \in Pids
    /\ vt_newvt \in BOOLEAN
    /\ foreground \in BOOLEAN
    /\ pending \subseteq SwitchSignal
    /\ disp \in [Blockable \cup SwitchSignal -> Dispositions]
    /\ old_vtm \in Modes

DefaultDispositions == [s \in Blockable \cup SwitchSignal |-> "default"]

(* A terminal nobody took over, or one another program controls.           *)
ConsoleInit ==
    /\ \/ vt_mode = "AUTO" /\ vt_pid = "none"
       \/ vt_mode = "PROCESS" /\ vt_pid = "other"
    /\ vt_newvt = FALSE
    /\ foreground = TRUE
    /\ pending = {}
    /\ disp = DefaultDispositions
    /\ old_vtm = "AUTO"                        \* static: zeroed, VT_AUTO

-----------------------------------------------------------------------------
(* The kernel (external).                                                  *)

VT_SETMODE(mode) ==
    vt_mode' = mode /\ vt_pid' = "vtlock" /\ vt_newvt' = FALSE

(* VT_RELDISP answers a pending request: 0 refuses it, any other argument, *)
(* VT_ACKACQ included, completes the switch.  With no request pending, or  *)
(* outside VT_PROCESS, nothing happens.                                    *)
VT_RELDISP(arg) ==
    /\ UNCHANGED <<vt_mode, vt_pid>>
    /\ IF vt_mode = "PROCESS" /\ vt_newvt
         THEN /\ vt_newvt' = FALSE
              /\ foreground' = (foreground /\ arg = "0")
         ELSE UNCHANGED <<vt_newvt, foreground>>

(* reset_vc: the owner is dead, the terminal is nobody's again.            *)
ResetVt == vt_mode' = "AUTO" /\ vt_pid' = "none" /\ vt_newvt' = FALSE

(* The user asks for another terminal.                                     *)
RequestSwitch ==
    /\ foreground
    /\ \/ /\ vt_mode = "AUTO"
          /\ foreground' = FALSE
          /\ UNCHANGED <<vtVars, pending>>
       \/ /\ vt_mode = "PROCESS" /\ vt_pid = "vtlock"
          /\ vt_newvt' = TRUE
          /\ pending' = pending \cup {"SIGUSR1"}
          /\ UNCHANGED <<vt_mode, vt_pid, foreground>>
       \/ /\ vt_mode = "PROCESS" /\ vt_pid = "gone"
          /\ ResetVt
          /\ foreground' = FALSE
          /\ UNCHANGED pending
       \/ /\ vt_mode = "PROCESS" /\ vt_pid = "other"
          /\ foreground' = FALSE               \* the other program agrees
          /\ UNCHANGED <<vtVars, pending>>

(* The user comes back to vtlock's terminal.                               *)
SwitchBack ==
    /\ ~foreground
    /\ foreground' = TRUE
    /\ IF vt_mode = "PROCESS" /\ vt_pid = "vtlock"
         THEN pending' = pending \cup {"SIGUSR2"} /\ UNCHANGED vtVars
         ELSE /\ IF vt_mode = "PROCESS" /\ vt_pid = "gone"
                   THEN ResetVt
                   ELSE UNCHANGED vtVars
              /\ UNCHANGED pending

Kernel == RequestSwitch \/ SwitchBack

(* What is left of the terminal and of the signals when vtlock ends; the   *)
(* dispositions and old_vtm are the next process's, which starts anew.     *)
Orphan ==
    /\ vt_pid' = IF vt_pid = "vtlock" THEN "gone" ELSE vt_pid
    /\ pending' = {}
    /\ disp' = DefaultDispositions
    /\ old_vtm' = "AUTO"
    /\ UNCHANGED <<vt_mode, vt_newvt, foreground>>

-----------------------------------------------------------------------------
(* console_switch.c                                                        *)

(* VT_GETMODE into old_vtm.                                                *)
SaveMode == old_vtm' = vt_mode

(* Mutants of no_vt_switch: the two handlers swapped; an empty handler.    *)
no_vt_switch_swapped == VT_RELDISP("VT_ACKACQ")
no_vt_switch_empty   == UNCHANGED <<vtVars, foreground>>

no_vt_switch  == VT_RELDISP("0")
ack_vt_switch == VT_RELDISP("VT_ACKACQ")

(* The handler of a pending switch signal runs to its end.                 *)
HandleSwitchSignal(sig) ==
    /\ sig \in pending
    /\ pending' = pending \ {sig}
    /\ \/ disp[sig] = "no_vt_switch" /\ no_vt_switch
       \/ disp[sig] = "ack_vt_switch" /\ ack_vt_switch

Install(sig, handler) == disp' = [disp EXCEPT ![sig] = handler]

(* set_signal returns FALSE only when both signal() and sigaction() fail,  *)
(* and then the disposition stays.                                         *)
set_signal(sig, func, success) ==
    IF success THEN Install(sig, func) ELSE UNCHANGED disp

=============================================================================
