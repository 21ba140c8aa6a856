---------------------------- MODULE MCAskPasswd ----------------------------
(* Model checking of AskPasswd: every kind of key, one of those that send  *)
(* the same bytes or take the same path, and characters that are also      *)
(* bytes of escape sequences.                                              *)
EXTENDS AskPasswd

MCKeys == {"A", "3", "~", "enter", "tab", "ctrl_c", "ctrl_d", "backspace", "ff"}
          \cup DOMAIN Wide
          \cup (DOMAIN Sequences \ {"Down", "Home", "PgUp", "CtrlLeft", "AltX",
                                  "AltFF", "AltUp"})
          \cup {"AltBracket", "AltSpace"}
MCChars == DOMAIN Byte
MCInitCapacity == 3
MCMaxKeys == 4
MCMaxInput == 2
MCMaxSize == 16
=============================================================================
