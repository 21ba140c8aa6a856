\* Two sessions, two passwords, switch requests, signals, failing calls, other
\* writers of the password file.
SPECIFICATION Spec
CONSTANTS
    Passwords = {p1, p2}
    NoPassword = NoPassword
    TriesModulus <- MCTriesModulus
    MaxSessions = 2
    MaxFailures = 2
    OthersWrite = TRUE
SYMMETRY PasswordSymmetry
INVARIANTS
    TypeOK
    ConsoleHeld
    HandlersArmed
    ModeRestored
    ConfirmedPasswordWorks
PROPERTIES
    StaysForeground
    ImplementsContract
