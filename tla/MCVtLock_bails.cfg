SPECIFICATION Spec
CONSTANTS
    Passwords = {p1}
    NoPassword = NoPassword
    TriesModulus <- MCTriesModulus
    MaxSessions = 1
    MaxFailures = 1
    OthersWrite = FALSE
INVARIANTS
    BailsOutUnlocked
