\* Liveness: every step of the program fair, a user who does not give up.
SPECIFICATION FairSpec
CONSTANTS
    Passwords = {p1}
    NoPassword = NoPassword
    TriesModulus <- MCTriesModulus
    MaxSessions = 1
    MaxFailures = 1
    OthersWrite = FALSE
PROPERTIES
    SwitchAnswered
    UserGetsOut
