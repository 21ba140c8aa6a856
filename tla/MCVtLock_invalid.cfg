\* Exit 8 and what the program says of it: a good file that cannot be opened.
SPECIFICATION Spec
CONSTANTS
    Passwords = {p1}
    NoPassword = NoPassword
    TriesModulus <- MCTriesModulus
    MaxSessions = 1
    MaxFailures = 1
    OthersWrite = TRUE
PROPERTIES
    InvalidAsSaid
