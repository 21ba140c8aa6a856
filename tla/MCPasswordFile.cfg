\* Two processes, each run twice; every call may fail, a kill anywhere.
SPECIFICATION Spec
CONSTANTS
    Procs = {v, w}
    Nobody = Nobody
    Passwords = {p1, p2}
    NoPassword = NoPassword
    NoBytes = NoBytes
    MaxSessions = 2
SYMMETRY SetupSymmetry
INVARIANTS
    TypeOK
    WholeFile
    ConfirmedKept
    LeaksOnlyFiles
PROPERTIES
    ImplementsStore
\* A vtlock that has ended need not be run again.
CHECK_DEADLOCK FALSE
