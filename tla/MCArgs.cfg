\* Up to four words of 16, the fourth beyond what the index can hold.
SPECIFICATION Spec
CONSTANTS
    Words <- MCWords
    MaxWords <- MCMaxWords
    IndexRange <- MCIndexRange
INVARIANTS
    TypeOK
    LastWins
    WordsOnce
\* A command line is parsed once.
CHECK_DEADLOCK FALSE
