\* Two characters, lines of up to six of them, three growths, eight terminals.
SPECIFICATION PromptSpec
CONSTANTS
    Chars = {a, b}
    Nul = Nul
    Junk = Junk
    InitCapacity <- MCInitCapacity
    MaxSize <- MCMaxSize
    Terminals <- MCTerminals
INVARIANTS
    TypeOK
    BufferBounds
    NothingLeft
    NothingAboveErased
    LengthHidden
PROPERTIES
    ImplementsLine
    TypingInPlace
\* A prompt that has ended is a terminal state.
CHECK_DEADLOCK FALSE
