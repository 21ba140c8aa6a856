\* Four keys of 25, typed before the prompt, ahead of it or one by one.
SPECIFICATION FairSpec
CONSTANTS
    Keys <- MCKeys
    MaxKeys <- MCMaxKeys
    MaxInput <- MCMaxInput
    Chars <- MCChars
    Nul = Nul
    Junk = Junk
    InitCapacity <- MCInitCapacity
    MaxSize <- MCMaxSize
INVARIANTS
    TypeOK
    InStep
    PasswordReadsBack
PROPERTIES
    PromptEnds
\* A prompt that has ended, or a user who types no more, is terminal.
CHECK_DEADLOCK FALSE
