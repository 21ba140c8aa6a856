\* Three terminal sizes, three places, two scales: clipped and whole clocks.
SPECIFICATION Spec
CONSTANTS
    Times <- MCTimes
    Font <- MCFont
    Positions <- MCPositions
    Scales <- MCScales
    Looks <- MCLooks
    TermSizes <- MCTermSizes
    Prompt <- MCPrompt
    MaxTyped = 2
INVARIANTS
    TypeOK
    ShowsTime
    NoResidue
