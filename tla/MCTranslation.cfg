SPECIFICATION TranslationSpec
CONSTANTS
    Calls <- MCCalls
    MaxCalls = 2
    MaxPieces = 2
    MaxItems = 3
INVARIANTS
    StreamWellFormed
    AnswerWhole
CHECK_DEADLOCK FALSE
