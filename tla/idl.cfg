SPECIFICATION Spec
CONSTANTS
    Alpha <- Letters
    Digit <- Digits
    Reserved <- ReservedWords
    Name <- Names
    Pool <- AllDefinitions
    MaxWritten = 3
    MaxEdited = 2
    Replacement <- SomeTokens
    Typed <- PlainTexts
INVARIANTS WrittenIsParsed SameInModule AcceptedAsWritten LexedAsWritten LineIsRight
CHECK_DEADLOCK FALSE
