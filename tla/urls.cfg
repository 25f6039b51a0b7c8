SPECIFICATION Spec
CONSTANTS
    Digit <- Digits
    Word <- Words
    Port = "2809"
    Given <- SomeGiven
    Typed <- TypedTexts
INVARIANTS WrittenIsParsed StringIsParsed
CHECK_DEADLOCK FALSE
