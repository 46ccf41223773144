CONSTANTS
    Ids = {1, 2, 3, 4}
    Times = {1, 2, 3}
    Words = {"hook", "hooks", "hoot", "shoe"}
    Exact = "hook"
    Literal = TRUE
    Starts = {"hook", "hooks"}
    Terms = {"hook"}
    Grams = {1, 2, 3, 4, 5}
    Texts <- SomeTexts
    Found <- SomeFound
    Asks <- SomeAsks
    PageSize = 2
    BatchSize = 2
    NoEvent = NoEvent
    Gone = Gone
    NoTerms = NoTerms
    NoCursor = NoCursor
    MaxChanges = 1
    MaxFills = 1
SPECIFICATION Spec
INVARIANT ExportAgrees
CHECK_DEADLOCK FALSE
