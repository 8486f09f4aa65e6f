SPECIFICATION ListingsSpec
CONSTANTS
    Last = 3
    Limit = 1
    MaxChanges = 3
    Questions <- MCQuestions
INVARIANTS
    ListingsTypeOK
    AnswersExplained
CHECK_DEADLOCK FALSE
