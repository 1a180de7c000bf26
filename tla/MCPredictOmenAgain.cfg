SPECIFICATION Spec
CONSTANTS
    None = None
    Safes = {a1}
    Services = {s1}
    Questions = {q1}
    Markets = {f1}
    Answers = {0, 1}
    Buys <- MCBuys
    Sells <- MCNoSells
    Payouts = {1}
    Scale = 4
    Timeout = 2
    DayLength = 1
    SameAnswerAgain = TRUE
    Commitments = FALSE
    SharedQuestions = FALSE
    MaxNow = 2
    MaxBets = 1
    MaxRedemptions = 0
CHECK_DEADLOCK FALSE
INVARIANT
    DaysExact
