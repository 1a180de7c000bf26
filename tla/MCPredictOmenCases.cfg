SPECIFICATION MCSpec
CONSTANTS
    None = None
    a1 = a1
    a2 = a2
    a3 = a3
    q1 = q1
    q2 = q2
    f1 = f1
    f2 = f2
    q3 = q3
    f3 = f3
    Safes = {a1, a2, a3}
    Services = {s1}
    Questions = {q1, q2, q3}
    Markets = {f1, f2, f3}
    Answers = {0, 1, 2}
    Buys <- MCBuys
    Sells <- MCSells
    Payouts = {1}
    Scale = 4
    Timeout = 2
    DayLength = 1
    SameAnswerAgain = TRUE
    Commitments = TRUE
    SharedQuestions = FALSE
    MaxNow = 2
    MaxBets = 2
    MaxRedemptions = 1
SYMMETRY Symmetry
CHECK_DEADLOCK FALSE
INVARIANTS
    
    AnswersShown
PROPERTY
    SettlementStable
