CONSTANTS
    Reviewers = {r1}
    Payer = Payer
    TimeoutsFire = FALSE
    MaxRestarts = 0
SPECIFICATION ExpenseFairSpec
CHECK_DEADLOCK FALSE
PROPERTY
    ApprovalCompletes
