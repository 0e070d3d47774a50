CONSTANTS
    Requests = {q1, q2, q3, q4, q5, q6}
    Limit = 2
    MaxFaults = 1
SPECIFICATION FairSpec
CHECK_DEADLOCK FALSE
PROPERTY CounterExpires

