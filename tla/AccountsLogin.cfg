CONSTANTS
    NoRow = NoRow
    Registrars = {r1}
    Logins = {l1}
    Openers = {}
    Upserters = {}
    Emails = {e1}
    Passwords = {p1, p2}
    MaxFaults = 0
SPECIFICATION Spec
CHECK_DEADLOCK FALSE
INVARIANT RightPasswordLogsIn
