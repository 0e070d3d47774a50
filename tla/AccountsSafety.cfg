CONSTANTS
    NoRow = NoRow
    Registrars = {r1, r2}
    Logins = {l1}
    Openers = {o1}
    Upserters = {w1, w2}
    Emails = {e1, e2}
    Passwords = {p1}
    MaxFaults = 1
SPECIFICATION Spec
CHECK_DEADLOCK FALSE
SYMMETRY AccountSymmetry
INVARIANTS TypeOK OneUserPerEmail OneMembershipEach AccountsHaveTenants AccountsInv
PROPERTY MembersChangeByManagers
