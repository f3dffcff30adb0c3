SPECIFICATION Spec
CONSTANTS
    mixed = mixed
    lower = lower
    other = other
    None = None
    Emails = {other}
    EmailStr <- LowerDomain
    Passwords = {p}
    Numbers = {n1}
    Registrations = {r1}
    Logins = {l}
    Refreshes = {f1, f2}
    Logouts = {}
    Reads = {}
    MaxLost = 0
INVARIANT ExchangedOnce
CHECK_DEADLOCK FALSE
