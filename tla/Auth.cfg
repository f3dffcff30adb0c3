SPECIFICATION Spec
CONSTANTS
    mixed = mixed
    lower = lower
    other = other
    None = None
    Emails = {mixed, lower, other}
    EmailStr <- LowerDomain
    Passwords = {p}
    Numbers = {n1, n2}
    Registrations = {r1, r2}
    Logins = {l}
    Refreshes = {f1, f2}
    Logouts = {o}
    Reads = {g}
    MaxLost = 1
SYMMETRY CallSymmetry
INVARIANTS TypeOK RegistrationIsAtomic ConflictIsTrue NoCallIsStuck
    RevokedExactlyByUse AccountIsThere
PROPERTY RevocationIsFinal
CHECK_DEADLOCK FALSE
