SPECIFICATION AuthSpec
CONSTANTS
    Tokens = {t1}
    Admins = {a1, a2}
    Clients = {q1}
    Sessions = {s1}
    MaxWrites = 4
    MaxErrors = 1
    MaxRestarts = 1
    None = None
SYMMETRY Symmetry
CHECK_DEADLOCK FALSE
INVARIANT MapMatchesRows
INVARIANT EndedSessionsStayEnded
