SPECIFICATION Spec
CONSTANTS
    None = None
    Torn = Torn
    NoPassword = NoPassword
    Passwords = {p1, p2}
    MaxKeys = 3
    MaxHarm = 2
INVARIANTS KSInv ServedOpens
PROPERTY ChosenLoads
