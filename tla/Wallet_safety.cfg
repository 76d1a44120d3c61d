SPECIFICATION Spec
CONSTANTS
    None = None
    Torn = Torn
    Wallets = {w1}
    PINs = {p1, p2}
    Accounts = {a1, a2}
    MaxKeys = 2
    MaxPlats = 2
    MaxCreds = 2
    MaxHarm = 1
SYMMETRY Symmetry
INVARIANTS
    WalletInv
    FilesAgree
    Usable
PROPERTIES
    VaultSpec
CHECK_DEADLOCK FALSE
