SPECIFICATION Spec
CONSTANTS
    Accounts = {"A"}
    MaxLogins = 2
    MaxWalkers = 2
    MaxEvents = 1
    None = None
    NewKey = NewKey
CHECK_DEADLOCK FALSE
INVARIANT LoginOnline
