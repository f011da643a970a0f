\* A transaction or a call that fails validation.
SPECIFICATION LedgerSpec
CONSTANTS
    None = None
    A = A
    B = B
    Address = {A, B}
    Raw <- MCRaw
    Hash <- MCRaw
    Fee = 0
    Amount = {0, 2}
    CallValue = {2, 3}
    MaxHeight = 2
    MaxPending = 2
PROPERTY RejectionKeepsAccounts
CHECK_DEADLOCK FALSE
