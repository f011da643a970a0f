\* Requests of any client in any order, the same raw transaction again included.
SPECIFICATION Spec
CONSTANTS
    None = None
    A = A
    B = B
    Address = {A, B}
    Raw <- MCRaw
    Hash <- MCHash
    Fee = 0
    Amount = {0}
    CallValue = {1}
    MaxHeight = 2
    MaxPending = 2
    Merchant = B
    Price = {1}
    Seeds = 1
    MaxToken = 2
    LogsOf <- MCLogs
    window_size_blocks = 2
INVARIANTS ReceiptLeadsToItsBlock AcknowledgedIsPendingOrMined ListedOnOwnersTerms
CHECK_DEADLOCK FALSE
