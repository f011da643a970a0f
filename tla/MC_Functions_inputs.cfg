\* Lists and payloads of at most two transactions.
SPECIFICATION FunctionsSpec
CONSTANTS
    Absent = Absent
    Refused = Refused
    A = A
    B = B
    h1 = h1
    h2 = h2
    Hash = {h1, h2}
    Address = {A, B}
    Nonce = {0, 1}
    Gas = {1, 2, 3}
    Price = {1}
    Value = {1}
    account_nonce <- MCNonce
    account_balance <- MCBalance
    ENGINE_BLOCK_GAS_LIMIT = 2
    MaxEntries = 2
    ListEntry <- MCListEntry
    PayloadEntry <- MCPayloadEntry
    SlotNumber = {1, 2}
SYMMETRY HashSymmetry
INVARIANTS  BlocksReproduce  AcceptedInputsAreSound  
CHECK_DEADLOCK FALSE
