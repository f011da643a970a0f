\* The whole life of a benchmark, with lost requests and answers.
SPECIFICATION BenchSpec
CONSTANTS
    None = None
    A = A
    B = B
    C = C
    w1 = w1
    w2 = w2
    Address = {A, B, C}
    Worker = {w1, w2}
    Sender <- MCSender
    Raw <- MCRaw
    Hash <- MCRaw
    To = C
    TxCount = 3
    ValueWei = 0
    FundWei = 9
    Fee = 1
    Amount = {9}
    CallValue = {}
    EmptyTicks = 1
    MaxHeight = 4
    MaxPending = 3
PROPERTIES LossOnlyIfUnfunded BenchmarkEnds SubmittedGetsMined
CHECK_DEADLOCK FALSE
