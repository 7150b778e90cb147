SPECIFICATION Spec
CONSTANTS
    Thread = {t1, t2}
    a = a
    b = b
    c = c
    Key = {a, b, c}
    NoKey = NoKey
    hash <- Hash
    Redline = {1, 2, 3}
    Rate = {1, 2}
    Share = {40, 100}
    Bw = {4, 8}
    CounterMod = 2
    Second = 2
    Elapsed = {0, 2, 4}
    Size = {1}
SYMMETRY Symmetry
CHECK_DEADLOCK FALSE
INVARIANTS
    SamplesSafe
    EntriesCounted
    SignalJustified
