\* One preparation over two days and two workers; two over one day's budget.
SPECIFICATION MCSpec
CONSTANTS
    olga = olga  otto = otto  p1 = p1  p2 = p2  m1 = m1  m2 = m2
    k1 = k1  k2 = k2  k3 = k3  w1 = w1  w2 = w2  q1 = q1  q2 = q2
    None = None
    Owner = {olga}
    Operator = {otto}
    Preparation = {p1, p2}
    Source = {m1, m2}
    Day = {1, 2}
    Key = {k1, k2}
    HardDaily = 3
    HardMax = 2
    Slot = {q1, q2}
    Submission <- AllRequests
    InputBound = 1
    MaxVersion = 2
    Worker = {w1, w2}
    MaxUsage = 2
INVARIANTS AiTypeOK PreparationAgreement OneCallPerPreparation AiTrailTellsStatus LedgerBalances SpendWithinLimits
PROPERTIES SettledPreparationIsFinal
SYMMETRY Interchangeable
