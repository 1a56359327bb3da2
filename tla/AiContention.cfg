\* Keys, versions and sources that requests compete for.
SPECIFICATION Spec
CONSTANTS
    olga = olga  otto = otto  p1 = p1  p2 = p2  m1 = m1  m2 = m2
    k1 = k1  k2 = k2  k3 = k3  w1 = w1  w2 = w2  q1 = q1  q2 = q2
    None = None
    Owner = {olga}
    Operator = {otto}
    Preparation = {p1, p2}
    Source = {m1, m2}
    Day = {1}
    Key = {k1, k2, k3}
    HardDaily = 4
    HardMax = 2
    Slot = {q1, q2}
    Submission <- Contention
    InputBound = 2
    MaxVersion = 2
    Worker = {w1}
    MaxUsage = 0
INVARIANTS OneRecordPerPreparation NoLostPolicyUpdate OneRunPerSource
SYMMETRY Interchangeable
