\* A call that ends in an error without a usage report.
SPECIFICATION Spec
CONSTANTS
    olga = olga  otto = otto  p1 = p1  p2 = p2  m1 = m1  m2 = m2
    k1 = k1  k2 = k2  k3 = k3  w1 = w1  w2 = w2  q1 = q1  q2 = q2
    None = None
    Owner = {olga}
    Operator = {otto}
    Preparation = {p1}
    Source = {m1}
    Day = {1}
    Key = {k1, k2}
    HardDaily = 2
    HardMax = 2
    Slot = {q1}
    Submission <- OnePreparation
    InputBound = 1
    MaxVersion = 1
    Worker = {w1}
    MaxUsage = 1
PROPERTIES AmbiguousCallKeepsReservation
