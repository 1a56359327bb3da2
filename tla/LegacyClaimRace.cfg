\* The same simulate request sent twice.
SPECIFICATION Spec
CONSTANTS
    d1 = d1  d2 = d2  anna = anna  bruno = bruno  k1 = k1  k2 = k2  q1 = q1  q2 = q2
    None = None
    Draft = {d1}
    Actor = {anna, bruno}
    Key = {k1, k2}
    Slot = {q1, q2}
    Submission <- LifeRequests
INVARIANTS InProgressNamesAnotherKey
