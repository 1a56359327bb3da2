\* One agent's versions; a workflow, its agent and a run; the items of two tenants.
SPECIFICATION MCSpec
CONSTANTS
    t1 = t1  t2 = t2  olga = olga  anna = anna  ugo = ugo  a1 = a1  a2 = a2  f1 = f1
    v1 = v1  v2 = v2  v3 = v3  r1 = r1  s1 = s1  q1 = q1  q2 = q2
    None = None
    Tenant = {t1, t2}
    Principal = {olga, anna, ugo}
    TenantOf <- MCTenantOf
    RolesOf <- MCRolesOf
    Agent = {a1, a2}
    Workflow = {f1}
    Version = {v1, v2, v3}
    Run = {r1}
    Slug = {s1}
    Slot = {q1, q2}
    Submission <- AllRequests
    MaxLock = 3
INVARIANTS NumbersAreDense EditsAreSerial PinsArePublished RunsCarryPublishedStack
PROPERTIES ImplementsVersionShelf
