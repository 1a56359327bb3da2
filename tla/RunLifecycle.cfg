\* A life cycle under racing handlers and workers; keys and tenants; one message.
SPECIFICATION MCSpec
CONSTANTS
    t1 = t1  t2 = t2  olga = olga  anna = anna  ugo = ugo  erp = erp  m365 = m365  erp2 = erp2  draft = draft
    r1 = r1  r2 = r2  m1 = m1  k1 = k1  k2 = k2  w1 = w1  w2 = w2  q1 = q1  q2 = q2
    None = None
    Tenant = {t1, t2}
    Principal = {olga, anna, ugo}
    TenantOf <- MCTenantOf
    RolesOf <- MCRolesOf
    Workflow = {erp, m365, erp2, draft}
    WorkflowTenant <- MCWorkflowTenant
    ConnectorOf <- MCConnectorOf
    M365Tenant = {t1}
    Run = {r1, r2}
    Source = {m1}
    Key = {k1, k2}
    Slot = {q1, q2}
    Submission <- AllRequests
    Worker = {w1, w2}
    MaxAttempts = 2
    MaxClaims = 3
INVARIANTS TypeOK StatusAgreement WriteOnlyAfterApproval AuditTrailTellsStatus ExecuteReplayIsCurrent
INVARIANTS AttemptsAccountForCalls OneRecordPerEffect AcceptedIsRecorded OneRunPerSource BlockedOrdersStayBlocked
PROPERTIES SettledIsFinal ImplementsGovernedRun
