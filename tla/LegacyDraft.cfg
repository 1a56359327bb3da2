\* Two drafts, two handlers, keys shared by requests of both, processes that die.
SPECIFICATION FairSpec
CONSTANTS
    d1 = d1  d2 = d2  anna = anna  bruno = bruno  k1 = k1  k2 = k2  q1 = q1  q2 = q2
    None = None
    Draft = {d1, d2}
    Actor = {anna, bruno}
    Key = {k1, k2}
    Slot = {q1, q2}
    Submission <- AllRequests
INVARIANTS LegacyTypeOK DraftAgreement OneCallPerDraft ReplayTellsOutcome LegacyTrailTellsStatus OneRecordPerEffect
PROPERTIES ImplementsGovernedRun SimulationSettles
