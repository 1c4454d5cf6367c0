SPECIFICATION Spec
CONSTANTS
    PubIDs = {i1, i2}
    Nil = Nil
    FrontendIDs <- MCFrontendIDs
    RuleIDs <- MCRuleIDs
    ProbeIDs <- MCProbeIDs
INVARIANTS ReferencesResolve OthersStay
CHECK_DEADLOCK FALSE
