SPECIFICATION FairSpec
CONSTANTS
    Policies <- MCPolicies
    Statuses <- MCStatuses
    NotFinite = NotFinite
INVARIANTS TypeOK AttemptsBounded NoOutcomeLost StatusAndErrorAgree BackoffIsExponential
PROPERTIES CallReturns
