SPECIFICATION Spec
CONSTANTS
    None = None
    Canon <- MCCanon
    KeyOf <- MCKeyOf
    Cap <- MCCap
    Claims <- MCClaims
    Subject = "P"
    FirstKey = "kP1"
    NextKey = "kP2"
    Plan <- MCPlan
    Component <- MCComponent
    Path <- MCPath
    MaxDepth = 3
    MaxLifetime = 3
    TTL = 2
    Drift = 1
    Grace = 3
    Tolerance = 1
    Lag = 1
    MaxNow = 7
INVARIANTS AcceptedAuthorized RevocationOutlives RefusedForCause Accounted
