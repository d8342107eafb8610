SPECIFICATION Spec
CONSTANTS
    n1 = n1
    n2 = n2
    n3 = n3
    n4 = n4
    n5 = n5
    n6 = n6
    Node = {n1, n2, n3, n4, n5, n6}
    Founders <- MCFive
    Plan <- MCPlan
    Electable = {n1, n2}
    Crashable = {n1, n5}
    MAX_MEMBERS = 8
    MaxEra = 60
    MaxLife = 1
    MaxCrashes = 1
    MaxFaults = 1
    MaxPlans = 1
INVARIANTS
    TypeOK
    RecomputesTheRest
    GatesAgree
    ReplacedInPlace
    MarginKept
    PlanInOrder
PROPERTY
    VotesAgain
    StableLeaderFinishes
