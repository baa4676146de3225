SPECIFICATION LedgerSpec
CHECK_DEADLOCK FALSE
CONSTANTS
    p1 = p1
    c1 = c1
    f1 = f1
    l1 = l1
    l2 = l2
    none = none
    Proposals = {p1}
    Receipts = {1, 2}
    People <- MCPeople
    NoOne = none
    Commission <- MCCommission
    Operation <- MCOperation
    Consultant <- MCConsultant
    Finalizer <- MCFinalizer
    Regime <- MCRegime
    Role <- MCRole
    Leader <- MCLeader
    Policy <- MCPolicy
    Config <- MCConfig
    Declarations <- MCDeclarations
    Levels <- MCLevels
    LastDate = 2
    WeekLength = 2
    MonthLength = 2
INVARIANTS
    FinalizerWeekFollowsFormula
