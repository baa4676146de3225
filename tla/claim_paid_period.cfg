SPECIFICATION Spec
CHECK_DEADLOCK FALSE
CONSTANTS
    Beneficiaries = {b1}
    Users = {u1, u2}
    Keys = {}
    Amounts = {1}
    Adjustments = {0}
    LastDay = 1
    Cutoffs = {1}
    MaxSpan = 1
    MaxTotal = 1
PROPERTIES
    PaidPeriodStaysFrozen
