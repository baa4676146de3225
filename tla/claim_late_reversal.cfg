SPECIFICATION Spec
CHECK_DEADLOCK FALSE
CONSTANTS
    Beneficiaries = {b1}
    Users = {}
    Keys = {}
    Amounts = {1}
    Adjustments = {0}
    LastDay = 2
    Cutoffs = {1}
    MaxSpan = 1
    MaxTotal = 1
PROPERTIES
    LateReversalCarried
