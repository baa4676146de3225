SPECIFICATION MCSpec
CHECK_DEADLOCK FALSE
CONSTANTS
    p1 = p1
    p2 = p2
    p3 = p3
    p4 = p4
    c1 = c1
    c2 = c2
    c3 = c3
    fin = fin
    lead = lead
    none = none
    Proposals <- MCProposals
    Receipts = {1, 2, 3, 4}
    People <- MCPeople
    NoOne = none
    Commission <- MCCommission
    Operation <- MCOperation
    Consultant <- MCConsultant
    Finalizer <- MCFinalizer
    Regime <- MCRegime
    Role <- MCRole
    Leader <- MCLeader
    Policy <- MCPolicy
    Config <- MCConfig
    Declarations <- MCDeclarations
    Levels <- MCLevels
    LastDate = 2
    WeekLength = 2
    MonthLength = 2
    FaltaTolerada = 1
    ExcedenteTolerado = 2
    Vazio = Vazio
    Ilegivel = Ilegivel
    LinhasDe <- MCLinhas
    MaxLinhas = 3
    Arredondamento = 1
    Chaves = {1, 2}
    Ordens = {1}
    Comandos = {1, 2}
    MaxCadastros = 2
    Beneficiaries = {b1}
    Users = {}
    Keys = {}
    Amounts = {1}
    Adjustments = {0, 1}
    LastDay = 2
    Cutoffs = {}
    MaxSpan = 2
    MaxTotal = 1
INVARIANTS
    GenerationIdempotent
    RowsAreAnswered
    CleanReportIsFaithful
    LeaderFollowsMoney
    OneCredit
    NetFollowsMoney
    ReportFollowsMoney
PROPERTIES
    ReversalSettlesMonth
    PreviewIsPaid
