SPECIFICATION RSpec
CONSTANTS
    FaltaTolerada = 1
    ExcedenteTolerado = 2
    Proposals = {p1}
    Receipts = {r1, r2}
    Users = {u1, u2}
    Commissions = {4}
    Amounts = {2}
    Requests = {q1, q2}
    Handlers <- AllHandlers
    MaxVersion = 5
SYMMETRY Symmetry
PROPERTIES
    AnalysisSetFrozen
