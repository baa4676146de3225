SPECIFICATION MCSpec
CHECK_DEADLOCK FALSE
CONSTANTS
    Beneficiaries = {b1}
    Users = {u1, u2}
    Keys = {k1}
    Amounts = {1, 2}
    Adjustments = {0, 1, 3}
    LastDay = 1
    Cutoffs = {1}
    MaxSpan = 1
    MaxTotal = 2
    Horizonte = 4
    MaxVersoes = 3
    Processos = {u1, u2}
    consultor1 = consultor1
    lider1 = lider1
    lider2 = lider2
    Colaboradores = {consultor1, lider1, lider2}
    Contas = {}
    Ninguem = Ninguem
    Papeis = {"CONSULTOR_MEI_ESCALONADO", "LIDER"}
    Tipos = {"COMERCIAL"}
    UltimoDia = 2
    Cadastrados = {consultor1, lider1}
    FuncoesDe <- MCFuncoesDe
    Prazos = {3}
    Slots = {u1, u2}
    MaxPedidos = 3
SYMMETRY MCSymmetry
INVARIANTS
    OneLeaderOrReported
    InactiveIsOut
PROPERTIES
    TransferLeavesNoGap
    ModalityChangeKeepsThePast
    
    
    NeverUncovered
    PastRulesAreFixed
