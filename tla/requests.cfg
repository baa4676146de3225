SPECIFICATION MCSpec
CHECK_DEADLOCK FALSE
CONSTANTS
    FaltaTolerada = 1
    ExcedenteTolerado = 2
    Proposals = {p1}
    Receipts = {r1, r2}
    Users = {u1, u2}
    Commissions = {1, 4}
    Amounts = {2}
    Requests = {q1, q2}
    Handlers <- AllHandlers
    MaxVersion = 5
    Usuarios = {u1, u2, u3}
    Administradores = {u1, u2}
    Perfis <- MCPerfis
    Processos = {q1, q2}
    CacheTtl = 2
    MaxPedidos = 2
    MaxTokens = 3
    MaxSenhas = 2
    Emails = {"e1", "e2"}
    Ips = {"i1", "i2"}
    Clientes = {"c1", "c2"}
    MaxTentativas = 1
    Janela = 1
    MaxRegistros = 3
    Catalogos <- MCCatalogos
    Contas = {"a1", "a2"}
SYMMETRY Symmetry
INVARIANTS
    SegregationOfDuties
    MoneyConsistent
    OnlyReversalsDeadlock
    AccessChangeShowsAtOnce
    OldPasswordsHaveNoSession
    SomebodyAdministers
    GuessesPerWindow
PROPERTIES
    FrozenButForRemovals
    NoBlindWrite
    RequestsImplementLifecycle
    ReviewedSetIsRecognised
    SynchronizationSettles
