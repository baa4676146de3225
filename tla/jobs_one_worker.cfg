SPECIFICATION MCSpec
CONSTANTS
    Workers = {w1}
    Jobs = {1, 2}
    Items = {a, b}
    Editions = {e1, e2}
    MaxAttempts = 2
    Chaves = {1, 2}
    Documentos = {11}
    Prefixos = 1
    Carencia = 1
    Pedidos = {a, b}
    Agendadores = {a, b}
    MaxDias = 2
    MaxArquivos = 2
    Retencao = 1
SYMMETRY MCSymmetry
INVARIANTS
    
    RowsPointToObjects
    OneBackupPerDay
    ReportsAreTrue
PROPERTIES
    AnalysedProofsStay
    AGoodArchiveStays
