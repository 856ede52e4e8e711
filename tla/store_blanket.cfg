SPECIFICATION Spec
CONSTANTS
    alpha = alpha
    beta = beta
    a1 = a1
    a2 = a2
    b1 = b1
    ec = ec
    bad = bad
    None = None
    Names = {alpha, beta}
    CSRs = {a1, b1, ec}
    CN <- MCCN
    WellFormed = {a1, b1, ec}
    Normal = {}
    Signable = {a1, b1}
    Threads = {1, 2}
    HasPolicy = FALSE
    MaxSerial = 6
INVARIANTS SerialsUnique
PROPERTIES StatusLifecycle ImplementsRegistry
