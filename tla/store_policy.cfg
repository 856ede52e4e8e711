SPECIFICATION FairSpec
CONSTANTS
    alpha = alpha
    beta = beta
    a1 = a1
    a2 = a2
    b1 = b1
    ec = ec
    bad = bad
    None = None
    Names = {alpha, beta}
    CSRs = {a1, a2, ec, bad}
    CN <- MCCN
    WellFormed = {a1, a2, ec}
    Normal = {a1, ec, bad}
    Signable = {a1, a2}
    Threads = {1, 2}
    HasPolicy = TRUE
    MaxSerial = 5
INVARIANTS TypeOK NeverBoth PolicyGoverns CertIsForItsName CleanedCertsAreRevoked
PROPERTIES PendingRequestIsKept EveryRequestReturns
