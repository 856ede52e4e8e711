SPECIFICATION Spec
CONSTANTS
    alpha = alpha
    beta = beta
    a1 = a1
    b1 = b1
    Missing = Missing
    Torn = Torn
    Names = {alpha, beta}
    CSRs = {a1, b1}
    CN <- MCCN
    MaxSerial = 4
INVARIANTS TypeOK SerialNeverReused ServerPairMatches RevocationsKept RequestOrCertUnlessCut
SYMMETRY MCSymmetry
CHECK_DEADLOCK FALSE
