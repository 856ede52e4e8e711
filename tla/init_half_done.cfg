SPECIFICATION Spec
CONSTANTS
    alpha = alpha
    beta = beta
    a1 = a1
    b1 = b1
    Missing = Missing
    Torn = Torn
    Names = {alpha}
    CSRs = {a1}
    CN <- MCCN
    MaxSerial = 4
INVARIANT NotExistMeansInit
CHECK_DEADLOCK FALSE
