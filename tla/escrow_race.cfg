SPECIFICATION Spec
CONSTANTS
    j1 = j1
    j2 = j2
    d1 = d1
    d2 = d2
    l1 = l1
    l2 = l2
    Job = {j1, j2}
    Dispute = {d1, d2}
    Line = {l1, l2}
    Window = 0
    Hold = 2
    Other = 1
    MaxFundings = 2
    MaxWallet = 1
    AdminStatus = {"IN_PROGRESS"}
INVARIANT OneActiveDispute
CHECK_DEADLOCK FALSE
