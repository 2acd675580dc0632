SPECIFICATION OwnershipSpec
CONSTANTS
    buf1 = buf1
    l1 = l1
    l2 = l2
    l3 = l3
    l4 = l4
    Handles = {buf1}
    Labels = {l1, l2, l3, l4}
    Programs <- MCPrograms
INVARIANT FurtherUseRejected
CHECK_DEADLOCK FALSE
