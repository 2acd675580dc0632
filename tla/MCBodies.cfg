SPECIFICATION BodiesSpec
CONSTANTS
    Locals <- MCLocals
    Statements <- MCStatements
    Offsets = {4, 124}
    InSize = 8
    OutSize = 8
    DefaultSize = 64
    WordSize = 128
    MaxLen = 4
    buf1 = buf1
    l1 = l1
    l2 = l2
    l3 = l3
    l4 = l4
    Handles = {buf1}
    Labels = {l1, l2, l3, l4}
    Programs <- MCPrograms
    Scopes = {s1, s2, s3}
    Blocks = {b1, b2}
    None = none
    BodyLocals = {r, s}
    Callees = {"f", "g"}
    Outputs <- MCOutputs
    Inputs <- MCInputs
    MaxBody = 4
SYMMETRY Symmetric
INVARIANTS
    AccessesInBounds NamesDenoteLatest BorrowsHold
    AcceptedIsSafe OutputsWritten EndStaysReachable VerdictExact
    TreeSound FreedOnce
    ProducedIsConsumed FieldsDenoteTheirCall WiresOnly
CHECK_DEADLOCK FALSE
