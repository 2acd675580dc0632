SPECIFICATION ScopeSpec
CONSTANTS
    Scopes = {s1, s2, s3}
    Blocks = {b1}
    None = none
SYMMETRY Symmetry
INVARIANTS
    NothingLeaks
