SPECIFICATION FrontSpec
CONSTANTS
    RefLines <- MCRefLines
    HexNames = {"add"}
    HashLength = 2
    MaxLines = 4
INVARIANT DescriptionsAgree
CHECK_DEADLOCK FALSE
