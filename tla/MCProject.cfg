SPECIFICATION ProjectSpec
CONSTANTS
    RefLines <- MCRefLines
    HexNames = {"add"}
    HashLength = 2
    MaxLines = 4
    Identifiers = {"x", "y"}
    Ints = {"8"}
    Statements <- MCStatements
    Names <- MCNames
    Hashes <- MCHashes
    ContractOf <- MCContract
    Locals <- MCBehaviors
    Exports <- MCExports
    MaxNodes = 3
    WordSize = 65536
    Behaviors = {"a", "b"}
    Library = {"l"}
    Patterns = {"p"}
    Calls <- MCCalls
    Requirable <- MCRequirable
    Versions = {1, 2}
    Start <- MCStart
    MaxEdits = 2
    MaxTroubles = 1
    MaxBuilds = 3
    StackLimit = 6
INVARIANTS
    ContractKept
    RoundTrip ParserGoesOn
    EdgesSound OrderExact GapsAgree
    CallsAgree PinsHold DependenciesFirst UnchangedIsCached
PROPERTY BuildProgresses
CHECK_DEADLOCK FALSE
