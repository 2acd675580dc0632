SPECIFICATION GraphSpec
CONSTANTS
    Names <- MCNames
    Hashes <- MCHashes
    ContractOf <- MCContract
    Locals <- MCBehaviors
    Exports <- MCExports
    MaxNodes = 1
    WordSize = 65536
INVARIANT TransitivePurity
