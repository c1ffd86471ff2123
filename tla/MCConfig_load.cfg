SPECIFICATION Spec
CONSTANTS
    MaxPlain = 7
    MaxQuoted = 6
INVARIANTS
    NoDanglingNode
    TreeRight
    VerdictRight
    TokensRight
    LookupRight
