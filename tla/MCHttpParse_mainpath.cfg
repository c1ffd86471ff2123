SPECIFICATION Spec
CONSTANTS
    MaxSize = 4
INVARIANTS
    MainPathRight
