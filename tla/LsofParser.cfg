CONSTANTS
    Outputs <- MCOutputs
    PortFilters <- MCPortFilters
SPECIFICATION Spec
INVARIANTS
    ListedExactly
    FailsExactly
