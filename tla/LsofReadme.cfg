CONSTANTS
    Outputs <- MCOutputs
    PortFilters <- MCPortFilters
SPECIFICATION Spec
INVARIANT
    EstablishedListed
