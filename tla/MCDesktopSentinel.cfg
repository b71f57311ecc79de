CONSTANTS
    CharSize = 2
SPECIFICATION Spec
INVARIANT RelayMatchesSpec
