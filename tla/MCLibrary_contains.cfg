\* KeyInfo::contains against the destinations join was given.
CONSTANTS
    Args <- MCArgs
    NullKey = NullKey
    MaxSteps <- MCMaxSteps
SPECIFICATION Spec
INVARIANT ContainsMatchesDestinations
