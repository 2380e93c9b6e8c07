CONSTANTS
    AddressBits = 2
    Rules <- MCRules
    MaxRules = 3
SPECIFICATION Spec
INVARIANT LongestMatch
