SPECIFICATION Spec
CONSTANTS
    Variables <- MCVariables
    Substring <- MCSubstring
    Context <- MCContext
    DryRun <- MCDryRun
    Leaf <- MCLeaf
    Filler <- MCFiller
    Companion <- MCCompanion
    Score <- MCScore
    Thresholds <- MCThresholds
    MaxNumber = 4
    MaxDepth = 3
    MaxNodes = 6
    DraftDepth = 3
INVARIANTS TypeSound ScoringNeverFails
CHECK_DEADLOCK FALSE
