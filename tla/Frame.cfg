CONSTANTS
    Limits <- MCLimits
    Sizes <- MCSizes
    Types <- MCTypes
    CutPoints <- MCCutPoints
    Foreign <- MCForeign
    MaxFrames = 2
    MaxCuts = 1
SPECIFICATION FairFrameSpec
INVARIANTS FrameTypeOK Faithful
PROPERTIES FramesArrive
CHECK_DEADLOCK FALSE
