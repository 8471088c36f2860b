SPECIFICATION Spec
CONSTANTS
    h_res = 4
    v_res = 2
    Period = 1
    MaxResets = 2
INVARIANT TypeOK
PROPERTIES ClearErasesAll StrokeHasNoGaps DrawsAgain
