SPECIFICATION Spec
CONSTANTS
    H_RES = 3
    H_FP = 1
    H_PW = 1
    H_BP = 1
    V_RES = 2
    V_FP = 1
    V_PW = 2
    V_BP = 1
    CursorSize = 2
INVARIANTS PixelsAreLate StrayReads
PROPERTY RasterSpec
