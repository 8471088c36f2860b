SPECIFICATION Spec
CONSTANTS
    C_MAX_VAL = 4
    C_START_POS = 2
    C_DEBOUNCE_LIMIT = 1
    MaxMoves = 8
    MaxResets = 1
INVARIANTS TypeOK TracksShaft
PROPERTIES StillShaftStillCursor CursorSpec
