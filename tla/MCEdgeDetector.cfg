SPECIFICATION Spec
CONSTANT MaxChanges = 12
INVARIANT EveryEdgeOnePulse
