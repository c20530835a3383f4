CONSTANT MaxEdits = 2
SPECIFICATION Spec
INVARIANT CrashKeepsFileWhole
CHECK_DEADLOCK FALSE
