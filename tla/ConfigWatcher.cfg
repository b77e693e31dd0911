SPECIFICATION Spec
CONSTANT MaxSaves = 3
INVARIANT TypeOK
PROPERTIES OneReloadPerVersion SaveOutsideDebounceReloaded StopEnds
CHECK_DEADLOCK FALSE
