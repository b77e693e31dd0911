SPECIFICATION Spec
CONSTANT MaxSaves = 2
PROPERTY EverySaveReloaded
CHECK_DEADLOCK FALSE
