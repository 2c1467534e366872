SPECIFICATION Spec
CONSTANT Commands <- AllCommands
INVARIANT SMIMELayers
CHECK_DEADLOCK FALSE
