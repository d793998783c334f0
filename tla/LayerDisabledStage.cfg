SPECIFICATION Spec
CONSTANTS
    Parts <- SomeParts
    Endpoints = {"health", "users"}
    Health = "health"
INVARIANT DisabledStageIsSilent
CHECK_DEADLOCK FALSE
