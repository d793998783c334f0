SPECIFICATION Spec
CONSTANTS
    Parts <- SomeParts
    Endpoints = {"health", "users"}
    Health = "health"
INVARIANTS PresentPartsObeyed MissingIsOn
PROPERTY ServiceOptionsKept
CHECK_DEADLOCK FALSE
