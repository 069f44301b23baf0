SPECIFICATION LinkSpec
CONSTANTS
    Loops = {1, 2}
    Handlers = {1, 2}
    LinkSettings <- MCSettings
    Retries = 1
    LinkScenarios <- MCScenarios
INVARIANTS
    ServiceInv
    SettingsArrive
PROPERTIES
    QuitEndsLink
CHECK_DEADLOCK FALSE
