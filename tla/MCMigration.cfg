CONSTANTS
    Platforms = {"macos", "windows"}
    UserPath = {own}
    Unset = Unset
    Wrapper = Wrapper
    NoState = NoState
    UserTexts <- MCUserTexts

SPECIFICATION SetupSpec
PROPERTIES
    MigrationIsSafe
