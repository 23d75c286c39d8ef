CONSTANTS
    Platforms = {"macos", "windows"}
    UserPath = {own}
    Unset = Unset
    Wrapper = Wrapper
    NoState = NoState
    UserTexts <- MCUserTexts

SPECIFICATION SetupSpec
INVARIANTS
    ServiceTypeOK
    WrapperExists
    PreviousIsKept
    UninstallIsComplete
    ProfileIsMine
PROPERTIES
    MigrationKeepsBoth
    OverridesSafely
    ShellRestored
