CONSTANTS
    Defaults = Defaults
    custom = custom
    Config = {Defaults, custom}
    Process = {p1, p2}
    NoFile = NoFile
    Damaged = Damaged
    Failed = Failed
    NoReply = NoReply
    Empty = Empty
    Torn = Torn

SPECIFICATION ConfigSpec
INVARIANTS
    ConfigTypeOK
    FileIsWhole
    FileIsPrivate
PROPERTIES
    ImplementsRegister
