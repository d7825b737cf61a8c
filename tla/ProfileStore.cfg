SPECIFICATION Spec
CONSTANTS
    Games = {game1, game2}
    Names = {default, race}
    Default = default
    Configs = {one}
    MaxCalls = 2
    MaxFaults = 2
INVARIANTS TypeOK Intact NoLitter MappingKept
CHECK_DEADLOCK FALSE
