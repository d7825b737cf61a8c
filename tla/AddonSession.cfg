SPECIFICATION Spec
CONSTANTS
    Names = {default, race}
    Default = default
    MaxEdits = 2
    MaxOutside = 1
    Foreign = {"auto", "retry", "geometry", "chat.visible", "version", "field"}
INVARIANTS TypeOK ScreenFollowsConfig DeclaredUnlessHushed
CHECK_DEADLOCK FALSE
