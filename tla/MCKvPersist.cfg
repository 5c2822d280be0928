CONSTANTS
    Entries = {music_switch_method, es9018_cfg}
    Values = {v0, v1}
    Default = v0
    Torn = torn
    Corrupt = corrupt
SPECIFICATION LiveSpec
INVARIANTS
    NothingForgotten
PROPERTIES
    SpoiltIsRewritten
    SettingsReachFlash
