\* Handlers of the client dashboard under failing KI calls.
CONSTANTS
    Radios <- MC_Radios
    Channels <- MC_Channels
    HtMode <- MC_HtMode
    Device = "gl-b1300"
    UciFaults = TRUE
    NoValue = NoValue
SPECIFICATION Spec
INVARIANT LanApEncrypted
