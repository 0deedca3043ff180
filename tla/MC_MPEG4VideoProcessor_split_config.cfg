CONSTANTS
    Chunks <- MCChunks
    Units <- PiecePackets
    InitialConfig <- SDPConfig
    GenerateRTPPacketsValues = {FALSE}
    MaxFrame = 4
SPECIFICATION Spec
INVARIANT
    ConfigBeforeGOV
