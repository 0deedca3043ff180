CONSTANTS
    Nalus <- MCNalus
    Units <- RTPUnits
    GenerateRTPPacketsValues = {FALSE}
SPECIFICATION Spec
INVARIANT
    KeyFrameCarriesParams
