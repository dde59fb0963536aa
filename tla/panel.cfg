SPECIFICATION Spec
CONSTANTS
  NumLinks = 2
  Attempts = 4
  Polls = 2
  InheritValues <- MCInheritValues
  ReinitWhen = "steady"
  AttachFails = TRUE
INVARIANTS PowerSound PictureSound
PROPERTIES SwitchEnds
