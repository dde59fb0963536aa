SPECIFICATION Spec
CONSTANTS
  Buffers = {b1, b2}
  Sizes <- MCSizes
  NoBuffer = NoBuffer
  XRes = 3
  Envs <- MCEnvs
INVARIANTS PinsBalanced CursorKept PictureSound
PROPERTIES PinsReturned
