SPECIFICATION Spec
CONSTANTS
  p1 = p1
  p2 = p2
  x1 = x1
  x2 = x2
  x3 = x3
  HDisplay = 7
  Planes = {p1, p2}
  Pipes = {x1, x2, x3}
  NoPipe = NoPipe
  Requests <- MCRequests
  VsyncBetween = FALSE
SYMMETRY PipeSymmetry
INVARIANTS SidesAgree OnePicture
