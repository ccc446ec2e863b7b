SPECIFICATION CvSpec
CONSTANTS
  Coros = {c1, c2, c3, c4}
  None = None
INVARIANTS
  CvInv
  NeverWedged
