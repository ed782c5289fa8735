CONSTANTS
  r1 = r1
  r2 = r2
  r3 = r3
  r4 = r4
  None = None
  Requests = {r1, r2, r3, r4}
SYMMETRY Symmetry
SPECIFICATION Spec
PROPERTY MayRegisterAgain
