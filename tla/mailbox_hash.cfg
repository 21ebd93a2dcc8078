\* A message whose length field is 35, the code of '#'.
CONSTANTS
  Lengths  = {9, 35}
  Bodies   = {b1}
  Senders  = {s1}
  MbxSizes = {84}
  RecvLens = {35}
  Mark = Mark
  Junk = Junk
SPECIFICATION Spec
INVARIANTS HeadAtOldest
