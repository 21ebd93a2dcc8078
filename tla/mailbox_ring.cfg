\* Three message sizes (9, 13 and 21 bytes take 12, 16 and 24) in rings of
\* 44 bytes and, not a multiple of four, 30 bytes (the size task3 asks for).
CONSTANTS
  Lengths  = {9, 13, 21}
  Bodies   = {b1}
  Senders  = {s1, s2}
  MbxSizes = {20, 30, 44}
  RecvLens = {9, 21}
  Mark = Mark
  Junk = Junk
SPECIFICATION Spec
INVARIANTS TypeOK Ring Intact NoOverlap HeadAtMessage
PROPERTIES Fifo
