\* Requests of 8, 16 and 40 bytes and stacks of 16 from a heap of 96: up to
\* four blocks, exact fits, and a remainder of eight bytes that is smaller
\* than a header.
CONSTANTS
  HEAP  = 96
  Sizes = {5, 16, 33}
  Tids  = {1, 2}
  MaxHeld = 4
  StackSizes = {16}
SPECIFICATION TaskSpec
INVARIANTS TypeOK Disjoint Accounted Coalesced OwnStacks
PROPERTIES FirstFitAllocator StackReturned
