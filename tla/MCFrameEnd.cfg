\* The end of the stream anywhere.
SPECIFICATION Spec
CONSTANTS
  Size <- MCSize
  MaxFrameSize = 5
  MaxFrames = 2
INVARIANTS
  EOFOnlyAtBoundary
