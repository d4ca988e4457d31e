CONSTANTS
  BufferSize = 5
  High = 3
  MaxOpaque = 2
SPECIFICATION Spec
CHECK_DEADLOCK FALSE
INVARIANTS TypeOK ByteConservation NoGap StreamsAgree
PROPERTIES CallAnswered CatchUp
