CONSTANTS
  MaxTemplate = 65536
  MaxFrame = 1048576
  MaxLine = 2097152
  MaxFile = 1048576
  MaxEnvelope = 4096
  Payloads <- SomePayloads
  Texts <- SomeTexts
  Bodies <- SomeBodies
  Envelopes <- SomeEnvelopes
SPECIFICATION Spec
INVARIANTS
  RefusedAtOnce
  ArrivesWhole
  RefusedForItsSize
  NeverOver
CHECK_DEADLOCK FALSE
