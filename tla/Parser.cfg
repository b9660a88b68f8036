SPECIFICATION Spec
CONSTANTS
  Byte <- MCByte
  Scripts <- MCScripts
  Noise <- MCNoise
  IntMax = 12
  NotNumber = NotNumber
INVARIANTS TypeOK RequestsIntact CutsDoNotMatter WaitsAreHonest
CHECK_DEADLOCK FALSE
