SPECIFICATION Spec
CONSTANTS
  Modulus = 16384
  KnownNumbers <- SchemaNumbers
  MaxKeys = 2
  MaxValues = 1
  TimestampRange = {1000}
  MaxPieces = 1
  Magnitudes = {0, 300}
INVARIANTS
  IntegersAreSigned
