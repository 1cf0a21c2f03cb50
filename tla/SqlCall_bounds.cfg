\* Buffers that exceed a bound, in sessions that are not strict.
SPECIFICATION Spec
CONSTANTS
  None = None
  Err = Err
  Letters <- TheLetters
  Digit <- TheDigit
  OtherChars <- TheOthers
  MaxLength = 10
  MaxDepth = 3
  MaxId = 1
  MaxIndex = 11
  Calls <- TheCalls
  Defaults <- TheDefaults
  InUse <- TheBounds
  MiB = 2
  MinLen = 4
  DefaultSchema <- TheDefaultSchema
  Schemas <- TheSchemas
  Walk <- TheWalk
  Says <- TheWords
INVARIANTS
  BoundsNotRelaxed
