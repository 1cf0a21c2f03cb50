\* Every kind of field, paths of up to two descents. The executor stops when
\* it has answered.
SPECIFICATION Spec
CONSTANTS
  None = None
  Err = Err
  Fields <- TheFields
  Structs = {"P", "Q"}
  KeyField <- TheKeyField
  Optional <- TheOptional
  Variants <- TheVariants
  Verified <- TheVerified
  Root = "T"
  Buffers <- TheBuffers
  Names <- TheNames
  Paths <- ThePaths
  Fill = {TRUE, FALSE}
  Leaves <- TheLeaves
  Default = "0"
  Empty = ""
CHECK_DEADLOCK FALSE
INVARIANTS
  TypeOK
  StepsLeft
  ReadsVerified
  OneLeaf
  AnswersAsMeant
