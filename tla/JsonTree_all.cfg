\* Documents of every shape, nested to one level past max_depth.
SPECIFICATION Spec
CONSTANTS
  Wide = 16
  Kinds <- TheKinds
  Objects <- TheObjects
  RootTable = "Node"
  Variants <- TheVariants
  Position <- ThePositions
  Number <- TheNumbers
  Spelled <- TheSpelling
  TextRank <- TheRanks
  Codecs <- TheCodecs
  MaxDepth = 3
  MaxNodes = 9
  Docs <- TheDocs
INVARIANTS
  TypeOK
  RecursionBounded
  OneLevelApart
  RebuiltInKeyOrder
  SameBuffer
  TakesBack
  RefusedForCause
  PrintsWhatWasGiven
