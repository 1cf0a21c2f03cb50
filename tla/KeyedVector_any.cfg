\* Any kind of key field, any order of elements, any key.
SPECIFICATION FairSpec
CONSTANTS
  None = None
  Alias = TRUE
  Texts <- TheTexts
  Number <- TheNumber
  Decimal <- TheDecimal
  Empty = 0
  I64Min <- MinusTwo
  I64Max = 2
  U64Max = 4
  Default = 0
  MaxElements = 3
  Kinds = {"string", "long", "ulong", "enum", "float", "keyless"}
  Sources = {"object", "array"}
  Written <- AnyInteger
INVARIANTS
  TypeOK
  HitIsRight
PROPERTIES
  LookupEnds
