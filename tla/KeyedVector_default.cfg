\* A key equal to the schema default.
SPECIFICATION Spec
CONSTANTS
  None = None
  Alias = FALSE
  Texts <- TheTexts
  Number <- TheNumber
  Decimal <- TheDecimal
  Empty = 0
  I64Min <- MinusTwo
  I64Max = 2
  U64Max = 4
  Default = 0
  MaxElements = 3
  Kinds = {"long"}
  Sources = {"object"}
  Written <- WithDefault
INVARIANTS
  KeysFound
