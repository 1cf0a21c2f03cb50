\* Vectors that keep to the (key) contract, no key equal to the default:
\* lookups in both modes find every key, and JSON gives the vector back.
SPECIFICATION Spec
CONSTANTS
  None = None
  Alias = TRUE
  Texts <- TheTexts
  Number <- TheNumber
  Decimal <- TheDecimal
  Empty = 0
  I64Min <- MinusTwo
  I64Max = 2
  U64Max = 4
  Default = 0
  MaxElements = 4
  Kinds = {"string", "long", "ulong"}
  Sources = {"object", "sorted"}
  Written <- NoDefault
INVARIANTS
  KeysFound
  NothingSkipped
PROPERTIES
  JsonRoundTrips
