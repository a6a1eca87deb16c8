\* Texts of at most five bytes, two filters and four payloads.
SPECIFICATION InputsSpec
CONSTANTS
  Bytes <- SomeBytes
  MaxText = 5
  Bar <- TwoFilters
  Values = {v1, v2}
  None = None
  Payloads <- FourPayloads
  Texts = {"", "x"}
  MaxAsked = 2
INVARIANTS
  TokensAreWords
  TokensOnce
PROPERTIES
  TableFitsSelects
  FormsStartFresh
CONSTRAINT FewAsked
CHECK_DEADLOCK FALSE
