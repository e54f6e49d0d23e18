\* Templates, templates with one mistake, and all short texts.
CONSTANTS
  TagTypes <- MCTagTypes
  Contextual <- MCContextual
  EndOf <- MCEndOf
  Operators <- MCOperators
  Priority <- MCPriority
  PrefixPriority <- MCPrefixPriority
  UnaryQualifiers = {"limit"}
  Filters = {"g"}
  WildcardFilters = {"f"}
  DotFilters = {"size"}
  Literals = {"nil"}
  Words <- MCWords
  Settings <- MCSettings
  IsText <- MCIsText
  Templates <- PlainTemplates
  OutputLength = 5
  TagLength = 5
  ArgumentLength = 4
INIT Init
NEXT Next
INVARIANTS ParsesAsWritten NothingLostSilently BlocksMatch StopsAreReported UnparsedReadsBack
