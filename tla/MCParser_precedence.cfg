\* Expressions of three operators.
CONSTANTS
  TagTypes <- MCTagTypes
  Contextual <- MCContextual
  EndOf <- MCEndOf
  Operators <- MCOperators
  Priority <- MCPriority
  PrefixPriority <- MCPrefixPriority
  UnaryQualifiers = {"limit"}
  Filters = {"g"}
  WildcardFilters = {"f"}
  DotFilters = {"size"}
  Literals = {"nil"}
  Words <- MCWords
  Settings <- MCSettings
  IsText <- MCIsText
  Templates <- QuadTemplates
  OutputLength = 0
  TagLength = 0
  ArgumentLength = 0
INIT Init
NEXT Next
INVARIANTS RespectsPriority
