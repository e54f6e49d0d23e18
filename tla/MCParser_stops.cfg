\* Tags that do not start with their name or do not end with their arguments.
CONSTANTS
  TagTypes <- MCTagTypes
  Contextual <- MCContextual
  EndOf <- MCEndOf
  Operators <- MCOperators
  Priority <- MCPriority
  PrefixPriority <- MCPrefixPriority
  UnaryQualifiers = {"limit"}
  Filters = {"g"}
  WildcardFilters = {"f"}
  DotFilters = {"size"}
  Literals = {"nil"}
  Words <- MCWords
  Settings <- MCSettings
  IsText <- MCIsText
  Templates <- LooseTemplates
  OutputLength = 0
  TagLength = 0
  ArgumentLength = 0
INIT Init
NEXT Next
INVARIANTS ReadsWhole
