SPECIFICATION Spec
CONSTANTS
  Names = {"a", "b"}
  Idents <- MCIdents
  StringExprs <- MCStringExprs
  ListExprs <- MCListExprs
  Conditions <- MCConditions
  ScopeExprs <- MCScopeExprs
  StringAt <- StringValue
  ListAt <- ListValue
  HoldsAt <- Condition
  TypeAt <- ExprType
  Env <- MCEnv
  Allowed = {"date"}
  Matches <- MCMatches
  Fallback <- MCFallback
  Sources = {"f", "g", "h", "file#f"}
  FileOf <- MCFileOf
  Given = {"f", "g", "h"}
  Readable = {"f", "g"}
  MaxTokens = 5
  MaxIncluded = 2
  MaxFiles = 2
  Paths <- MCPaths
  Strings <- MCStrings
  Lists <- MCLists
  Initial <- MCInitial
INVARIANTS TypeOK ScopeRestored OneBlockParsed CopyIsWhole FilesNest
PROPERTIES ImplementsTree ReadingEnds
