SPECIFICATION MacroSpec
CONSTANTS
  Names <- MCNames
  Values = {"v1", "v2"}
  Sites = {"s1", "s2"}
  None = None
  Predefined = Predefined
  Builtins = {"__FILE__"}
  QueryNames = {"__has_feature"}
  PragmaName = "__pragma"
  EnabledQueries = {"__has_feature"}
  MsExtensions = TRUE
  Defines <- MCDefines
  RecordAndReplace = TRUE
  MaxSourceBytes = 10
  SlotBytes = 3
  ValueBytes <- MCValueBytes
  OriginBytes = 1
  RecordBytes = 3
INVARIANTS MacroInv StackBytesExact
PROPERTY ImplementsMacroScopes
CHECK_DEADLOCK FALSE
