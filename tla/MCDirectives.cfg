SPECIFICATION DirectiveSpec
CONSTANTS
  Names = {"m"}
  Values = {"v1", "v2"}
  Sites <- MCSites
  None = None
  Predefined = Predefined
  Builtins = {}
  QueryNames = {}
  PragmaName = "__pragma"
  EnabledQueries = {}
  MsExtensions = FALSE
  Defines <- NoDefines
  RecordAndReplace = TRUE
  MaxSourceBytes = 6
  SlotBytes = 2
  ValueBytes <- NoBytes
  OriginBytes = 1
  RecordBytes = 1
  Files = {"a"}
  Inode <- GroupInode
  Virtual = {"<forced>", "<builtin>/v.h"}
  Lines <- DirectiveLines
  Jobs <- DirectiveJobs
  Dialect = "clang"
  ClangName = "__clang__"
  SystemFiles = {"a"}
  ValueTokens <- EmptyOrPair
  MaxFileLines <- DirectiveLengths
  MaxIncludeDepth = 2
  MaxTokens = 16
  Families <- MCFamilies
  CharProfiles <- MCCharProfiles
  MaxDepth = 10
  DocUnits <- MCDocUnits
  RowCost = 4
INVARIANTS StructureKept TextExact ConditionsExact CommentsExact
