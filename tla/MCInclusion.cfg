SPECIFICATION Spec
CONSTANTS
  Names = {"m", "__clang__"}
  Values = {"v1", "v2"}
  Sites <- MCSites
  None = None
  Predefined = Predefined
  Builtins = {}
  QueryNames = {}
  PragmaName = "__pragma"
  EnabledQueries = {}
  MsExtensions = FALSE
  Defines <- OnceDefines
  RecordAndReplace = TRUE
  MaxSourceBytes = 7
  SlotBytes = 2
  ValueBytes <- NoBytes
  OriginBytes = 1
  RecordBytes = 1
  Files = {"a", "b", "c"}
  Inode <- OnceInode
  Virtual = {"<forced>", "<builtin>/v.h"}
  Lines <- InclusionLines
  Jobs <- InclusionJobs
  Dialect = "macro"
  ClangName = "__clang__"
  SystemFiles = {"c"}
  ValueTokens <- EmptyOrPair
  MaxFileLines <- InclusionLengths
  MaxIncludeDepth = 3
  MaxTokens = 14
PROPERTIES IncludesExact Terminates
