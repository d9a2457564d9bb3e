SPECIFICATION Spec
CONSTANTS
  Targets = {"x86_64-linux-gnu", "i686-linux-gnu", "aarch64-linux-gnu", "avr", "armv7-apple", "x86_64-windows-gnu", "x86_64-msvc", "i686-msvc", "thumbv7-msvc", "hexagon"}
  FieldTypes = {"Char", "Int"}
  BitShapes <- MCBitShapes
  RecordForms <- MCRecordForms
  FieldForms <- MCFieldForms
  TypedefAligns = {64}
  LayoutFields <- MCLayoutFields
  SizeLimit = 330
  BasePool <- MCBasePool
  Profiles <- MCTableProfiles
  Typedefs = {1}
  Records = {1, 2}
  Members = {1}
  TypeAligns = {0, 64}
  MaxParts = 3
  Lengths <- MCLengths
  Widths = {12}
  Forward <- MCForward
  MaxDepth = 8
  MaxMemberWork = 3
  ConstantProfiles <- MCProfiles
  Enumerators <- MCEnumerators
  Expressions <- MCExpressions
  NamedExpressions <- MCNamedExpressions
  MaxVariants = 3
INVARIANTS RecordsExact TypesExact EmittedRecordsExact ConstantExpressionsExact
CHECK_DEADLOCK FALSE
