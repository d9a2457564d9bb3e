SPECIFICATION PartsSpec
CONSTANTS
  DeclNames = {"x"}
  Units <- AllUnits
  MaxDeclarations = 4
  Objects <- MCObjects
  MaxItems = 5
  MaxIndex = 7
  PointerValues = 64
  Symbols <- MCSymbols
  Expressions <- MCExpressions
  Placements <- MCPlacements
  DeclaredForms <- MCDeclared
  PackSources <- MCPackSources
  Definitions <- MCMacroDefinitions
  MaxDefinitions = 3
  Limits <- MCMacroLimits
  Projections <- MCProjections
  Programs <- MCExpressionPrograms
INVARIANTS InitializersExact TypesReadExact MacroValuesExact ExpressionsExact
PROPERTY DeclarationsExact
CHECK_DEADLOCK FALSE
