SPECIFICATION PipelineSpec
CONSTANTS
  SourceLen = 4
  OutputMax = 4
  PipeCap = 2
  Jobs <- MCJobs
  MaxNesting = 8
  ConfigJobs <- MCConfigJobs
  Meaning <- MCMeaning
  DefinitionOf <- MCDefinitionOf
  MaxDefinitionBytes = 2
  RunJobs <- MCRunJobs
  Setters <- MCSetters
  Macros <- MCMacros
  RawLines = {"raw"}
  SelectionUnits <- MCSelectionUnits
INVARIANTS FormatExact CommandExact BindingsExact ConfigurationExact SelectedExact
PROPERTY EveryCallReturns
