SPECIFICATION Spec
CONSTANTS
  None = None
  Names = {"a", "f", "g", "x", "p", "r"}
  Jobs <- ExpansionJobs
  Queries = {"__has"}
  Spliced <- Splices
  MsPragmaActive = TRUE
  CounterMax = 5
INVARIANT ExpansionExact
PROPERTY Terminates
