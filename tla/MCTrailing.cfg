CONSTANTS
    Tags = {"s"}
    Names = {"x"}
    Values = {1}
    None = None
    Kinds = {"struct", "enum"}
    ScopeLimit = 2
    PrototypeBound = 2
    TypeBound = 1
    TrailingTypes = TRUE
    OpenBound = 2
SPECIFICATION Spec
PROPERTY BodySeesItsParameters
