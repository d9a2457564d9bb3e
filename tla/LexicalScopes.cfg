CONSTANTS
    Tags = {"s"}
    Names = {"x"}
    Values = {1}
    None = None
    Kinds = {"struct", "enum"}
    ScopeLimit = 2
    PrototypeBound = 2
    TypeBound = 3
    TrailingTypes = FALSE
    OpenBound = 2
SPECIFICATION Spec
INVARIANTS
    ScopesInv
    TagDepthExact
    ConstantsVisible
PROPERTIES
    ImplementsScopeStack
    BodiesScoped
