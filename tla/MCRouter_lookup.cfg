SPECIFICATION Spec
CONSTANTS
    Names = {"handler", "api"}
    Ids = {"path", "id"}
    TestRoute = "handler"
    Other = "other"
    MaxRoutes = 3
    MaxDepth = 2
    MaxSegments = 3
INVARIANTS
    LookupCorrect
    NoDeadRoute
    ParamsRight
