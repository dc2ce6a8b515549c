SPECIFICATION FairSpec
CONSTANTS
    security = security
    plain = plain
    log = log
    trace = trace
    getOne = getOne
    getTwo = getTwo
    getAll = getAll
    postOne = postOne
    A = A
    B = B
    Requests = {r1}
    Changers = {c1, c2}
    Filters = {security, plain, log, trace}
    Security = security
    FilterMatches = {security, plain, log}
    RouteInfos = {getOne, getTwo, getAll, postOne}
    RouteMatches = {getOne, getTwo, getAll}
    Key <- MCKey
    Category <- MCCategory
    InitialSort <- MCInitialSort
    StartFilters <- MCStartFilters
    StartRoutes <- MCStartRoutes
    Stack = 1
    MaxChanges = 6
    FilterCost = 3
    RouteCost = 2
    NoCategory = NoCategory
    NoFilter = NoFilter
    NoRoute = NoRoute
INVARIANTS
    IInv
    EveryFilterRuns
    FailuresAreMapped
PROPERTIES
    ServedAsChecked
    OthersKeepTheirRoutes
    EveryRequestEnds
CHECK_DEADLOCK FALSE
